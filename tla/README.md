# Formal model of the restaurant voice assistant

This directory holds TLA+ modules translated from `src/restaurant_voice_ai`, the TLC
configurations that check them on small instances, and TLAPS proofs of the results that should
hold for every instance. Paths below are relative to `src/restaurant_voice_ai` unless they
start with `docs/`.

    tlc -workers 2 -config ReservationSafety.cfg MCReservationService
    tlapm ReservationServiceProofs.tla

## The system

A caller talks to the restaurant by text, over a browser websocket or over the phone. Every
channel ends in one `ConversationService.process_message`, which keeps a snapshot of the
conversation in Redis, lets the caller book, change or cancel a table, and runs the reservation
transactions in PostgreSQL after an explicit confirmation. Staff clients call the reservation
API directly. Several processes may serve one conversation.

| Component | State | Operations | What makes it correct |
|---|---|---|---|
| Reservation transactions `db/services/reservation_service.py` | rows of `reservations` and `restaurant_tables`, row locks | create, update, cancel | no double booking, seats for everybody, checks that stay valid until the commit, answers that match the database |
| Distributed lock `persistence/redis/locks.py` | one key with an expiry | acquire, release | one worker inside |
| Tool dispatcher `conversation/tools/dispatcher.py`, idempotency records `persistence/redis/idempotency.py`, gateway `conversation/dependencies.py` | a record per confirmed operation; the request's database session | execute | applied once, success only after a commit, errors only for faults |
| Dialogue `conversation/service.py` (`_handle`) | the pending operation: arguments, missing fields, summary | propose, follow up, correct, reject, confirm | what is executed was put to the caller, complete |
| Conversation turns and memory `conversation/service.py`, `persistence/redis/memory.py` | the stored snapshot | process_message, reset | serial turns, nothing lost, nothing closed comes back |
| Telephony `api/routes/voice.py`, `db/services/call_session_service.py` | call rows, retry counter in the snapshot | incoming, process-speech, status | reprompts bounded, what was recorded stays, a transfer is recorded |
| Voice sessions `voice/websocket.py`, `voice/session_manager.py` | turn task, utterance buffer, send lock, session registry | start, audio, commit, interrupt, reset, end | audio events in order, only playback interrupted, places given back |
| Knowledge index `rag/` | the Chroma collection of all processes, a BM25 copy in each | ingest, delete, search | what was reported is searched, the old version until the new one is there |
| Rate limiting `rate_limit/` | a counter per key and window | check | no more than the limit per window |
| Conversation audit `persistence/conversation_history/` | audit rows | record_turn | a row for every answered turn |

How they interact: a turn takes the lock of its conversation, loads the snapshot, handles the
message, calls the dispatcher when an operation was confirmed, saves the snapshot, releases the
lock and then writes the audit. The dispatcher brackets the gateway's call with two Redis
writes. The gateway calls the same `ReservationService` as the API, on the session of the
request, which the phone webhook and the audit use as well. A browser's connection passes the
rate limiter, takes a place in the session registry of its process, and then calls the
conversation once per utterance. The knowledge index is read by the conversation's answers and
written by the upload API and the ingestion script.

What is hard: transactions of concurrent handlers statement by statement; a lock that is a
lease; remote calls that fail after they took effect; a worker that dies, or whose task is
cancelled by a disconnect or a barge-in, between two remote calls; records and snapshots that
expire; a pending operation that outlives many turns; two tasks that write to one socket while
one may cancel the other; webhooks repeated, out of order, and writing from old copies of a
row; an index that every process keeps for itself. The list, each hazard with its line and the
properties that watch it, is in `PROJECT.json`.

## Modules

| Module | Models |
|---|---|
| `ReservationBook` | what the reservation subsystem promises: atomic booking, rescheduling, cancellation |
| `ReservationService` | the transactions that implement it, one SQL statement per action |
| `RedisLock` | `RedisDistributedLock` |
| `ToolDispatch` | `ConversationToolDispatcher.execute` for the mutation tools, one await per action |
| `Dialogue` | `_handle` on the pending operation, as pure operators |
| `ConversationTurns` | `process_message` and `reset`: composes `Dialogue`, `RedisLock` and `ToolDispatch` |
| `RateLimiter` | the Redis fixed window of `rate_limit/redis.py` |
| `VoiceSession` | `voice/`: connections, handler and turn task, send lock, registry; extends `RateLimiter`, which admits each connection |
| `ConversationAudit` | `record_turn` and the unique keys of the audit tables |
| `Telephony` | the Twilio webhooks of one call; extends `ConversationAudit`, which each turn ends with |
| `KnowledgeIndex` | `rag/`: ingestion, deletion and search over Chroma and BM25 |
| `MC...` | instances for TLC |
| `...Proofs` | theorems |

### ReservationService

`rsv` and `tables` are the committed rows, `rowLock` and `tableLock` the row locks, and per
handler `pc` is the next statement and the rest what its local variables hold. The statements
are those of the code: read the row (`ReadsLocked` for `get_by_id(lock=True)`, `ReadsByCode`
for the unlocked read), `find_candidates ... FOR UPDATE` (`StartSearch` fixes the result,
`LockTable` locks its rows in their order, waiting at each), one `has_overlap` per candidate
(`CheckTable`), the choice (`SelectTable`, `Conflict`), the flush, the commit, and the read
after the commit. PostgreSQL is at READ COMMITTED, its default, which the code does not change:
plain reads see committed rows, `FOR UPDATE` and `UPDATE` wait for the lock, locks end with the
transaction. `Fail` ends any handler at any statement; once the commit has happened it leaves
the reservation made. A table is its position in `(capacity, table_number)` order and only new
ones appear, because nothing in the code changes or deletes one. Names, phones, languages and
the other columns that decide nothing are left out. A confirmation code is the reservation's
identifier. Times are small numbers, and 0 is None in a request; whether a key is present with
None is kept, because the code distinguishes the two.

### RedisLock

`owner` is the token in the key, `stage` where a worker is around the block, `overrun` the
workers still inside whose lease has run out. The model lets the lease run out at any moment: a
turn has no bound of its own on the time of its model, database and Redis calls. That Redis
expires a key nobody releases is an assumption (`Expire`), not a result.

### ToolDispatch

`record` is the status of each operation's record, `made` counts its commits, `step` is the
next await of each handler, `begun` the handlers whose database session has a transaction open.
`ReservationService` as a whole is the three steps `Begin`, `Write`, `Reread`. Every remote
call may raise before or after it took effect (`Fail`), or be cut off (`Abandon`). `hit` and
`forgotten` are history variables for the properties. An idempotency key, the hash of
conversation, tool and canonical arguments, is the operation itself.

### Dialogue and ConversationTurns

The operators of `Dialogue` follow `_handle` branch by branch. The text of a message is
abstracted to what the matchers make of it: a decision, an intent, entities, and the text as
the answer to a question. Of the required fields of a booking the name, which is answered in
free text, and the phone number, which no summary mentions, stand for themselves, and "slot"
for date, time and party. A summary is what it says of each field (`Summary`): of the phone
number nothing. The identifier of a new operation, a UUID in the code, is the next number
(`named`). `Operation` is what the tool
schemas accept; a pending operation outside it is refused by the dispatcher.
`ConversationTurns` instantiates `RedisLock` and `ToolDispatch` on its own variables, so a
turn's steps are theirs, joined to the turn's program counter. The conversations checked are
those over the text API, where the session is fresh when the dispatcher is called. `Break` is
an exception or a cancellation inside the lock (the `finally` releases it), `Crash` the death
of the process. A request for confirmation is stored first, and heard by the caller only when
the turn has released the lock and answered: `heard` and `unheard` are histories of the
summaries that were given and of those whose turn was cut off after it had stored them. The
audit that a turn ends with is `ConversationAudit`; here it is one more place to be cut off.

### RateLimiter and VoiceSession

`Label` takes the window from the handler's clock, `Pass`, `Exceed` and `CheckFails` are the
Redis script, which a new window may precede. `prompt` is a history variable. The in-memory
limiter is the case in which nothing comes between the two.

`conn` has a record for each connection. `pc` and `todo` are the handler: the await it is at
and what it has still to do for the message it read, one entry per event or commit. `turn.at`
is the await of the turn task and `turn.cancelled` that it has been cancelled and not yet
unwound. `queue` is the send lock, its holder first, as asyncio's lock serves its waiters in
order; an event is on the wire (`Write`) before its send returns (`HandlerSent`, `TurnSent`),
and between the two the other task runs. `playing`, `speaking`, `vad` and `buffer` are the
fields of the session, `sessions` the registry, `sounding` a history of the wire. Frames are
speech or silence, counted up to the thresholds they are compared with; those from before the
speech are kept apart (`Kept`) and open the utterance without a look at its maximum (`Opened`).
Frames have one size, so that the maximum in bytes is one of frames. Left out: formats and
metrics, `voice_allow_barge_in = False`, and what a
cancelled turn does once its session has ended. Origin, language and authentication are a
refusal (`Refuse`). The conversation's turn is one step, `Chat`.

### ConversationAudit and Telephony

`row` is the call session, `snapshot` the part of the conversation's memory the webhooks use,
`handler` a request with its own copy of the row (`seen`: SQLAlchemy's identity map, forgotten
by a rollback) and of the snapshot (`loaded`). An update writes the columns that differ from
the copy (`Flush`). `line` and `asked` are Twilio: it asks again only after the answer, or
gives up waiting; callbacks come at any time. `total` and `turns` are the audit's rows, read in
one step and committed in another under their unique keys. `process_message` is one step
(`Turn`); `ConversationTurns` has its inside. `Fails` is an exception the speech webhook
catches, `Breaks` one it does not, or the death of the process. Requests refused before they
read anything are left out.

### KnowledgeIndex

`stored` is the Chroma collection, `lexical[p]` the BM25 index of a process. A request waits
once, for its embeddings (`embed`); from `Replace` to `Rebuild` it is synchronous code, which
holds the event loop of its process (`busy`) but not of the others. `delete_source` counts and
deletes in one step, and then rebuilds. A call that fails after it took effect is the failure
of the next one. Documents matter by two facts: whether a chunk has no word (`Wordless`) and
whether two chunks have one identifier (`Repeated`). A search may cite any subset of what it
can see, which covers scores, thresholds and top K. `authors`, `reported`, `kept` and `behind`
are history variables for the properties: who deleted a source's chunks last and who added some
since, what these told their clients of it, which sources ought to be there, and which
processes' indexes have not followed a write.

## Runs

| Run | Instance | Shows |
|---|---|---|
| `reservation_safety` | 2 handlers, 2 reservations, tables for 2 and 4, clock 0..1 | type, no double booking, capacity, stable checks, honest answers, refinement of `ReservationBook` |
| `reservation_liveness` | the same, fewer requests, clock stopped | every request is answered |
| `reservation_recancel` | 2 handlers, 1 reservation | a counterexample to idempotent cancellation |
| `lock` | 3 workers | mutual exclusion up to an expired lease |
| `dispatch_safety` | 3 handlers, 1 operation, at most 2 commits | applied once, success only after a commit |
| `dispatch_fresh` | 2 handlers, a creation and a cancellation | a technical error without a fault |
| `dispatch_lifecycle` | 2 handlers, 1 creation | an operation recorded as failed that took effect |
| `conversation_safety` | 2 workers, 6 kinds of message and reset, 3 messages in all | executes what was prompted, serial turns, closed operations stay closed, done means committed, once as long as its record stands |
| `conversation_prompt` | 1 worker, 3 kinds of message | a confirmation requested with a field missing |
| `voice_session` | 2 clients of one identity, 1 place, 1 request per window | the window's limit, audio in order and ended, only playback interrupted, no turn replaced, answers before the end, places given back |
| `telephony` | 1 call, 5 requests, 2 at a time, the second miss goes to staff | reprompts bounded, escalation for cause, recorded facts stay, transfers and turns recorded |
| `knowledge` | 2 processes, 2 sources, 3 requests, 2 at a time | reports stay true, the old version until the new one, BM25 is a copy |

Why the bounds are enough. Two handlers and two reservations are what a double booking, a
deadlock or a stale check needs; the requests contain overlapping, adjacent and default times,
a party for either table, one above the limit, and updates of the party alone, of either time
alone, of a null party and of no schedule key. Three workers let a late release meet a third
worker. `MaxMade = 2` is one commit more than the property allows. In `conversation_safety`
three messages are the longest story a property needs, propose, correct or complete, confirm,
and two workers overlap two of them; the messages contain a booking that lacks its phone number
and a correction that changes it. In `voice_session` two clients compete for the limit and the
place; one frame of speech and one of silence make an utterance, so that a full buffer, a
refused commit, a barge-in and a second utterance are all reached; one frame more is kept from
before the speech than an utterance may have, as the defaults allow; an answer has a chunk or
none. Its clock stays within one window, where the limit is; windows that follow each other, a
window that ends while a request is between its label and its count, and the key of the window
before are in the theorem `LimitHolds`. In `telephony` five requests are a call that comes in,
two misses or a miss and an answer, and two callbacks; the lifecycle is `in-progress`,
`completed` with a duration and `failed` with an error. In `knowledge` three requests are an
ingestion, its replacement and a deletion, overlapping in two processes; the documents are an
ordinary one, one with a wordless chunk and one that repeats a chunk. Deadlock is checked
except in the conversation, voice and telephony runs, which stop when a bound is used up or the
call is over. Symmetry is used only in runs without temporal liveness; handlers, workers,
processes and reservations are interchangeable there. In the conversation runs what expires or
crashes is unbounded.

The mutants named in `PROJECT.json` are the `Mut...` operators: plausible slips of the code,
each of which makes its property fail.

## Fairness

`ReservationService`: strong fairness of each handler's normal steps. The event loop runs every
ready coroutine, and PostgreSQL queues the waiters of a row lock, so a handler whose lock comes
free again and again does get it. Failures are never required. `VoiceSession`: weak fairness of
what can go on in a connection (a send that can be written, a task that is ready or cancelled,
a lost connection that is read, the timeout of a session that is too old) and of the session's
time running out; both tasks run on one event loop, which serves whatever is ready, and
`asyncio.wait_for` ends the wait of a session that is too old. A client need not do anything
and may send frames for ever; `PlacesGivenBack` holds because the age is looked at before each
message. The other specifications are checked for safety only and need no fairness.

## What the checks found

Four places where the code does not do what the repository says of it, each with a run that is
expected to fail and the quotation in `PROJECT.json`:

- `CancellationIsIdempotent`: cancelling by code reads the row without a lock, so the second of
  two concurrent cancellations overwrites `cancelled_at`.
- `UnavailableOnlyOnFault`: the gateway's lookup, and the phone webhook's own query, leave a
  transaction open in the session; `session.begin()` then refuses, and cancellations and
  modifications by conversation and creations by phone never succeed.
- `FailedDidNotApply`: `fail()` overwrites whatever record is there, and is also called when the
  reservation has committed and its answer was lost, the read after it raised or `complete()`
  raised; the operation is then free to be executed again.
- `PromptIsComplete`: a correction does not recompute `missing_fields`.

Six more that the models contain as steps. No run is set to fail on them; the properties and
theorems of the parts concerned are stated so that they hold all the same, and say what they
leave out:

- An operation is stored as awaiting confirmation before the caller is asked. If the turn is cut
  off in between, a yes in the next message executes what the caller never heard
  (`conversation/service.py:119`; the README promises a summary and an explicit confirmation at
  line 285). `ExecutesWhatWasPrompted` allows for it with `unheard`.
- The summary leaves the phone number out, also one that a correction has just changed
  (`conversation/service.py:489`; `docs/architecture.md:69` reads the required fields back).
  `Summary` has it so.
- Frames kept from before the speech enter the utterance without a look at its maximum
  (`voice/audio.py:36`): the defaults allow 983040 bytes of them for an utterance of 960000,
  which `docs/stage-7-voice-pipeline.md:33` says is capped. `UtterancesFit` has the condition.
- A callback of a call's progress that is delivered late or again replaces the status
  `completed` (`call_session_service.py:56`; `docs/stage-8c-twilio-incoming-calls.md:12` calls
  the callbacks idempotent). `RecordedStays` allows this and no other way back.
- Two first webhooks of one call both find no row, and the later insert answers 500
  (`call_session_service.py:29`; line 8 of the same document has it create idempotently). This
  is the first branch of `Insert`.
- Two processes that replace one source both delete, then both add, and both versions stay
  (`rag/vector_store.py:60`; `docs/rag-design.md:25` prevents duplicate chunks). `ReportIsKept`
  asks for a version alone only where one process wrote; `OneWriterOneVersion`.

Behaviour the models contain and no document rules out, for whoever changes this code:

- A full utterance buffer refuses silence too, so the end of the speech is not seen: the
  session is deaf until the client commits (`voice/audio.py`).
- `session.end` after an interrupted turn awaits the cancelled task; `CancelledError` ends the
  handler without `session.ended`. A reset that waits too long for the lock raises
  `TimeoutError`, which is answered as an idle timeout (`voice/websocket.py`).
- A message over the websocket that is JSON but not an object raises in the handler and ends the
  session without an event (`voice/websocket.py`).
- A rate-limited request that is counted after its window is over may meet a new key, and is
  not held to the limit (`rate_limit/redis.py`).
- A conversation that is forgotten or reset numbers its turns from one again; the audit refuses
  the numbers it has (`conversation_history/service.py`).
- Chunks of one heading with the same text have one identifier, Chroma refuses the batch, and
  the replacement has already deleted the old version. A chunk without a word makes the whole
  BM25 index unready. A deletion whose rebuild failed leaves BM25 citing the source, and trying
  it again finds nothing to delete and rebuilds nothing. Of two ingestions of a source in one
  process the one whose embeddings come last wins, whichever text is newer; of two in different
  processes both may stay. A process does not see what another wrote until it writes
  or restarts (`rag/`).

## Proofs

TLAPS checks these for every number of handlers, tables, reservations, workers and operations,
from the assumptions named in the modules (`TableAssumption`: tables are numbered in order of
capacity; `RequestAssumption`, `ClientAssumption`, `WorkerAssumption`, `OperationAssumption`,
`TurnAssumption`, `RateAssumption`, `VoiceAssumption`, `TelephonyAssumption`,
`KnowledgeAssumption`: constants have their types and the null values are none of them; a
window is at least a second, there is a place, an utterance needs some speech and some silence
at its end, and a call has at least one miss before it goes to staff).

- `ReservationServiceProofs`. `Invariance` proves the inductive invariant `IInv`. None of the
  safety properties is inductive alone: that no two reservations overlap is kept by a commit
  only because the committing handler has held, since before its first `has_overlap`, the lock
  on every candidate, and every other committer of that table would have needed the same lock.
  So `IInv` records which locks are held at which statement, what the tables checked so far are
  known to be free for, and that an update still holds its row. From it follow
  `NeverDoubleBooked`, `AlwaysSeated`, `ChecksStayValid` and `AnswersAreCommitted`, and
  `Refinement`: every step of `ReservationService` is a step of `ReservationBook` or leaves the
  book alone.
- `RedisLockProofs`. A lease that has not run out is the key (`LeaseIsKey`); mutual exclusion
  follows, as two workers would hold one key.
- `ToolDispatchProofs`. As long as the record of an operation was not lost, at most one handler
  holds it, the record stands for it, and nothing committed before that handler's write
  (`OnceOnly`); whatever is completed or answered with success did commit (`Honest`).
- `ConversationTurnsProofs`. The conversation is proved from its parts: every step of a turn is
  a step of `RedisLock` and one of `ToolDispatch`, or leaves them alone, so their invariants
  carry over through `INSTANCE`. `TurnsAreSerial` is not inductive alone: a turn may save
  because the lock admits no second turn within its lease, so what it loaded is still stored.
  `ClosedStaysClosed` needs besides that identifiers are new (`Numbered`), and that a turn that
  closes an operation stores another one or none (`Replaced`). `PromptedBeforeExecuted`
  (`ExecutesWhatWasPrompted`) rests on the dialogue and on who heard what: whatever branch
  `Handle` takes, a complete operation has the summary of its present arguments (`Summarized`),
  and once a copy of the snapshot is stored, the question about it was put to the caller, or
  its turn was cut off after storing it or has yet to reply (`Told`, `AskInv`). It does not say
  that the caller heard the question, nor anything of the phone number; neither is true.
  `DoneIsCommitted` comes from the dispatcher's honesty. `TurnsApplyOnce` (`ConfirmedOnce`): the
  turns implement the specification of the dispatcher, whose `AppliedOnce` therefore holds of
  them.
- `RateLimiterProofs`. The key of the present window, once counted in, outlives the window,
  because its life starts inside it and lasts as long; and nothing is counted for a window to
  come. So the key has counted every request admitted promptly (`LimitHolds`).
- `VoiceSessionProofs`. Every step changes at most one connection, so the argument is about one
  (`Good`, and `Fine` for what a step makes of it). None of the properties is inductive alone.
  Who waits for the send lock waits once, and the turn is in the queue exactly when it is at an
  event (`Queues`), so that an event on the wire is the one its sender is at. What the handler
  announces of the turn comes first of all it has to do and is true of the turn until it is
  sent (`Announces`): a turn that has been announced as ended does not run, a turn whose audio
  is announced as cut is cancelled or over. `assistant_playing` is only true between the first
  and the last chunk (`Plays`), hence a barge-in cancels only playback. From these, audio
  sounds exactly where the turn has started it and not ended it, or else the cut is still to be
  written (`Sounds`), through every interleaving at the lock: while the turn's `start` waits
  behind the handler, between a write and the return of its send, and after a cancelled turn
  has left the queue. `TypeCorrectness` bounds an utterance by the longer of its maximum and of
  what is kept from before the speech; `UtterancesFit` states the condition, which nothing in
  the settings asks for, under which the maximum is kept. `PlaybackEnds`, `InterruptsPlayback`,
  `OrderedAudio`, `TurnsFollow` and `AnsweredBeforeEnd` are read off. `SessionsUseLimiter`:
  every behaviour of the sessions is one of `RateLimiter`, whose limit therefore holds of them
  (`SessionsAreLimited`).
- `TelephonyProofs`. Two facts carry the call. Twilio asks again only after an answer, so one
  speech request is under way at a time (`OneSpeaker`), and what it loaded of the memory is
  what is stored; callbacks do not touch the memory. And columns of the row are set and never
  cleared, so a copy of the row, however old, is behind the row (`Copies`, `Behind`), and
  writing its differences removes nothing that is recorded, though it may replace a value, and
  reopens a finished call only if the callback written says so: that is `Recorded`, and with
  what each failure writes `RecordedTransfer`. `FinalCallEnds` is inductive with `Copies`: a
  final status is written together with the end, or the row has it. For the reprompts the count
  in memory is bounded by the caller's misses even when the memory expires (`Counted`), which
  gives `JustifiedEscalation` (the escalated call has no request left that could reset the
  count, `Escalated`), and equals them while it does not (`Exact`), which gives
  `BoundedReprompts`. For the audit a turn's number is above those of all turns answered
  (`Numbered`), and the request that answers has seen its row committed (`Audited`):
  `AuditedAnswers`.
- `KnowledgeIndexProofs`. One request writes in a process at a time. What it has made of a source
  so far is in the collection, alone as long as no other process has written the source since
  it was last deleted (`Pending`), and becomes the report when the index is rebuilt (`Reports`);
  a source that one process alone has written is there in one version (`Once`). From these
  follow all the properties of the run, and `OneWriterOneVersion`: no source has two versions
  where one process writes.

Only model-checked: the liveness properties `EveryRequestAnswered` and
`PlacesGivenBack` (the prover does not reason about fairness and ENABLED). Every invariant and
every action property of a run that is expected to pass is a theorem. The runs that show a
disagreement have a counterexample and nothing to prove. No module uses a RECURSIVE operator,
and no theorem rests on induction over data.

## Not modelled

The components marked `not_modelled` in `PROJECT.json`, which are stateless, external or text
processing (authentication, configuration, observability, extraction, language model, speech
providers, migrations, demo), or keep state nobody reads (the session records of `voice/` in
Redis). Dialogue and turns are marked `partly`: the dialogue's `legacy_mode`, which only tests
use, the history kept for the language model and the metadata of a snapshot are left out.
`InMemoryDistributedLock`, the in-memory limiter and the in-memory stores are the
single-process variants of what is modelled.

## Plan

Done, in this order: reservation transactions with their abstract book and proofs; lock;
dispatcher; dialogue; turns; voice sessions behind the rate limiter; telephony with the audit;
knowledge index; the proofs about turns, limiter and index; the proofs about voice sessions and
telephony.

1. `ToolDispatch` composed with `ReservationService`: a completed record is replayed for a day
   whatever the API did to the reservation since, the one hazard of the dispatcher without a
   property.
2. The in-memory stores and lock against the specifications of their Redis counterparts.
