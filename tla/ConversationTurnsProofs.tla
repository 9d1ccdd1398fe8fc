------------------------ MODULE ConversationTurnsProofs ------------------------
(***************************************************************************)
(* Theorems about ConversationTurns, for any workers, messages, schemas    *)
(* and bounds.  The argument: the lock lets one turn within its lease work *)
(* on a snapshot (RedisLockProofs), so that what is stored is what it      *)
(* loaded; a dialogue step completes no operation without a request to     *)
(* confirm it in the summary of its arguments, which the turn stores with  *)
(* it, and gives a new operation a new identifier, so that what is closed  *)
(* does not come back; and the dispatcher is honest (ToolDispatchProofs),  *)
(* so that done is committed.                                              *)
(***************************************************************************)
EXTENDS ConversationTurns, TLAPS

LP == INSTANCE RedisLockProofs
DP == INSTANCE ToolDispatchProofs
--------------------------------------------------------------------------------
(* The invariant *)

\* A pending operation, or none.
Proposal == Pending \cup {NoPending}

\* An operation that only waits for its confirmation.
Complete(p) == p \in Pending /\ p.missing = {}

\* The turn works on the snapshot it loaded.
Active(w) == pc[w] \in {"handle", "execute", "save"}

\* The next snapshot, with pending operation p.
Turned(s, p) == [turn |-> s.turn + 1, pending |-> p]

\* A turn that is past the lock is inside the guarded block.
AtLock ==
    \A w \in Worker : /\ pc[w] = "idle" <=> stage[w] = "outside"
                      /\ pc[w] = "lock" <=> stage[w] = "trying"

\* Types of where the turns are.
ControlType ==
    /\ pc \in [Worker -> Point]
    /\ reply \in [Worker -> Reply]
    /\ sent \in 0..MaxSent

\* The lock, and where the turns are.
LockInv == Lock!IInv /\ AtLock /\ ControlType

\* Types of the snapshots, the messages and the histories.
DataType ==
    /\ memory \in Snapshot
    /\ msg \in [Worker -> Messages \cup {Reset}]
    /\ snap \in [Worker -> Snapshot]
    /\ base \in [Worker -> Snapshot]
    /\ named \in Nat
    /\ closed \in SUBSET (1..named)
    /\ late \in BOOLEAN

\* The summary of an operation is that of its arguments.
Summarized(p) == p.summary = Summary(p.tool, p.args)

\* What the caller was asked, was to be asked when a turn was cut off, or is being asked.
Known == heard \cup unheard \cup Underway

\* A complete operation is known by the summary of its arguments.
Told(p) == Complete(p) => Summarized(p) /\ Asks(p) \in Known

\* Until it turns, a snapshot is what was loaded; what is executed was not refused.
Loaded ==
    \A w \in Worker :
        /\ Active(w) => msg[w] \in Message
        /\ pc[w] \in {"handle", "execute"} => snap[w] = base[w]
        /\ pc[w] = "execute" => msg[w].decision # "negative"

\* Identifiers are those given so far: the next one is new.
Numbered ==
    /\ memory.pending.id <= named
    /\ \A w \in Worker : snap[w].pending.id <= named /\ base[w].pending.id <= named

\* What was closed is neither stored nor in the hands of a turn within its lease.
Open ==
    late \/ /\ memory.pending.id \notin closed
            /\ \A w \in Worker \ overrun : Active(w) => snap[w].pending.id \notin closed

\* A turn that closes the operation it found stores another one, or none.
Replaced ==
    \A w \in Worker : pc[w] = "save" /\ Closes(w) =>
        base[w].pending.id = 0 \/ snap[w].pending.id # base[w].pending.id

\* The snapshots.
DataInv == DataType /\ Loaded /\ Numbered /\ TurnsAreSerial /\ Open /\ Replaced

\* What a turn is about to store is known, or its reply will make it so.
Settled ==
    \A w \in Worker :
        /\ pc[w] = "save" /\ Complete(snap[w].pending) =>
              /\ Summarized(snap[w].pending)
              /\ reply[w] = "confirm" \/ Asks(snap[w].pending) \in Known
        /\ pc[w] \in {"save", "leave"} /\ reply[w] = "confirm" => snap[w].pending \in Pending

\* No snapshot, stored or loaded, has a complete operation the caller was not to be asked
\* about, and what a turn executes is complete.
AskInv ==
    /\ heard \in SUBSET Question /\ unheard \in SUBSET Question
    /\ Told(memory.pending)
    /\ \A w \in Worker : /\ pc[w] \in {"handle", "execute"} => Told(snap[w].pending)
                         /\ pc[w] = "execute" => Complete(snap[w].pending)
    /\ Settled

\* What the dispatcher calls completed, or answers with success, has committed.
Honest == DP!Honest

\* A turn is in the dispatcher only while it executes, with the operation it loaded.
InCall ==
    \A w \in Worker :
        IF pc[w] = "execute" THEN op[w] \in {NoOperation, Key(base[w].pending)}
        ELSE step[w] = "idle" /\ op[w] = NoOperation /\ answer[w] = "none"

\* An operation of which the caller is told that it is done has committed.
Committed ==
    \A w \in Worker : pc[w] \in {"save", "leave"} /\ reply[w] = "done" =>
        Key(base[w].pending) \in Operation /\ made[Key(base[w].pending)] > 0

\* The dispatcher, and what the turns made of it.
CallInv == Dispatch!TypeOK /\ Honest /\ InCall /\ Committed

\* The inductive invariant.
IInv == LockInv /\ DataInv /\ AskInv /\ CallInv
--------------------------------------------------------------------------------
(* The dialogue *)

\* What Handle may make of pending operation p, message m and the new identifier id.
Sound(p, m, id, h) ==
    /\ h.does \in {"run", "answer", "ask", "confirm", "raise"}
    /\ h.pending \in Proposal
    /\ h.does = "run" => h.pending = p /\ Complete(p) /\ m.decision # "negative"
    /\ h.does = "confirm" => h.pending \in Pending
    /\ h.pending.id \in {0, p.id, id}
    /\ Complete(h.pending) =>
          \/ h.pending = p
          \/ h.does = "confirm" /\ Summarized(h.pending)
    /\ m.decision = "negative" => p.id = 0 \/ h.pending.id = 0

\* Only fields can be missing.
LEMMA MissingType == ASSUME NEW t \in Tool, NEW args PROVE Missing(t, args) \in SUBSET Field
  BY DEF Missing, Required, Tool, Field

\* A summary is one of fields.
LEMMA SummaryType == ASSUME NEW t, NEW args \in Fields PROVE Summary(t, args) \in Fields
  BY DEF Summary, Fields

\* Arguments updated with entities are arguments.
LEMMA UpdateType ==
    ASSUME NEW args \in Fields, NEW e \in Fields
    PROVE  Update(args, e) \in Fields
  BY DEF Update, Fields

\* A follow-up leaves arguments.
LEMMA FollowUpType ==
    ASSUME NEW p \in Pending, NEW m \in Message
    PROVE  FollowUp(p, m) \in Fields
  <1> DEFINE f == Asked(p.missing)
  <1>1. p.args \in Fields /\ m.text \in Fields /\ m.entities \in Fields
      BY DEF Pending, Message
  <1>2. f \in Field
      BY DEF Asked, Field
  <1>3. [p.args EXCEPT ![f] = m.text[f]] \in Fields
    <2> HIDE DEF f
    <2> QED
      BY <1>1, <1>2 DEF Fields
  <1>4. Update(p.args, m.entities) \in Fields
      BY <1>1, UpdateType
  <1> QED
      BY <1>1, <1>3, <1>4 DEF FollowUp

\* Corrections and follow-ups keep the identifier; what they complete is summarized as it is.
LEMMA ChangedType ==
    ASSUME NEW p \in Pending, NEW args \in Fields
    PROVE  /\ Corrected(p, args) \in Pending
           /\ Corrected(p, args).id = p.id
           /\ Summarized(Corrected(p, args))
           /\ Followed(p, args) \in Pending
           /\ Followed(p, args).id = p.id
           /\ Followed(p, args).missing = {} => Summarized(Followed(p, args))
  <1>1. Missing(p.tool, args) \in SUBSET Field
      BY MissingType DEF Pending
  <1>2. Summary(p.tool, args) \in Fields
      BY SummaryType
  <1> QED
      BY <1>1, <1>2 DEF Corrected, Followed, Summarized, Pending

\* A new operation that is complete is summarized as it is.
LEMMA ProposedType ==
    ASSUME NEW id \in Nat, NEW t \in Tool, NEW args \in Fields
    PROVE  /\ Proposed(id, t, args) \in Pending
           /\ Proposed(id, t, args).id = id
           /\ Proposed(id, t, args).missing = {} => Summarized(Proposed(id, t, args))
  <1>1. Missing(t, args) \in SUBSET Field
      BY MissingType
  <1>2. NoFields \in Fields /\ Summary(t, args) \in Fields
      BY SummaryType DEF NoFields, Fields
  <1> QED
      BY <1>1, <1>2 DEF Proposed, Summarized, Pending

\* The fields of an outcome.
LEMMA OutcomeFields ==
    ASSUME NEW does, NEW q
    PROVE  Outcome(does, q).does = does /\ Outcome(does, q).pending = q
  BY DEF Outcome

\* Handle runs only what is complete and not refused, completes nothing without asking for a
\* confirmation of it, and keeps nothing that is refused.
LEMMA HandleIsSound ==
    ASSUME NEW p \in Proposal, NEW m \in Message, NEW id \in Nat
    PROVE  Sound(p, m, id, Handle(p, m, id))
  <1> SUFFICES ASSUME NEW h, h = Handle(p, m, id) PROVE Sound(p, m, id, h)
      OBVIOUS
  <1> DEFINE awaiting == p # NoPending
             args == Update(p.args, m.entities)
             q == Followed(p, FollowUp(p, m))
             n == Proposed(id, m.intent, m.entities)
  <1>0. /\ p # NoPending => p \in Pending
        /\ NoPending \in Proposal /\ NoPending.id = 0
        /\ m.entities \in Fields /\ m.decision \in Decision
        /\ p \in Pending => p.tool \in Tool /\ p.args \in Fields
      BY DEF Proposal, NoPending, Message, Pending
  <1>1. CASE awaiting /\ m.decision = "affirmative" /\ p.missing = {}
    <2>1. h = Outcome("run", p)
        BY <1>1 DEF Handle
    <2>2. h.does = "run" /\ h.pending = p
        BY <2>1, OutcomeFields
    <2> QED
        BY <1>0, <1>1, <2>2 DEF Sound, Complete
  <1>2. CASE awaiting /\ m.decision = "negative"
    <2>1. h = Outcome("answer", NoPending)
        BY <1>2 DEF Handle, Rejected
    <2>2. NoPending \notin Pending
        BY DEF NoPending, Pending
    <2> QED
        BY <1>0, <1>2, <2>1, <2>2, OutcomeFields DEF Sound, Complete
  <1>3. CASE awaiting /\ m.decision = "correction"
    <2>1. h = IF Summarizes(p.tool, args) THEN Outcome("confirm", Corrected(p, args))
                                          ELSE Outcome("raise", p)
        BY <1>3 DEF Handle
    <2>2. args \in Fields
        BY <1>0, <1>3, UpdateType
    <2> HIDE DEF args
    <2>3. CASE h = Outcome("confirm", Corrected(p, args))
      <3>1. h.does = "confirm" /\ h.pending = Corrected(p, args)
          BY <2>3, OutcomeFields
      <3>2. h.pending \in Pending /\ h.pending.id = p.id /\ Summarized(h.pending)
          BY <1>0, <1>3, <2>2, <3>1, ChangedType
      <3> QED
          BY <1>0, <1>3, <3>1, <3>2 DEF Sound, Complete, Proposal
    <2>4. CASE h = Outcome("raise", p)
      <3>1. h.does = "raise" /\ h.pending = p
          BY <2>4, OutcomeFields
      <3> QED
          BY <1>0, <1>3, <3>1 DEF Sound, Complete, Proposal
    <2> QED
        BY <2>1, <2>3, <2>4
  <1>4. CASE awaiting /\ m.decision \notin {"negative", "correction"} /\ p.missing # {}
    <2>1. h = Outcome(Prompt(q), q)
        BY <1>4 DEF Handle
    <2>2. q \in Pending /\ q.id = p.id /\ (q.missing = {} => Summarized(q))
        BY <1>0, <1>4, FollowUpType, ChangedType
    <2> HIDE DEF q
    <2> QED
        BY <1>0, <1>4, <2>1, <2>2, OutcomeFields DEF Sound, Complete, Proposal, Prompt
  <1>5. CASE /\ ~(awaiting /\ m.decision = "affirmative" /\ p.missing = {})
             /\ ~(awaiting /\ m.decision = "negative")
             /\ ~(awaiting /\ m.decision = "correction")
             /\ ~(awaiting /\ m.decision \notin {"negative", "correction"} /\ p.missing # {})
    <2>1. h = IF m.intent \in Tool THEN Outcome(Prompt(n), n) ELSE ReadOnly(p)
        BY <1>5 DEF Handle
    <2>2. m.intent \in Tool =>
             n \in Pending /\ n.id = id /\ (n.missing = {} => Summarized(n))
        BY <1>0, ProposedType
    <2>3. m.decision = "negative" => p.id = 0
        BY <1>0, <1>5
    <2>4. m.intent \notin Tool => h = Outcome("answer", p)
        BY <2>1 DEF ReadOnly
    <2>5. m.intent \in Tool => h = Outcome(Prompt(n), n)
        BY <2>1
    <2> HIDE DEF n
    <2>6. CASE m.intent \in Tool
        BY <1>0, <2>2, <2>3, <2>5, <2>6, OutcomeFields DEF Sound, Complete, Proposal, Prompt
    <2>7. CASE m.intent \notin Tool
      <3>1. h.does = "answer" /\ h.pending = p
          BY <2>4, <2>7, OutcomeFields
      <3> QED
          BY <1>0, <2>3, <3>1 DEF Sound, Complete, Proposal
    <2> QED
        BY <2>6, <2>7
  <1> QED
      BY <1>1, <1>2, <1>3, <1>4, <1>5

\* A new conversation has nothing pending.
LEMMA FreshType == Fresh \in Snapshot /\ Fresh.pending = NoPending /\ NoPending.id = 0
                    /\ NoPending \notin Pending
  BY DEF Fresh, Snapshot, NoPending, Pending

\* The fields of a snapshot.
LEMMA IdType ==
    ASSUME NEW s \in Snapshot
    PROVE  s.pending.id \in Nat /\ s.pending \in Proposal /\ s.turn \in Nat
  BY FreshType DEF Snapshot, Pending, Proposal

\* A turned snapshot is a snapshot.
LEMMA TurnedType ==
    ASSUME NEW s \in Snapshot, NEW p \in Proposal
    PROVE  Turned(s, p) \in Snapshot /\ Turned(s, p).pending = p
  <1>1. s.turn \in Nat
      BY DEF Snapshot
  <1> QED
      BY <1>1 DEF Turned, Snapshot, Proposal
--------------------------------------------------------------------------------
(* The lock *)

\* A step of one turn.
Moves(w) == Turn(w) \/ Break(w) \/ Crash(w)

\* The lock keeps its own invariant, by RedisLockProofs.
LEMMA LockStep == Lock!IInv /\ (Lock!Next \/ UNCHANGED lockVars) => Lock!IInv'
  <1>1. LP!IInv /\ [LP!Next]_(LP!vars) => LP!IInv'
      BY TurnAssumption, LP!NextInv DEF LP!NextInv
  <1> QED
      BY <1>1 DEF lockVars, LP!vars, LP!IInv, LP!TypeOK, LP!LeaseIsKey, LP!Stage,
         LP!Next, LP!Try, LP!Enter, LP!EnterUnheard, LP!GiveUp, LP!Leave, LP!Released,
         LP!Vanish, LP!Expire,
         Lock!IInv, Lock!TypeOK, Lock!LeaseIsKey, Lock!Stage,
         Lock!Next, Lock!Try, Lock!Enter, Lock!EnterUnheard, Lock!GiveUp, Lock!Leave,
         Lock!Released, Lock!Vanish, Lock!Expire

\* Every step keeps the turns somewhere.
LEMMA ControlKept == ControlType /\ Next => ControlType'
  <1> SUFFICES ASSUME ControlType, Next PROVE ControlType'
      OBVIOUS
  <1>1. ASSUME NEW w \in Worker, Receive(w) PROVE ControlType'
      BY <1>1, TurnAssumption DEF ControlType, Point, Receive, Goto
  <1>2. ASSUME NEW w \in Worker,
               Enter(w) \/ NotEntered(w) \/ Load(w) \/ Delete(w) \/ Stumble(w)
        PROVE  ControlType'
      BY <1>2 DEF ControlType, Point, Reply, Enter, NotEntered, Load, Delete, Stumble, Goto,
         Says, Gone, counts
  <1>3. ASSUME NEW w \in Worker, Answer(w) PROVE ControlType'
      BY <1>3 DEF ControlType, Point, Answer, Goto, Says
  <1>4. ASSUME NEW w \in Worker, Run(w) \/ Execute(w) \/ Settle(w) \/ Save(w) \/ Leave(w)
        PROVE  ControlType'
      BY <1>4 DEF ControlType, Point, Reply, Run, Execute, Settle, Save, Leave, Goto, Says,
         Gone, counts, turnVars
  <1>5. ASSUME NEW w \in Worker, Break(w) \/ Crash(w) PROVE ControlType'
      BY <1>5 DEF ControlType, Point, Reply, Break, Crash, Goto, Says, Gone, counts
  <1>6. CASE LeaseExpires \/ MemoryExpires \/ RecordLapses
      BY <1>6 DEF ControlType, LeaseExpires, MemoryExpires, RecordLapses, counts, turnVars
  <1> QED
      BY <1>1, <1>2, <1>3, <1>4, <1>5, <1>6 DEF Next, Turn

\* Every step is one of the lock or none, and goes with where the turn is.
LEMMA LockKept == LockInv /\ Next => LockInv'
  <1> SUFFICES ASSUME LockInv, Next PROVE LockInv'
      OBVIOUS
  <1> USE DEF LockInv
  <1>0. ControlType'
      BY ControlKept
  <1> DEFINE Goal == (Lock!Next \/ UNCHANGED lockVars) /\ AtLock'
  <1>1. ASSUME NEW w \in Worker, Receive(w) PROVE Goal
    <2>1. Lock!Try(w) /\ pc' = [pc EXCEPT ![w] = "lock"]
        BY <1>1 DEF Receive, Goto
    <2> QED
        BY <2>1 DEF Lock!Next, AtLock, ControlType, Lock!Try, Lock!IInv, Lock!TypeOK
  <1>2. ASSUME NEW w \in Worker, Enter(w) PROVE Goal
    <2>1. Lock!Enter(w) /\ pc' = [pc EXCEPT ![w] = "load"]
        BY <1>2 DEF Enter, Goto
    <2> QED
        BY <2>1 DEF Lock!Next, AtLock, ControlType, Lock!Enter, Lock!IInv, Lock!TypeOK
  <1>3. ASSUME NEW w \in Worker, NotEntered(w) \/ Leave(w) \/ Crash(w) PROVE Goal
    <2>1. /\ Lock!GiveUp(w) \/ Lock!EnterUnheard(w) \/ Lock!Leave(w) \/ Lock!Vanish(w)
          /\ pc' = [pc EXCEPT ![w] = "idle"]
        BY <1>3 DEF NotEntered, Leave, Crash, Gone, Goto
    <2> QED
        BY <2>1 DEF Lock!Next, AtLock, ControlType, Lock!GiveUp, Lock!EnterUnheard, Lock!Leave,
           Lock!Vanish, Lock!IInv, Lock!TypeOK
  <1>4. ASSUME NEW w \in Worker,
               \/ Load(w) \/ Delete(w) \/ Answer(w) \/ Stumble(w) \/ Run(w)
               \/ Execute(w) \/ Settle(w) \/ Save(w) \/ Break(w)
        PROVE  Goal
    <2>1. UNCHANGED lockVars
        BY <1>4 DEF Load, Delete, Answer, Stumble, Run, Execute, Settle, Save, Break
    <2>2. /\ pc[w] \notin {"idle", "lock"}
          /\ \E p \in Point \ {"idle", "lock"} : pc' = [pc EXCEPT ![w] = p]
        BY <1>4 DEF Load, Delete, Answer, Stumble, Run, Execute, Settle, Save, Break, Goto,
           Point, turnVars, ControlType
    <2> QED
        BY <2>1, <2>2 DEF AtLock, ControlType, lockVars
  <1>5. ASSUME LeaseExpires PROVE Goal
    <2>1. Lock!Expire /\ pc' = pc
        BY <1>5 DEF LeaseExpires, turnVars
    <2>2. stage' = stage
        BY <2>1 DEF Lock!Expire
    <2>3. AtLock'
        BY <2>1, <2>2 DEF AtLock
    <2> QED
        BY <2>1, <2>3 DEF Lock!Next
  <1>6. ASSUME MemoryExpires \/ RecordLapses PROVE Goal
    <2>1. UNCHANGED lockVars /\ pc' = pc /\ stage' = stage
        BY <1>6 DEF MemoryExpires, RecordLapses, turnVars, lockVars
    <2>2. AtLock'
        BY <2>1 DEF AtLock
    <2> QED
        BY <2>1, <2>2
  <1> HIDE DEF Goal
  <1>7. Goal
      BY <1>1, <1>2, <1>3, <1>4, <1>5, <1>6 DEF Next, Turn
  <1> QED
      BY <1>0, <1>7, LockStep DEF Goal

\* Turns within their leases are not both past the lock.
LEMMA LockFrame ==
    ASSUME LockInv
    PROVE  /\ \A v, w \in Worker :
                 stage[v] = "inside" /\ stage[w] = "inside" =>
                     v = w \/ v \in overrun \/ w \in overrun
           /\ \A w \in Worker : pc[w] \notin {"idle", "lock"} => stage[w] = "inside"
  <1>1. \A w \in Worker : pc[w] \notin {"idle", "lock"} => stage[w] = "inside"
      BY DEF LockInv, AtLock, Lock!IInv, Lock!TypeOK, Lock!Stage
  <1> QED
      BY <1>1 DEF LockInv, Lock!IInv, Lock!LeaseIsKey

\* A turn does not change whether the lease of another has run out.
LEMMA OverrunFrame ==
    ASSUME LockInv, NEW w \in Worker, Moves(w), NEW v \in Worker, v # w
    PROVE  v \in overrun <=> v \in overrun'
  BY DEF Moves, Turn, Receive, Enter, NotEntered, Load, Delete, Answer, Stumble, Run, Execute,
     Settle, Save, Leave, Break, Crash, lockVars,
     Lock!Try, Lock!Enter, Lock!GiveUp, Lock!EnterUnheard, Lock!Leave, Lock!Vanish
--------------------------------------------------------------------------------
(* The snapshots *)

\* Two turns within their leases do not both work on a snapshot.
Alone == \A v, w \in Worker \ overrun : Active(v) /\ Active(w) => v = w

\* Nothing is stored, no snapshot turned and no turn begun; turns may go, and an operation
\* that was not refused may begin to execute.
Quiet ==
    /\ UNCHANGED <<memory, named, closed, late>>
    /\ msg' \in [Worker -> Messages \cup {Reset}]
    /\ snap' \in [Worker -> Snapshot]
    /\ base' \in [Worker -> Snapshot]
    /\ \A v \in Worker :
          /\ \/ snap'[v] = snap[v] /\ base'[v] = base[v]
             \/ snap'[v] = Fresh /\ base'[v] = Fresh /\ ~Active(v)'
          /\ Active(v)' =>
                /\ \/ pc'[v] = pc[v]
                   \/ pc[v] = "handle" /\ pc'[v] = "execute" /\ msg[v].decision # "negative"
                /\ msg'[v] = msg[v]
                /\ reply'[v] = reply[v]
                /\ v \in overrun => v \in overrun'

\* w stores its snapshot and is past its work.
StoreBy(w) ==
    /\ pc[w] = "save"
    /\ Store(w)
    /\ UNCHANGED named
    /\ msg' \in [Worker -> Messages \cup {Reset}]
    /\ snap' \in [Worker -> Snapshot]
    /\ base' \in [Worker -> Snapshot]
    /\ ~Active(w)'
    /\ \/ snap'[w] = snap[w] /\ base'[w] = base[w]
       \/ snap'[w] = Fresh /\ base'[w] = Fresh
    /\ \A v \in Worker \ {w} :
          /\ snap'[v] = snap[v] /\ base'[v] = base[v]
          /\ pc'[v] = pc[v] /\ msg'[v] = msg[v] /\ reply'[v] = reply[v]
          /\ v \in overrun => v \in overrun'

\* w turns its snapshot to pending operation p and goes on to save it.
Concludes(w, p, does) ==
    /\ pc[w] \in {"handle", "execute"}
    /\ snap' = [snap EXCEPT ![w] = Turned(snap[w], p)]
    /\ pc' = [pc EXCEPT ![w] = "save"]
    /\ reply' = [reply EXCEPT ![w] = does]
    /\ UNCHANGED <<overrun, memory, base, msg, closed, late>>

\* Quiet steps keep the snapshots as they should be.
LEMMA QuietKeeps == DataInv /\ Quiet => DataInv'
  <1> SUFFICES ASSUME DataInv, Quiet PROVE DataInv'
      OBVIOUS
  <1> USE FreshType DEF DataInv
  <1>1. DataType'
      BY DEF DataType, Quiet
  <1>2. Loaded'
      BY DEF Loaded, Quiet, Active
  <1>4. Numbered'
      BY DEF Numbered, Quiet, DataType
  <1>5. TurnsAreSerial'
      BY DEF TurnsAreSerial, Quiet, Active
  <1>6. Open'
      BY DEF Open, Quiet, Active
  <1>7. Replaced'
      BY DEF Replaced, Closes, Quiet, Active
  <1> QED
      BY <1>1, <1>2, <1>4, <1>5, <1>6, <1>7

\* Storing a snapshot does: if the lease of the turn has not run out, no other turn within its
\* lease works on one; if it has, the proviso of TurnsAreSerial and ClosedStaysClosed is gone.
LEMMA StoreKeeps == ASSUME NEW w \in Worker, DataInv, Alone, StoreBy(w) PROVE DataInv'
  <1> USE FreshType DEF DataInv
  <1>0. /\ snap[w] \in Snapshot /\ base[w] \in Snapshot
        /\ base[w].pending.id \in Nat /\ snap[w].pending.id \in Nat
        /\ Active(w)
        /\ base[w].pending.id <= named
      BY IdType DEF DataType, StoreBy, Active, Numbered
  <1>1. DataType'
    <2>1. closed' \in SUBSET (1..named')
      BY <1>0 DEF DataType, StoreBy, Store
    <2>2. late' \in BOOLEAN
      BY DEF DataType, StoreBy, Store, Wrote
    <2> QED
      BY <1>0, <2>1, <2>2 DEF DataType, StoreBy, Store
  <1>2. Loaded'
      BY DEF Loaded, StoreBy, Active
  <1>4. Numbered'
      BY DEF Numbered, StoreBy, Store, DataType
  <1>5. late' \/ (~late /\ w \notin overrun /\ \A v \in Worker \ overrun : v # w => ~Active(v)')
      BY <1>0 DEF StoreBy, Store, Wrote, Alone, Active
  <1>6. TurnsAreSerial'
      BY <1>5 DEF TurnsAreSerial, StoreBy, Active
  <1>7. snap[w].pending.id \notin closed' \/ late'
    <2>1. CASE ~late /\ w \notin overrun
      <3>1. snap[w].pending.id \notin closed
          BY <1>0, <2>1 DEF Open
      <3> QED
          BY <2>1, <3>1 DEF StoreBy, Store, Replaced
    <2> QED
      BY <1>5, <2>1
  <1>8. Open'
      BY <1>5, <1>7 DEF Open, StoreBy, Store, Active
  <1>9. Replaced'
      BY DEF Replaced, Closes, StoreBy, Active
  <1> QED
      BY <1>1, <1>2, <1>4, <1>6, <1>8, <1>9

\* Loading the snapshot does.
LEMMA LoadKeeps == ASSUME NEW w \in Worker, DataInv, ControlType, Load(w) PROVE DataInv'
  <1> USE FreshType DEF DataInv
  <1>0. /\ pc' = [pc EXCEPT ![w] = "handle"] /\ snap' = [snap EXCEPT ![w] = memory]
        /\ base' = [base EXCEPT ![w] = memory] /\ msg[w] \in Message
        /\ UNCHANGED <<overrun, memory, msg, reply, named, closed, late>>
      BY TurnAssumption DEF Load, Goto, lockVars, counts, DataType
  <1>1. DataType'
      BY <1>0 DEF DataType
  <1>2. Loaded'
      BY <1>0 DEF Loaded, Active, DataType, ControlType
  <1>4. Numbered'
      BY <1>0 DEF Numbered, DataType
  <1>5. TurnsAreSerial'
      BY <1>0 DEF TurnsAreSerial, DataType, ControlType
  <1>6. Open'
      BY <1>0 DEF Open, Active, DataType, ControlType
  <1>7. Replaced'
      BY <1>0 DEF Replaced, Closes, DataType, ControlType
  <1> QED
      BY <1>1, <1>2, <1>4, <1>5, <1>6, <1>7

\* Deleting the snapshot does, for the same reason as storing it.
LEMMA DeleteKeeps ==
    ASSUME NEW w \in Worker, DataInv, ControlType, Delete(w),
           \A v \in Worker \ overrun : Active(v) => w \in overrun
    PROVE  DataInv'
  <1> USE FreshType DEF DataInv
  <1>0. /\ pc' = [pc EXCEPT ![w] = "leave"] /\ memory' = Fresh
        /\ reply' = [reply EXCEPT ![w] = "answer"]
        /\ UNCHANGED <<overrun, snap, base, msg, named, closed>>
        /\ late' = (late \/ w \in overrun)
      BY DEF Delete, Goto, Says, Wrote, lockVars, counts
  <1>1. DataType'
      BY <1>0 DEF DataType
  <1>2. Loaded'
      BY <1>0 DEF Loaded, Active, DataType, ControlType
  <1>4. Numbered'
      BY <1>0 DEF Numbered, DataType
  <1>5. TurnsAreSerial'
      BY <1>0 DEF TurnsAreSerial, DataType, ControlType, Active
  <1>6. Open'
      BY <1>0 DEF Open, Active, DataType, ControlType
  <1>7. Replaced'
      BY <1>0 DEF Replaced, Closes, DataType, ControlType
  <1> QED
      BY <1>1, <1>2, <1>4, <1>5, <1>6, <1>7

\* The expiry of the snapshot does: no turn works on it.
LEMMA ExpireKeeps == ASSUME DataInv, ControlType, MemoryExpires PROVE DataInv'
  <1> USE FreshType DEF DataInv
  <1>0. /\ memory' = Fresh /\ \A w \in Worker : ~Active(w)
        /\ UNCHANGED <<overrun, pc, reply, snap, base, msg, named, closed, late>>
      BY DEF MemoryExpires, turnVars, historyVars, lockVars, counts, Active
  <1>1. DataType'
      BY <1>0 DEF DataType
  <1>2. Loaded'
      BY <1>0 DEF Loaded, Active
  <1>4. Numbered'
      BY <1>0 DEF Numbered, DataType
  <1>5. TurnsAreSerial'
      BY <1>0 DEF TurnsAreSerial, Active
  <1>6. Open'
      BY <1>0 DEF Open, Active, DataType
  <1>7. Replaced'
      BY <1>0 DEF Replaced, Closes, Active
  <1> QED
      BY <1>1, <1>2, <1>4, <1>5, <1>6, <1>7

\* Turning a snapshot does, to nothing, to what was pending, or to an operation with a new
\* identifier, if the caller was asked about it once complete.
LEMMA ConcludesKeeps ==
    ASSUME NEW w \in Worker, NEW p \in Proposal, NEW does \in Reply,
           DataInv, ControlType, Concludes(w, p, does),
           named' \in Nat, named' >= named, p.id <= named',
           p.id \in {0, snap[w].pending.id, named + 1},
           msg[w].decision = "negative" \/ does = "done" => p.id = 0 \/ snap[w].pending.id = 0
    PROVE  DataInv'
  <1> USE FreshType DEF DataInv
  <1>0. /\ snap[w] \in Snapshot /\ base[w] \in Snapshot /\ snap[w] = base[w]
        /\ base[w].pending.id \in Nat /\ snap[w].pending.id \in Nat /\ p.id \in Nat
        /\ Active(w)
        /\ base[w].pending.id <= named
        /\ Turned(snap[w], p) \in Snapshot /\ Turned(snap[w], p).pending = p
      BY IdType, TurnedType DEF DataType, Concludes, Active, Numbered, Loaded
  <1>a. /\ snap'[w] = Turned(snap[w], p) /\ pc'[w] = "save" /\ reply'[w] = does
        /\ \A v \in Worker \ {w} : snap'[v] = snap[v] /\ pc'[v] = pc[v] /\ reply'[v] = reply[v]
      BY DEF Concludes, DataType, ControlType
  <1>1. DataType'
      BY <1>0 DEF DataType, Concludes
  <1>2. Loaded'
      BY <1>0, <1>a DEF Loaded, Active, Concludes
  <1>4. Numbered'
    <2>1. \A v \in Worker : base[v] \in Snapshot /\ snap[v] \in Snapshot
        BY DEF DataType
    <2>2. \A v \in Worker : base[v].pending.id \in Nat /\ snap[v].pending.id \in Nat
        BY <2>1, IdType
    <2>3. memory.pending.id \in Nat
        BY IdType DEF DataType
    <2> QED
      BY <1>0, <1>a, <2>2, <2>3 DEF Numbered, DataType, Concludes
  <1>5. TurnsAreSerial'
      BY <1>0, <1>a DEF TurnsAreSerial, Concludes, Active
  <1>6. Open'
    <2>1. ~late /\ w \notin overrun => snap[w].pending.id \notin closed
        BY <1>0 DEF Open
    <2>2. 0 \notin closed /\ named + 1 \notin closed
        BY DEF DataType
    <2>3. ~late /\ w \notin overrun => p.id \notin closed
        BY <2>1, <2>2
    <2>4. snap'[w].pending.id = p.id
        BY <1>0, <1>a
    <2> QED
      BY <1>0, <1>a, <2>3, <2>4 DEF Open, Active, Concludes
  <1>7. Replaced'
    <2>1. base' = base /\ msg' = msg /\ snap'[w].pending = p
        BY <1>0, <1>a DEF Concludes
    <2>2. p.id # base[w].pending.id \/ msg[w].decision = "negative" \/ does = "done" =>
              base[w].pending.id = 0 \/ p.id # base[w].pending.id
        BY <1>0
    <2> QED
      BY <1>a, <2>1, <2>2 DEF Replaced, Closes
  <1> QED
      BY <1>1, <1>2, <1>4, <1>5, <1>6, <1>7

\* What a turn makes of the message is sound.
LEMMA HandledIsSound ==
    ASSUME DataInv, NEW w \in Worker, Active(w)
    PROVE  /\ Sound(snap[w].pending, msg[w], Identifier, Handled(w))
           /\ snap[w].pending \in Proposal
           /\ snap[w].pending.id \in Nat /\ snap[w].pending.id <= named
           /\ named \in Nat /\ Identifier = named + 1
  <1>1. snap[w] \in Snapshot /\ msg[w] \in Message /\ named \in Nat /\ Identifier = named + 1
      BY DEF DataInv, DataType, Loaded, Identifier
  <1>2. snap[w].pending \in Proposal /\ snap[w].pending.id \in Nat /\ snap[w].pending.id <= named
      BY <1>1, IdType DEF DataInv, Numbered
  <1> QED
      BY <1>1, <1>2, HandleIsSound DEF Handled

\* Most steps of a turn are quiet.
LEMMA QuietMoves ==
    ASSUME DataInv, LockInv, NEW w \in Worker,
           \/ Receive(w) \/ Enter(w) \/ NotEntered(w) \/ Stumble(w)
           \/ Run(w) \/ Execute(w) \/ Leave(w)
           \/ (Break(w) \/ Crash(w)) /\ memory' = memory /\ closed' = closed /\ late' = late
    PROVE  Quiet
  <1>0. Moves(w)
      BY DEF Moves, Turn
  <1>1. \A v \in Worker \ {w} : v \in overrun => v \in overrun'
      BY <1>0, OverrunFrame
  <1>2. CASE Receive(w)
      BY <1>1, <1>2 DEF Receive, Goto, Quiet, Active, DataInv, DataType, LockInv, ControlType,
         historyVars, lockVars, Lock!Try
  <1>3. CASE Enter(w) \/ Stumble(w)
      BY <1>1, <1>3 DEF Enter, Stumble, Goto, Says, Quiet, Active, DataInv, DataType, LockInv,
         ControlType, historyVars, counts, lockVars, Lock!Enter
  <1>4. CASE NotEntered(w) \/ Leave(w)
      BY <1>1, <1>4, FreshType DEF NotEntered, Leave, Gone, Goto, Says, Quiet, Active, DataInv,
         DataType, LockInv, ControlType, historyVars, counts, lockVars
  <1>5. CASE Run(w)
    <2>1. msg[w].decision # "negative"
        BY <1>5, HandledIsSound DEF Run, Sound, Active
    <2> QED
      BY <1>1, <1>5, <2>1 DEF Run, Goto, Quiet, Active, DataInv, DataType, LockInv, ControlType,
         historyVars, counts, lockVars
  <1>6. CASE Execute(w)
      BY <1>1, <1>6 DEF Execute, Quiet, Active, DataInv, DataType, LockInv, ControlType,
         historyVars, counts, turnVars, lockVars
  <1>7. CASE (Break(w) \/ Crash(w)) /\ memory' = memory /\ closed' = closed /\ late' = late
      BY <1>1, <1>7, FreshType DEF Break, Crash, Gone, Goto, Says, Quiet, Active, DataInv,
         DataType, LockInv, ControlType, counts, lockVars
  <1> QED
      BY <1>2, <1>3, <1>4, <1>5, <1>6, <1>7

\* A turn that saves, or is cut off when it has saved, stores its snapshot.
LEMMA StoreMoves ==
    ASSUME DataInv, LockInv, NEW w \in Worker,
           Save(w) \/ ((Break(w) \/ Crash(w)) /\ pc[w] = "save" /\ Store(w))
    PROVE  StoreBy(w)
  <1>0. Moves(w)
      BY DEF Moves, Turn
  <1>1. \A v \in Worker \ {w} : v \in overrun => v \in overrun'
      BY <1>0, OverrunFrame
  <1>2. CASE Save(w)
      BY <1>1, <1>2 DEF Save, Goto, StoreBy, Active, DataInv, DataType, LockInv, ControlType,
         counts
  <1>3. CASE Break(w) /\ pc[w] = "save" /\ Store(w)
      BY <1>1, <1>3 DEF Break, Goto, Says, StoreBy, Active, DataInv, DataType, LockInv,
         ControlType, counts
  <1>4. CASE Crash(w) /\ pc[w] = "save" /\ Store(w)
      BY <1>1, <1>4, FreshType DEF Crash, Gone, Goto, Says, StoreBy, Active, DataInv, DataType,
         LockInv, ControlType, counts
  <1> QED
      BY <1>2, <1>3, <1>4

\* A turn that is cut off has saved or not.
LEMMA CutOffStores ==
    ASSUME NEW w \in Worker, CutOff(w)
    PROVE  (pc[w] = "save" /\ Store(w)) \/ (memory' = memory /\ closed' = closed /\ late' = late)
  BY DEF CutOff

\* An answer without the dispatcher keeps the snapshots as they should be.
LEMMA AnswerKeeps == ASSUME DataInv, LockInv, NEW w \in Worker, Answer(w) PROVE DataInv'
  <1> DEFINE p == snap[w].pending
  <1> SUFFICES ASSUME NEW h, h = Handled(w) PROVE DataInv'
      OBVIOUS
  <1>1. /\ Active(w) /\ pc[w] = "handle" /\ h.does \in Reply
        /\ snap' = [snap EXCEPT ![w] = Turned(snap[w], h.pending)]
        /\ pc' = [pc EXCEPT ![w] = "save"]
        /\ reply' = [reply EXCEPT ![w] = h.does]
        /\ UNCHANGED <<overrun, memory, base, msg, closed, late>>
        /\ named' = IF h.pending.id = Identifier THEN Identifier ELSE named
      BY DEF Answer, Goto, Says, lockVars, historyVars, Active, Turned
  <1>2. /\ Sound(p, msg[w], Identifier, h) /\ p \in Proposal
        /\ p.id \in Nat /\ p.id <= named /\ named \in Nat /\ Identifier = named + 1
      BY <1>1, HandledIsSound
  <1> HIDE DEF p
  <1>3. Concludes(w, h.pending, h.does)
      BY <1>1 DEF Concludes
  <1>4. /\ h.pending \in Proposal /\ h.pending.id \in {0, p.id, named + 1}
        /\ h.does # "done"
        /\ msg[w].decision = "negative" => h.pending.id = 0 \/ p.id = 0
      BY <1>2 DEF Sound
  <1>5. named' \in Nat /\ named' >= named /\ h.pending.id <= named'
      BY <1>1, <1>2, <1>4
  <1> QED
      BY <1>1, <1>3, <1>4, <1>5, ConcludesKeeps DEF LockInv, p

\* An answer of the dispatcher does.
LEMMA SettleKeeps == ASSUME DataInv, LockInv, NEW w \in Worker, Settle(w) PROVE DataInv'
  <1> SUFFICES ASSUME NEW p, p = IF Succeeded(answer[w]) THEN NoPending ELSE snap[w].pending,
                      NEW does, does = IF Succeeded(answer[w]) THEN "done" ELSE "retry"
               PROVE  DataInv'
      OBVIOUS
  <1>1. Concludes(w, p, does) /\ named' = named /\ pc[w] = "execute"
      BY DEF Settle, Goto, Says, lockVars, counts, historyVars, Concludes, Turned
  <1>2. /\ does \in Reply /\ msg[w].decision # "negative"
        /\ does = "done" => p = NoPending
        /\ p = NoPending \/ p = snap[w].pending
      BY <1>1 DEF Reply, DataInv, Loaded
  <1>3. /\ snap[w].pending \in Proposal
        /\ snap[w].pending.id \in Nat /\ snap[w].pending.id <= named
        /\ named \in Nat
      BY IdType DEF DataInv, DataType, Numbered
  <1>4. p \in Proposal /\ p.id <= named /\ p.id \in {0, snap[w].pending.id}
      BY <1>2, <1>3, FreshType DEF Proposal
  <1>5. msg[w].decision = "negative" \/ does = "done" => p.id = 0 \/ snap[w].pending.id = 0
      BY <1>2, FreshType
  <1> QED
      BY <1>1, <1>2, <1>3, <1>4, <1>5, ConcludesKeeps DEF LockInv

\* Every step does.
LEMMA DataKept == DataInv /\ LockInv /\ Next => DataInv'
  <1> SUFFICES ASSUME DataInv, LockInv, Next PROVE DataInv'
      OBVIOUS
  <1>0. ControlType /\ Alone
      BY LockFrame DEF LockInv, Alone, Active
  <1>1. ASSUME NEW w \in Worker,
               \/ Receive(w) \/ Enter(w) \/ NotEntered(w) \/ Stumble(w)
               \/ Run(w) \/ Execute(w) \/ Leave(w)
        PROVE  DataInv'
      BY <1>1, QuietMoves, QuietKeeps
  <1>2. ASSUME NEW w \in Worker, Load(w) PROVE DataInv'
      BY <1>0, <1>2, LoadKeeps
  <1>3. ASSUME NEW w \in Worker, Delete(w) PROVE DataInv'
    <2>1. \A v \in Worker \ overrun : Active(v) => w \in overrun
        BY <1>0, <1>3, LockFrame DEF Delete, Active
    <2> QED
        BY <1>0, <1>3, <2>1, DeleteKeeps
  <1>4. ASSUME NEW w \in Worker, Answer(w) PROVE DataInv'
      BY <1>4, AnswerKeeps
  <1>5. ASSUME NEW w \in Worker, Settle(w) PROVE DataInv'
      BY <1>5, SettleKeeps
  <1>6. ASSUME NEW w \in Worker, Save(w) PROVE DataInv'
      BY <1>0, <1>6, StoreMoves, StoreKeeps
  <1>7. ASSUME NEW w \in Worker, Break(w) \/ Crash(w) PROVE DataInv'
    <2>1. CutOff(w)
        BY <1>7 DEF Break, Crash
    <2>2. CASE pc[w] = "save" /\ Store(w)
        BY <1>0, <1>7, <2>2, StoreMoves, StoreKeeps
    <2>3. CASE memory' = memory /\ closed' = closed /\ late' = late
        BY <1>7, <2>3, QuietMoves, QuietKeeps
    <2> QED
        BY <2>1, <2>2, <2>3, CutOffStores
  <1>8. CASE MemoryExpires
      BY <1>0, <1>8, ExpireKeeps
  <1>9. CASE LeaseExpires \/ RecordLapses
    <2>1. Quiet
      <3>1. \A v \in Worker : v \in overrun => v \in overrun'
          BY <1>9 DEF LeaseExpires, RecordLapses, Lock!Expire, lockVars
      <3> QED
          BY <1>9, <3>1 DEF LeaseExpires, RecordLapses, Quiet, Active, DataInv, DataType,
             turnVars, counts, historyVars
    <2> QED
        BY <2>1, QuietKeeps
  <1> QED
      BY <1>1, <1>2, <1>3, <1>4, <1>5, <1>6, <1>7, <1>8, <1>9 DEF Next, Turn
--------------------------------------------------------------------------------
(* What the caller is asked *)

\* The other turns stay where they are.
Elsewhere(w) ==
    \A v \in Worker \ {w} : /\ pc'[v] = pc[v] /\ base'[v] = base[v]
                            /\ reply'[v] = reply[v] /\ snap'[v] = snap[v]

\* A turn moves alone.
LEMMA MovesAlone == ASSUME DataInv, LockInv, NEW w \in Worker, Moves(w) PROVE Elsewhere(w)
  <1>1. /\ pc \in [Worker -> Point] /\ base \in [Worker -> Snapshot]
        /\ reply \in [Worker -> Reply] /\ snap \in [Worker -> Snapshot]
      BY DEF DataInv, DataType, LockInv, ControlType
  <1>2. CASE Receive(w) \/ Enter(w) \/ NotEntered(w) \/ Load(w) \/ Delete(w)
      BY <1>1, <1>2 DEF Elsewhere, Receive, Enter, NotEntered, Load, Delete, Goto, Says, Gone,
         historyVars
  <1>3. CASE Answer(w)
      BY <1>1, <1>3 DEF Elsewhere, Answer, Goto, Says, historyVars
  <1>4. CASE Stumble(w) \/ Run(w) \/ Execute(w) \/ Settle(w) \/ Save(w) \/ Leave(w)
      BY <1>1, <1>4 DEF Elsewhere, Stumble, Run, Execute, Settle, Save, Leave, Goto, Says, Gone,
         turnVars, historyVars
  <1>5. CASE Break(w) \/ Crash(w)
      BY <1>1, <1>5 DEF Elsewhere, Break, Crash, Goto, Says, Gone
  <1> QED
      BY <1>2, <1>3, <1>4, <1>5 DEF Moves, Turn

\* The questions under way are those of the replies still to be given.
LEMMA UnderwayIs ==
    ASSUME NEW q
    PROVE  q \in Underway <=>
              \E v \in Worker : pc[v] = "leave" /\ reply[v] = "confirm" /\ q = Asks(snap[v].pending)
  BY DEF Underway, Asking

\* What a turn does to the questions asked, unless it replies or is cut off.
LEMMA AskFrame ==
    ASSUME NEW w \in Worker, Moves(w)
    PROVE  /\ heard \subseteq heard' /\ unheard \subseteq unheard'
           /\ pc[w] = "leave" =>
                 heard' = heard \cup Asking(w) \/ unheard' = unheard \cup Asking(w)
           /\ \/ heard' = heard
              \/ pc[w] = "leave" /\ heard' = heard \cup Asking(w)
           /\ \/ unheard' = unheard
              \/ pc[w] \in {"save", "leave"} /\ unheard' = unheard \cup Asking(w)
  BY DEF Moves, Turn, Receive, Enter, NotEntered, Load, Delete, Answer, Stumble, Run, Execute,
     Settle, Save, Leave, Break, Crash, CutOff, historyVars

\* What is known stays known.
LEMMA KnownGrows ==
    ASSUME DataInv, LockInv, NEW w \in Worker, Moves(w)
    PROVE  Known \subseteq Known'
  <1> SUFFICES ASSUME NEW q \in Known PROVE q \in Known'
      OBVIOUS
  <1>1. CASE q \in heard \cup unheard
      BY <1>1, AskFrame DEF Known
  <1>2. CASE q \in Underway
    <2>1. PICK v \in Worker : pc[v] = "leave" /\ reply[v] = "confirm" /\ q = Asks(snap[v].pending)
        BY <1>2, UnderwayIs
    <2>2. CASE v # w
      <3>1. pc'[v] = "leave" /\ reply'[v] = "confirm" /\ q = Asks(snap'[v].pending)
          BY <2>1, <2>2, MovesAlone DEF Elsewhere
      <3>2. q \in Underway'
          BY <3>1 DEF Underway, Asking, Asks
      <3> QED
          BY <3>2 DEF Known
    <2>3. CASE v = w
      <3>1. q \in Asking(w)
          BY <2>1, <2>3 DEF Asking
      <3> QED
          BY <2>1, <2>3, <3>1, AskFrame DEF Known
    <2> QED
        BY <2>2, <2>3
  <1> QED
      BY <1>1, <1>2 DEF Known

\* What was told stays told.
LEMMA ToldGrows ==
    ASSUME NEW p, Told(p), Known \subseteq Known', NEW q, q = p
    PROVE  Complete(q) => Summarized(q) /\ Asks(q) \in Known'
  BY DEF Told

\* What a turn stores is known as soon as it is stored.
LEMMA StoredIsTold ==
    ASSUME DataInv, LockInv, AskInv, NEW w \in Worker, pc[w] = "save", Moves(w),
           Save(w) \/ unheard' = unheard \cup Asking(w)
    PROVE  Complete(snap[w].pending) =>
              Summarized(snap[w].pending) /\ Asks(snap[w].pending) \in Known'
  <1> SUFFICES ASSUME Complete(snap[w].pending)
               PROVE  Summarized(snap[w].pending) /\ Asks(snap[w].pending) \in Known'
      OBVIOUS
  <1>1. /\ Summarized(snap[w].pending)
        /\ reply[w] = "confirm" \/ Asks(snap[w].pending) \in Known
      BY DEF AskInv, Settled
  <1>2. CASE Asks(snap[w].pending) \in Known
      BY <1>1, <1>2, KnownGrows
  <1>3. CASE reply[w] = "confirm" /\ Save(w)
    <2>1. pc'[w] = "leave" /\ reply' = reply /\ snap' = snap
        BY <1>3 DEF Save, Goto, LockInv, ControlType
    <2>2. Asks(snap[w].pending) \in Underway'
        BY <1>3, <2>1 DEF Underway, Asking, Asks
    <2> QED
        BY <1>1, <2>2 DEF Known
  <1>4. CASE reply[w] = "confirm" /\ unheard' = unheard \cup Asking(w)
    <2>1. Asks(snap[w].pending) \in Asking(w)
        BY <1>4 DEF Asking
    <2> QED
        BY <1>1, <1>4, <2>1 DEF Known
  <1> QED
      BY <1>1, <1>2, <1>3, <1>4

\* A step of a turn leaves the stored snapshot, deletes it or stores the turn's.
LEMMA MemoryMoves ==
    ASSUME NEW w \in Worker, Moves(w)
    PROVE  \/ memory' = memory \/ memory' = Fresh
           \/ memory' = snap[w] /\ pc[w] = "save" /\ (Save(w) \/ unheard' = unheard \cup Asking(w))
  BY DEF Moves, Turn, Receive, Enter, NotEntered, Load, Delete, Answer, Stumble, Run, Execute,
     Settle, Save, Leave, Break, Crash, CutOff, Store, turnVars

\* What a step makes of the snapshot of its turn.
LEMMA OwnAsk ==
    ASSUME DataInv, LockInv, AskInv, NEW w \in Worker, Moves(w),
           NEW s, s = snap'[w].pending, NEW r, r = reply'[w]
    PROVE  /\ pc'[w] \in {"handle", "execute"} =>
                 (Complete(s) => Summarized(s) /\ Asks(s) \in Known')
           /\ pc'[w] = "execute" => Complete(s)
           /\ pc'[w] = "save" /\ Complete(s) =>
                 Summarized(s) /\ (r = "confirm" \/ Asks(s) \in Known')
           /\ pc'[w] \in {"save", "leave"} /\ r = "confirm" => s \in Pending
  <1>0. /\ pc \in [Worker -> Point] /\ snap \in [Worker -> Snapshot]
        /\ reply \in [Worker -> Reply] /\ Known \subseteq Known'
      BY KnownGrows DEF DataInv, DataType, LockInv, ControlType
  <1>1. CASE Load(w)
    <2>1. pc'[w] = "handle" /\ s = memory.pending
        BY <1>0, <1>1 DEF Load, Goto
    <2>2. Told(memory.pending)
        BY DEF AskInv
    <2> QED
        BY <1>0, <2>1, <2>2 DEF Told
  <1>2. CASE Answer(w)
    <2> SUFFICES ASSUME NEW h, h = Handled(w)
                 PROVE  /\ pc'[w] = "save"
                        /\ Complete(s) =>
                              Summarized(s) /\ (r = "confirm" \/ Asks(s) \in Known')
                        /\ r = "confirm" => s \in Pending
        OBVIOUS
    <2>1. /\ pc[w] = "handle" /\ pc'[w] = "save" /\ r = h.does
          /\ snap'[w] = Turned(snap[w], h.pending)
        BY <1>0, <1>2 DEF Answer, Goto, Says, Turned
    <2>2. Sound(snap[w].pending, msg[w], Identifier, h)
        BY <2>1, HandledIsSound DEF Active
    <2>3. s = h.pending
        BY <2>1 DEF Turned
    <2>4. Told(snap[w].pending)
        BY <2>1 DEF AskInv
    <2> QED
        BY <1>0, <2>1, <2>2, <2>3, <2>4 DEF Sound, Told
  <1>3. CASE Run(w)
    <2>1. pc[w] = "handle" /\ pc'[w] = "execute" /\ s = snap[w].pending
        BY <1>0, <1>3 DEF Run, Goto
    <2>2. Handled(w).does = "run" /\ Sound(snap[w].pending, msg[w], Identifier, Handled(w))
        BY <1>3, <2>1, HandledIsSound DEF Run, Active
    <2>3. Complete(snap[w].pending)
        BY <2>2 DEF Sound
    <2>4. Told(snap[w].pending)
        BY <2>1 DEF AskInv
    <2> QED
        BY <1>0, <2>1, <2>3, <2>4 DEF Told
  <1>4. CASE Execute(w)
    <2>1. pc[w] = "execute" /\ pc'[w] = "execute" /\ s = snap[w].pending
        BY <1>4 DEF Execute, turnVars
    <2>2. Told(snap[w].pending) /\ Complete(snap[w].pending)
        BY <2>1 DEF AskInv
    <2> QED
        BY <1>0, <2>1, <2>2 DEF Told
  <1>5. CASE Settle(w)
    <2>1. /\ pc[w] = "execute" /\ pc'[w] = "save" /\ r # "confirm"
          /\ s = NoPending \/ s = snap[w].pending
        BY <1>0, <1>5 DEF Settle, Goto, Says
    <2>2. Told(snap[w].pending)
        BY <2>1 DEF AskInv
    <2> QED
        BY <1>0, <2>1, <2>2, FreshType DEF Told, Complete
  <1>6. CASE Save(w)
    <2>1. pc[w] = "save" /\ pc'[w] = "leave" /\ r = reply[w] /\ s = snap[w].pending
        BY <1>0, <1>6 DEF Save, Goto
    <2> QED
        BY <2>1 DEF AskInv, Settled
  <1>7. CASE Delete(w) \/ Stumble(w) \/ Break(w)
    <2>1. pc'[w] = "leave" /\ r # "confirm"
        BY <1>0, <1>7 DEF Delete, Stumble, Break, Goto, Says
    <2> QED
        BY <2>1
  <1>8. CASE Receive(w) \/ Enter(w) \/ NotEntered(w) \/ Leave(w) \/ Crash(w)
    <2>1. pc'[w] \in {"idle", "lock", "load"}
        BY <1>0, <1>8 DEF Receive, Enter, NotEntered, Leave, Crash, Gone, Goto
    <2> QED
        BY <2>1
  <1> QED
      BY <1>1, <1>2, <1>3, <1>4, <1>5, <1>6, <1>7, <1>8 DEF Moves, Turn

\* A step of a turn leaves nothing complete of which the caller is not to be asked.
LEMMA AskMoves == ASSUME DataInv, LockInv, AskInv, NEW w \in Worker, Moves(w) PROVE AskInv'
  <1>0. Known \subseteq Known' /\ Elsewhere(w)
      BY KnownGrows, MovesAlone
  <1>1. heard' \in SUBSET Question /\ unheard' \in SUBSET Question
    <2>1. pc[w] \in {"save", "leave"} => Asking(w) \subseteq Question
        BY DEF AskInv, Settled, Asking, Asks, Question, Pending
    <2> QED
        BY <2>1, AskFrame DEF AskInv
  <1>2. Complete(memory'.pending) =>
            Summarized(memory'.pending) /\ Asks(memory'.pending) \in Known'
    <2>1. CASE memory' = memory
        BY <1>0, <2>1 DEF AskInv, Told
    <2>2. CASE memory' = Fresh
        BY <2>2, FreshType DEF Complete
    <2>3. CASE /\ memory' = snap[w] /\ pc[w] = "save"
               /\ Save(w) \/ unheard' = unheard \cup Asking(w)
        BY <2>3, StoredIsTold
    <2> QED
        BY <2>1, <2>2, <2>3, MemoryMoves
  <1>3. ASSUME NEW v \in Worker
        PROVE  /\ pc'[v] \in {"handle", "execute"} =>
                     (Complete(snap'[v].pending) =>
                        Summarized(snap'[v].pending) /\ Asks(snap'[v].pending) \in Known')
               /\ pc'[v] = "execute" => Complete(snap'[v].pending)
               /\ pc'[v] = "save" /\ Complete(snap'[v].pending) =>
                     /\ Summarized(snap'[v].pending)
                     /\ reply'[v] = "confirm" \/ Asks(snap'[v].pending) \in Known'
               /\ pc'[v] \in {"save", "leave"} /\ reply'[v] = "confirm" =>
                     snap'[v].pending \in Pending
    <2>1. CASE v = w
        BY <2>1, OwnAsk
    <2>2. CASE v # w
      <3>1. pc'[v] = pc[v] /\ reply'[v] = reply[v] /\ snap'[v] = snap[v]
          BY <1>0, <2>2 DEF Elsewhere
      <3> QED
          BY <1>0, <3>1 DEF AskInv, Settled, Told
    <2> QED
        BY <2>1, <2>2
  <1>4. Settled'
      BY <1>3 DEF Settled, Complete, Summarized, Asks
  <1> QED
      BY <1>1, <1>2, <1>3, <1>4 DEF AskInv, Told, Complete, Summarized, Asks

\* Nor does any other step.
LEMMA AskKept == DataInv /\ LockInv /\ AskInv /\ Next => AskInv'
  <1>1. ASSUME AskInv, LeaseExpires \/ RecordLapses \/ MemoryExpires PROVE AskInv'
    <2>1. /\ UNCHANGED <<pc, reply, snap, heard, unheard>>
          /\ memory' = memory \/ memory' = Fresh
        BY <1>1 DEF LeaseExpires, RecordLapses, MemoryExpires, turnVars, historyVars
    <2>2. Known' = Known /\ Settled'
        BY <1>1, <2>1 DEF AskInv, Settled, Known, Underway, Asking, Complete, Summarized, Asks
    <2> QED
        BY <1>1, <2>1, <2>2, FreshType DEF AskInv, Told, Complete, Summarized, Asks
  <1> QED
      BY <1>1, AskMoves DEF Next, Moves

--------------------------------------------------------------------------------
(* The dispatcher *)

\* A step of the dispatcher on behalf of w.
DispatchStep(w) ==
    \/ \E o \in Operation : Dispatch!Call(w, o, FALSE)
    \/ Dispatch!RejectArguments(w) \/ Dispatch!Collect(w) \/ Dispatch!Execute(w)
    \/ Dispatch!Fail(w) \/ Dispatch!Abandon(w)

\* The dispatcher of this module is that of ToolDispatchProofs.
LEMMA SameDispatch ==
    /\ Dispatch!TypeOK <=> DP!TypeOK
    /\ Dispatch!Next <=> DP!Next
  <1>1. Dispatch!TypeOK <=> DP!TypeOK
      BY DEF Dispatch!TypeOK, DP!TypeOK, Dispatch!Record, DP!Record, Dispatch!Step, DP!Step,
         Dispatch!Answer, DP!Answer,
       Dispatch!Error, DP!Error, Dispatch!Faulty, DP!Faulty
  <1>2. Dispatch!Next <=> DP!Next
      BY DEF DP!Next, DP!Call, DP!RejectArguments, DP!Collect, DP!Over, DP!Execute, DP!Get,
         DP!Reserve, DP!ReserveRefused,
         DP!Prepare, DP!Refuse, DP!Begin, DP!Write, DP!Conflict, DP!Reread, DP!Complete,
         DP!Mark, DP!Fail, DP!Abandon,
         DP!Lapse, DP!Forget, DP!Holds, DP!Holding, DP!Remote, DP!Raised, DP!Faulty,
         DP!WithinBound, DP!Effect, DP!Stored, DP!Free,
         DP!Go, DP!Return, DP!Raise, DP!Replayable, DP!store, DP!call,
         Dispatch!Next, Dispatch!Call, Dispatch!RejectArguments, Dispatch!Collect,
         Dispatch!Over, Dispatch!Execute, Dispatch!Get, Dispatch!Reserve, Dispatch!ReserveRefused,
         Dispatch!Prepare, Dispatch!Refuse, Dispatch!Begin, Dispatch!Write, Dispatch!Conflict,
         Dispatch!Reread, Dispatch!Complete, Dispatch!Mark, Dispatch!Fail, Dispatch!Abandon,
         Dispatch!Lapse, Dispatch!Forget, Dispatch!Holds, Dispatch!Holding, Dispatch!Remote,
         Dispatch!Raised, Dispatch!Faulty, Dispatch!WithinBound, Dispatch!Effect,
         Dispatch!Stored, Dispatch!Free,
         Dispatch!Go, Dispatch!Return, Dispatch!Raise, Dispatch!Replayable, Dispatch!store,
         Dispatch!call
  <1> QED
      BY <1>1, <1>2

\* The dispatcher keeps its types and its honesty, by ToolDispatchProofs.
LEMMA DispatchMoves ==
    ASSUME Dispatch!TypeOK, Honest, Dispatch!Forget,
           \/ \E w \in Worker : DispatchStep(w)
           \/ \E o \in Operation : Dispatch!Lapse(o)
           \/ UNCHANGED dispatchVars
    PROVE  Dispatch!TypeOK' /\ Honest'
  <1>1. CASE UNCHANGED dispatchVars
    <2>1. Dispatch!TypeOK'
        BY <1>1 DEF Dispatch!TypeOK, Dispatch!Forget, dispatchVars
    <2>2. Honest'
        BY <1>1 DEF Honest, DP!Honest, dispatchVars
    <2> QED
        BY <2>1, <2>2
  <1>2. ASSUME Dispatch!Next PROVE Dispatch!TypeOK' /\ Honest'
    <2>1. DP!OperationAssumption
        BY TurnAssumption DEF DP!OperationAssumption, Lookups
    <2>2. DP!TypeOK /\ DP!Honest /\ DP!Next
        BY <1>2, SameDispatch DEF Honest
    <2>3. DP!TypeOK'
        BY <2>1, <2>2, DP!NextType DEF DP!NextType, DP!OperationAssumption
    <2>4. DP!Honest'
        BY <2>1, <2>2, DP!NextHonest DEF DP!NextHonest, DP!OperationAssumption
    <2>5. Dispatch!TypeOK'
        BY <2>3 DEF Dispatch!TypeOK, DP!TypeOK, Dispatch!Record, DP!Record,
           Dispatch!Step, DP!Step, Dispatch!Answer, DP!Answer, Dispatch!Error, DP!Error,
           Dispatch!Faulty, DP!Faulty
    <2> QED
        BY <2>4, <2>5 DEF Honest
  <1>3. ASSUME \/ \E w \in Worker : DispatchStep(w)
               \/ \E o \in Operation : Dispatch!Lapse(o)
        PROVE  Dispatch!Next
      BY <1>3 DEF DispatchStep, Dispatch!Next
  <1> QED
      BY <1>1, <1>2, <1>3

\* Commits are not undone.
LEMMA MadeGrows ==
    ASSUME Dispatch!TypeOK, NEW o \in Operation,
           \/ \E w \in Worker : DispatchStep(w)
           \/ \E q \in Operation : Dispatch!Lapse(q)
           \/ UNCHANGED dispatchVars
    PROVE  made[o] \in Nat /\ made'[o] >= made[o]
  <1>0. made[o] \in Nat /\ made \in [Operation -> 0..MaxMade] /\ made \in [Operation -> Nat]
      BY TurnAssumption DEF Dispatch!TypeOK
  <1>1. ASSUME NEW w \in Worker, Dispatch!Effect(w) PROVE made'[o] >= made[o]
      BY <1>0, <1>1 DEF Dispatch!Effect
  <1>2. ASSUME NEW w \in Worker, DispatchStep(w) PROVE made'[o] >= made[o]
    <2>1. \/ Dispatch!Effect(w) \/ made' = made
        BY <1>2 DEF DispatchStep, Dispatch!Call, Dispatch!RejectArguments, Dispatch!Collect,
           Dispatch!Execute, Dispatch!Get, Dispatch!Reserve, Dispatch!ReserveRefused,
           Dispatch!Prepare, Dispatch!Refuse, Dispatch!Begin, Dispatch!Write,
           Dispatch!Conflict, Dispatch!Reread, Dispatch!Complete, Dispatch!Mark,
           Dispatch!Fail, Dispatch!Abandon, Dispatch!store
    <2> QED
        BY <1>0, <1>1, <2>1
  <1> QED
      BY <1>0, <1>2 DEF Dispatch!Lapse, dispatchVars

\* What a step of the dispatcher leaves to the turn it works for, and to the others.
LEMMA DispatchFrame ==
    ASSUME Dispatch!TypeOK, NEW w \in Worker, DispatchStep(w)
    PROVE  /\ \A v \in Worker \ {w} :
                 step'[v] = step[v] /\ op'[v] = op[v] /\ answer'[v] = answer[v]
           /\ Dispatch!RejectArguments(w) \/ Dispatch!Execute(w) \/ Dispatch!Fail(w) =>
                 op'[w] = op[w]
           /\ Dispatch!Collect(w) \/ Dispatch!Abandon(w) =>
                 step'[w] = "idle" /\ op'[w] = NoOperation /\ answer'[w] = "none"
           /\ \A o \in Operation : Dispatch!Call(w, o, FALSE) => op'[w] = o
  BY DEF DispatchStep, Dispatch!TypeOK, Dispatch!Call, Dispatch!RejectArguments, Dispatch!Collect,
     Dispatch!Execute, Dispatch!Get, Dispatch!Reserve, Dispatch!ReserveRefused,
     Dispatch!Prepare, Dispatch!Refuse, Dispatch!Begin, Dispatch!Write,
     Dispatch!Conflict, Dispatch!Reread, Dispatch!Complete, Dispatch!Mark,
     Dispatch!Fail, Dispatch!Abandon, Dispatch!Over, Dispatch!Go, Dispatch!Return, Dispatch!Raise

\* What a step is to the dispatcher.
LEMMA CallMoves ==
    ASSUME DataInv, LockInv, CallInv, Next
    PROVE  \/ \E w \in Worker : DispatchStep(w)
           \/ \E o \in Operation : Dispatch!Lapse(o)
           \/ UNCHANGED dispatchVars
  <1>1. ASSUME NEW w \in Worker, Run(w) PROVE DispatchStep(w)
      BY <1>1 DEF Run, DispatchStep, Fits
  <1>2. ASSUME NEW w \in Worker, Execute(w) \/ Settle(w) PROVE DispatchStep(w)
      BY <1>2 DEF Execute, Settle, DispatchStep
  <1>3. ASSUME NEW w \in Worker, Break(w) \/ Crash(w)
        PROVE  DispatchStep(w) \/ UNCHANGED dispatchVars
      BY <1>3 DEF Break, Crash, CutOff, DispatchStep
  <1>4. ASSUME NEW w \in Worker,
               \/ Receive(w) \/ Enter(w) \/ NotEntered(w) \/ Load(w) \/ Delete(w)
               \/ Answer(w) \/ Stumble(w) \/ Save(w) \/ Leave(w)
        PROVE  UNCHANGED dispatchVars
      BY <1>4 DEF Receive, Enter, NotEntered, Load, Delete, Answer, Stumble, Save, Leave
  <1>5. CASE LeaseExpires \/ MemoryExpires
      BY <1>5 DEF LeaseExpires, MemoryExpires
  <1>6. CASE RecordLapses
      BY <1>6 DEF RecordLapses
  <1> QED
      BY <1>1, <1>2, <1>3, <1>4, <1>5, <1>6 DEF Next, Turn

\* The dispatcher has the other turns where it had them,
OthersCalls(w) ==
    \A v \in Worker \ {w} : step'[v] = step[v] /\ op'[v] = op[v] /\ answer'[v] = answer[v]

\* and w, if at all, with the operation it loaded.
OwnCall(w) ==
    IF pc'[w] = "execute"
    THEN /\ base'[w] = base[w]
         /\ op'[w] \in {NoOperation, Key(base[w].pending)}
    ELSE step'[w] = "idle" /\ op'[w] = NoOperation /\ answer'[w] = "none"

\* A turn is in the dispatcher alone, with the operation it loaded.
LEMMA CallAlone ==
    ASSUME DataInv, LockInv, CallInv, NEW w \in Worker, Moves(w)
    PROVE  OthersCalls(w) /\ OwnCall(w)
  <1>0. Dispatch!TypeOK /\ pc \in [Worker -> Point] /\ base \in [Worker -> Snapshot]
      BY DEF CallInv, LockInv, ControlType, DataInv, DataType
  <1>1. CASE Run(w)
    <2>1. pc'[w] = "execute" /\ base' = base /\ pc[w] = "handle"
        BY <1>0, <1>1 DEF Run, Goto, historyVars
    <2>2. /\ snap[w] = base[w] /\ Handled(w).does = "run"
          /\ op[w] = NoOperation
        BY <1>1, <2>1 DEF DataInv, Loaded, CallInv, InCall, Run
    <2>3. Handled(w).pending = base[w].pending /\ Complete(base[w].pending)
        BY <2>1, <2>2, HandledIsSound DEF Sound, Active
    <2>5. CASE Dispatch!Call(w, Key(base[w].pending), FALSE) /\ Key(base[w].pending) \in Operation
      <3>1. DispatchStep(w)
          BY <2>5 DEF DispatchStep
      <3> QED
          BY <1>0, <2>1, <2>5, <3>1, DispatchFrame DEF OthersCalls, OwnCall
    <2>6. CASE Dispatch!RejectArguments(w)
      <3>1. DispatchStep(w)
          BY <2>6 DEF DispatchStep
      <3> QED
          BY <1>0, <2>1, <2>2, <2>6, <3>1, DispatchFrame DEF OthersCalls, OwnCall
    <2> QED
        BY <1>1, <2>3, <2>5, <2>6 DEF Run, Fits
  <1>2. CASE Execute(w)
    <2>1. DispatchStep(w) /\ (Dispatch!Execute(w) \/ Dispatch!Fail(w))
        BY <1>2 DEF Execute, DispatchStep
    <2>2. pc' = pc /\ base' = base /\ pc[w] = "execute"
        BY <1>2 DEF Execute, turnVars, historyVars
    <2> QED
        BY <1>0, <2>1, <2>2, DispatchFrame DEF CallInv, InCall, OthersCalls, OwnCall
  <1>3. CASE Settle(w) \/ ((Break(w) \/ Crash(w)) /\ pc[w] = "execute")
    <2>1. DispatchStep(w) /\ (Dispatch!Collect(w) \/ Dispatch!Abandon(w))
        BY <1>3 DEF Settle, Break, Crash, CutOff, DispatchStep
    <2>2. pc'[w] # "execute"
        BY <1>0, <1>3 DEF Settle, Break, Crash, Goto, Gone
    <2> QED
        BY <1>0, <2>1, <2>2, DispatchFrame DEF OthersCalls, OwnCall
  <1>4. CASE \/ Receive(w) \/ Enter(w) \/ NotEntered(w) \/ Load(w) \/ Delete(w) \/ Answer(w)
             \/ Stumble(w) \/ Save(w) \/ Leave(w)
             \/ (Break(w) \/ Crash(w)) /\ pc[w] # "execute"
    <2>1. UNCHANGED dispatchVars
        BY <1>4 DEF Receive, Enter, NotEntered, Load, Delete, Answer, Stumble, Save, Leave,
           Break, Crash, CutOff
    <2>2. pc[w] # "execute" /\ pc'[w] # "execute"
        BY <1>0, <1>4 DEF Receive, Enter, NotEntered, Load, Delete, Answer, Stumble, Save,
           Leave, Break, Crash, Goto, Gone
    <2> QED
        BY <2>1, <2>2 DEF dispatchVars, CallInv, InCall, OthersCalls, OwnCall
  <1> QED
      BY <1>1, <1>2, <1>3, <1>4 DEF Moves, Turn

\* Every step keeps what the turns make of the dispatcher.
LEMMA CallKept == DataInv /\ LockInv /\ CallInv /\ Next => CallInv'
  <1> SUFFICES ASSUME DataInv, LockInv, CallInv, Next PROVE CallInv'
      OBVIOUS
  <1>0. /\ pc \in [Worker -> Point] /\ base \in [Worker -> Snapshot]
        /\ Dispatch!TypeOK /\ Honest
      BY DEF CallInv, LockInv, ControlType, DataInv, DataType
  <1>1. Dispatch!TypeOK' /\ Honest'
      BY <1>0, CallMoves, DispatchMoves DEF Next
  <1>2. CASE LeaseExpires \/ MemoryExpires \/ RecordLapses
    <2>1. UNCHANGED <<pc, reply, base, step, op, answer>>
        BY <1>2 DEF LeaseExpires, MemoryExpires, RecordLapses, turnVars, historyVars,
           dispatchVars, Dispatch!Lapse, Dispatch!call
    <2>2. InCall'
        BY <2>1 DEF CallInv, InCall, Key
    <2>3. Committed'
      <3>1. \A o \in Operation : made[o] \in Nat /\ made'[o] >= made[o]
          BY <1>0, CallMoves, MadeGrows
      <3>2. \A o \in Operation : made[o] > 0 => made'[o] > 0
        <4> TAKE o \in Operation
        <4>1. made'[o] \in Nat
            BY <1>1, TurnAssumption DEF Dispatch!TypeOK
        <4> QED
            BY <3>1, <4>1
      <3> QED
          BY <2>1, <3>2 DEF CallInv, Committed, Key
    <2> QED
        BY <1>1, <2>2, <2>3 DEF CallInv
  <1>3. ASSUME NEW w \in Worker, Moves(w) PROVE CallInv'
    <2>1. Elsewhere(w)
        BY <1>3, MovesAlone
    <2>2. OthersCalls(w) /\ OwnCall(w)
        BY <1>3, CallAlone
    <2>3. InCall'
      <3> SUFFICES ASSUME NEW v \in Worker
                   PROVE  IF pc'[v] = "execute"
                          THEN op'[v] \in {NoOperation, Key(base'[v].pending)}
                          ELSE step'[v] = "idle" /\ op'[v] = NoOperation /\ answer'[v] = "none"
          BY DEF InCall, Key
      <3>1. CASE v = w
          BY <2>2, <3>1 DEF OwnCall
      <3>2. CASE v # w
          BY <2>1, <2>2, <3>2 DEF Elsewhere, OthersCalls, CallInv, InCall
      <3> QED
          BY <3>1, <3>2
    <2>5. \A o \in Operation : made[o] > 0 => made'[o] > 0
      <3> TAKE o \in Operation
      <3>1. made[o] \in Nat /\ made'[o] >= made[o]
          BY <1>0, CallMoves, MadeGrows
      <3>2. made'[o] \in Nat
          BY <1>1, TurnAssumption DEF Dispatch!TypeOK
      <3> QED
          BY <3>1, <3>2
    <2>6. pc'[w] \in {"save", "leave"} /\ reply'[w] = "done" =>
             Key(base'[w].pending) \in Operation /\ made'[Key(base'[w].pending)] > 0
      <3>0. reply \in [Worker -> Reply]
          BY DEF LockInv, ControlType
      <3>1. CASE Settle(w)
        <4>1. /\ pc[w] = "execute" /\ base' = base
              /\ reply'[w] = "done" => Succeeded(answer[w])
            BY <3>0, <3>1 DEF Settle, Says, historyVars
        <4>2. Succeeded(answer[w]) => op[w] \in Operation /\ made[op[w]] > 0
            BY <1>0 DEF Honest, DP!Honest, Succeeded
        <4>3. op[w] \in Operation => op[w] = Key(base[w].pending)
            BY <4>1, TurnAssumption DEF CallInv, InCall
        <4> QED
            BY <2>5, <4>1, <4>2, <4>3
      <3>2. CASE Save(w)
        <4>1. pc[w] = "save" /\ UNCHANGED <<reply, base>>
            BY <3>2 DEF Save
        <4> QED
            BY <2>5, <4>1 DEF CallInv, Committed
      <3>3. CASE Answer(w)
        <4>1. Active(w) /\ Handled(w).does # "done" /\ reply'[w] = Handled(w).does
          <5>1. Active(w)
              BY <3>3 DEF Answer, Active
          <5> QED
              BY <3>0, <3>3, <5>1, HandledIsSound DEF Answer, Says, Sound
        <4> QED
            BY <4>1
      <3>4. CASE Delete(w) \/ Stumble(w) \/ Break(w)
          BY <3>0, <3>4 DEF Delete, Stumble, Break, Says
      <3>5. CASE \/ Receive(w) \/ Enter(w) \/ NotEntered(w) \/ Load(w) \/ Run(w)
                 \/ Execute(w) \/ Leave(w) \/ Crash(w)
        <4>1. pc'[w] \notin {"save", "leave"}
            BY <1>0, <3>5 DEF Receive, Enter, NotEntered, Load, Run, Execute, Leave, Crash,
               Gone, Goto, turnVars
        <4> QED
            BY <4>1
      <3> QED
          BY <1>3, <3>1, <3>2, <3>3, <3>4, <3>5 DEF Moves, Turn
    <2>7. Committed'
      <3> SUFFICES ASSUME NEW v \in Worker, pc'[v] \in {"save", "leave"}, reply'[v] = "done"
                   PROVE  Key(base'[v].pending) \in Operation /\ made'[Key(base'[v].pending)] > 0
          BY DEF Committed, Key
      <3>1. CASE v = w
          BY <2>6, <3>1
      <3>2. CASE v # w
          BY <2>1, <2>5, <3>2 DEF Elsewhere, CallInv, Committed
      <3> QED
          BY <3>1, <3>2
    <2> QED
        BY <1>1, <2>3, <2>7 DEF CallInv
  <1> QED
      BY <1>2, <1>3 DEF Next, Moves
--------------------------------------------------------------------------------
(* The theorems *)

\* A conversation begins within the invariant.
LEMMA InitInv == Init => IInv
  <1> SUFFICES ASSUME Init PROVE IInv
      OBVIOUS
  <1>1. LockInv
      BY TurnAssumption DEF Init, LockInv, Lock!Init, Lock!IInv, Lock!TypeOK, Lock!LeaseIsKey,
         Lock!Stage,
         AtLock, ControlType, Point, Reply
  <1>2. DataInv
    <2>1. /\ memory = Fresh
          /\ \A w \in Worker : snap[w] = Fresh /\ base[w] = Fresh /\ pc[w] = "idle"
          /\ named = 0 /\ closed = {} /\ late = FALSE
          /\ snap \in [Worker -> Snapshot] /\ base \in [Worker -> Snapshot]
          /\ msg \in [Worker -> Messages \cup {Reset}]
        BY FreshType DEF Init
    <2>2. DataType
        BY <2>1, FreshType DEF DataType
    <2>3. Loaded /\ TurnsAreSerial /\ Replaced
        BY <2>1 DEF Loaded, TurnsAreSerial, Replaced, Active
    <2>5. Numbered /\ Open
        BY <2>1, FreshType DEF Numbered, Open, Active
    <2> QED
        BY <2>2, <2>3, <2>5 DEF DataInv
  <1>3. CallInv
      BY TurnAssumption DEF Init, CallInv, Dispatch!Init, Dispatch!TypeOK, Dispatch!Record,
         Dispatch!Step, Dispatch!Answer, Dispatch!Error,
         Dispatch!Faulty, Honest, DP!Honest, InCall, Committed
  <1>4. AskInv
    <2>1. /\ memory.pending = NoPending /\ heard = {} /\ unheard = {}
          /\ \A w \in Worker : pc[w] = "idle"
        BY FreshType DEF Init
    <2> QED
        BY <2>1, FreshType DEF AskInv, Settled, Told, Complete
  <1> QED
      BY <1>1, <1>2, <1>3, <1>4 DEF IInv

\* Every step keeps the invariant, in all its parts.
LEMMA NextInv == IInv /\ [Next]_vars => IInv'
  <1>1. IInv /\ Next => IInv'
      BY LockKept, DataKept, AskKept, CallKept DEF IInv
  <1>2. ASSUME IInv, UNCHANGED vars PROVE IInv'
    <2>1. UNCHANGED <<lockVars, dispatchVars, forgotten, memory, turnVars, counts, historyVars>>
        BY <1>2 DEF vars
    <2>2. LockInv'
      <3>1. Lock!IInv'
          BY <1>2, <2>1, LockStep DEF IInv, LockInv
      <3> QED
          BY <1>2, <2>1, <3>1 DEF IInv, LockInv, AtLock, ControlType, lockVars, turnVars, counts
    <2>3. DataInv'
      <3>1. Quiet
          BY <1>2, <2>1 DEF IInv, Quiet, DataInv, DataType, lockVars, turnVars, counts,
             historyVars, Active
      <3> QED
          BY <1>2, <3>1, QuietKeeps DEF IInv
    <2>4. CallInv'
        BY <1>2, <2>1 DEF IInv, CallInv, Dispatch!TypeOK, Honest, DP!Honest, InCall,
           Committed, Key, dispatchVars, turnVars, historyVars
    <2>5. AskInv'
        BY <1>2, <2>1 DEF IInv, AskInv, Settled, Told, Complete, Known, Underway, Asking,
           turnVars, historyVars
    <2> QED
        BY <2>2, <2>3, <2>4, <2>5 DEF IInv
  <1> QED
      BY <1>1, <1>2

\* The inductive invariant holds in every behaviour.
THEOREM TurnsInvariance == Spec => []IInv
  BY InitInv, NextInv, PTL DEF Spec

\* Every variable keeps its type: what reaches the dispatcher is what the schemas accept.
THEOREM TypeCorrectness == Spec => []TypeOK
  <1>1. IInv => TypeOK
      BY DEF IInv, LockInv, Lock!IInv, ControlType, DataInv, DataType, AskInv, CallInv, TypeOK
  <1> QED
      BY <1>1, TurnsInvariance, PTL

\* For any messages, workers and faults: _execute_pending hands to the dispatcher only an
\* operation whose summary, as that of its arguments now, was put to the caller, or was stored
\* to be put to the caller by a turn that was cut off or has yet to reply.
THEOREM PromptedBeforeExecuted == Spec => []ExecutesWhatWasPrompted
  <1>1. ASSUME IInv, NEW w \in Worker, pc[w] = "execute", op[w] # NoOperation
        PROVE  Confirmed(w) \in Known
    <2>1. snap[w] = base[w] /\ op[w] = Key(snap[w].pending)
        BY <1>1 DEF IInv, DataInv, Loaded, CallInv, InCall
    <2>2. Complete(snap[w].pending) /\ Told(snap[w].pending)
        BY <1>1 DEF IInv, AskInv
    <2>3. Confirmed(w) = Asks(snap[w].pending)
        BY <2>1, <2>2 DEF Confirmed, Asks, Key, Told, Summarized
    <2> QED
        BY <2>2, <2>3 DEF Told
  <1>2. IInv => ExecutesWhatWasPrompted
      BY <1>1 DEF ExecutesWhatWasPrompted, Known
  <1> QED
      BY <1>2, TurnsInvariance, PTL

\* Turns work on the snapshot that is stored, unless one outlived its lease and wrote.
THEOREM SerialTurns == Spec => []TurnsAreSerial
  <1>1. IInv => TurnsAreSerial
      BY DEF IInv, DataInv
  <1> QED
      BY <1>1, TurnsInvariance, PTL

\* What a saved turn rejected, completed or replaced is not executed again, under that proviso.
THEOREM ClosedForGood == Spec => []ClosedStaysClosed
  <1>1. IInv => ClosedStaysClosed
      BY DEF IInv, DataInv, Open, Active, ClosedStaysClosed
  <1> QED
      BY <1>1, TurnsInvariance, PTL

\* The caller hears that an operation is done only if it has committed.
THEOREM DoneOnlyIfCommitted == Spec => []DoneIsCommitted
  <1>1. IInv => DoneIsCommitted
      BY DEF IInv, CallInv, Committed, DoneIsCommitted
  <1> QED
      BY <1>1, TurnsInvariance, PTL

\* The dispatcher has noted every record that was lost.
Remembered ==
    \A o \in Operation :
        (/\ record[o] \in {"missing", "failed"}
         /\ made[o] > 0 \/ \E w \in Worker : Dispatch!Holds(w, o)) => o \in forgotten

\* A step of the conversation is one of the dispatcher, or none.
LEMMA TurnsCall == IInv /\ Remembered /\ [Next]_vars => [DP!Next]_(DP!vars) /\ Remembered'
  <1> SUFFICES ASSUME IInv, Remembered, [Next]_vars PROVE [DP!Next]_(DP!vars) /\ Remembered'
      OBVIOUS
  <1>1. ASSUME Next PROVE [DP!Next]_(DP!vars) /\ Remembered'
    <2>0. Dispatch!Forget
        BY <1>1 DEF Next
    <2>1. Remembered'
        BY <2>0 DEF Remembered, Dispatch!Forget
    <2>2. CASE UNCHANGED dispatchVars
      <3>1. forgotten' = forgotten
          BY <2>0, <2>2 DEF Remembered, Dispatch!Forget, Dispatch!Holds, dispatchVars
      <3> QED
          BY <2>1, <2>2, <3>1 DEF DP!vars, DP!store, DP!call, dispatchVars
    <2>3. ASSUME (\E w \in Worker : DispatchStep(w)) \/ (\E o \in Operation : Dispatch!Lapse(o))
          PROVE  DP!Next
        BY <2>0, <2>3, SameDispatch DEF DispatchStep, Dispatch!Next
    <2> QED
        BY <1>1, <2>1, <2>2, <2>3, CallMoves DEF IInv
  <1>2. CASE UNCHANGED vars
    <2>1. UNCHANGED <<dispatchVars, forgotten>>
        BY <1>2 DEF vars
    <2> QED
        BY <2>1 DEF Remembered, Dispatch!Holds, DP!vars, DP!store, DP!call, dispatchVars
  <1> QED
      BY <1>1, <1>2

\* The turns implement the dispatcher's specification, so that an operation the caller confirms
\* commits once, whatever the turns go through, unless its idempotency record was lost.
THEOREM TurnsApplyOnce == Spec => []ConfirmedOnce
  <1>1. Init => DP!Init /\ Remembered
      BY TurnAssumption DEF Init, Dispatch!Init, DP!Init, Remembered, Dispatch!Holds,
         Dispatch!Holding
  <1>2. Spec => DP!Spec
      BY <1>1, TurnsInvariance, TurnsCall, PTL DEF Spec, DP!Spec
  <1>3. DP!Spec => []DP!AppliedOnce
      BY TurnAssumption, DP!DispatchAppliesOnce DEF DP!DispatchAppliesOnce, Lookups
  <1>4. DP!AppliedOnce => ConfirmedOnce
      BY DEF DP!AppliedOnce, Dispatch!AppliedOnce, ConfirmedOnce
  <1> QED
      BY <1>2, <1>3, <1>4, PTL
================================================================================
