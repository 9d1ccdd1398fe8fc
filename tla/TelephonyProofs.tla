--------------------------- MODULE TelephonyProofs ----------------------------
(***************************************************************************)
(* Theorems about Telephony, for any number of webhooks, callbacks and     *)
(* retries.  The argument: Twilio asks again only after an answer, so that *)
(* one speech request is under way at a time and what it loaded of the     *)
(* conversation is what is stored; and a column of the call's row is only  *)
(* ever set, so that a copy, however old, is behind the row and never      *)
(* contradicts it.                                                         *)
(***************************************************************************)
EXTENDS Telephony, TLAPS

Speaks(x) == handler[x].kind = "speech"

\* Where a request of each kind may be, and what it has with it.
Control ==
    \A x \in Handler :
        LET r == handler[x] IN
        /\ r.kind = "incoming" => r.pc \in {"idle", "create", "insert"}
        /\ r.kind = "status" => /\ r.pc \in {"read", "create", "insert", "update"}
                                /\ r.callback \in Callback
        /\ r.kind = "speech" => r.pc \in {"find", "load", "miss", "escalate", "turn", "audit",
                                          "record", "clear", "fetch", "fail"}
        /\ r.pc = "miss" => r.said = "unclear"
        /\ r.pc = "escalate" => r.said \in {"unclear", "human"}
        /\ r.pc \in {"audit", "record", "clear"} => r.loaded \in Snapshot /\ r.loaded.turn > 0
        /\ asked = x => r.pc # "idle" /\ r.kind # "status"

\* One speech request is handled at a time: Twilio waits for it, or the caller left.
OneSpeaker ==
    \A x \in Handler : Speaks(x) =>
        /\ asked = x \/ line = "left"
        /\ \A y \in Handler : Speaks(y) => y = x

\* The columns set in copy c are set in r.
Behind(c, r) ==
    /\ c.ended => r.ended
    /\ c.timed => r.timed
    /\ c.error => r.error
    /\ c.reason # "none" => r.reason # "none"

\* Who writes the row has a copy of it, which is behind it.
Copies ==
    \A x \in Handler :
        LET r == handler[x] IN
        /\ r.pc \in {"update", "load", "miss", "escalate", "fail"} => r.seen # NoRow
        /\ r.pc \in {"turn", "audit", "record", "clear", "fetch"} => row # NoRow
        /\ r.seen # NoRow => row # NoRow /\ Behind(r.seen, row)

\* Misses in memory are misses of the caller.
Counted ==
    /\ Known(snapshot).misses <= missed
    /\ \A x \in Handler :
        LET r == handler[x] IN
        /\ r.pc \in {"find", "load"} /\ r.said = "unclear" => Known(snapshot).misses < missed
        /\ r.pc = "miss" => Known(r.loaded).misses < missed
        /\ r.pc = "escalate" /\ r.said = "unclear" => missed >= MaxRetries

\* And those of the caller are in memory, where they count.
Exact ==
    forgotten \/
    /\ line \in {"new", "waiting", "listening"} /\ (\A x \in Handler : ~Speaks(x)) =>
          Known(snapshot).misses = missed /\ missed < MaxRetries
    /\ \A x \in Handler :
        LET r == handler[x] IN
        /\ r.pc \in {"find", "load"} =>
              missed = Known(snapshot).misses + (IF r.said = "unclear" THEN 1 ELSE 0)
        /\ r.pc = "miss" => missed = Known(r.loaded).misses + 1

\* Staff are called for misses at the end of a conversation.
Escalated ==
    row # NoRow /\ row.reason = "low_confidence" =>
        /\ missed >= MaxRetries
        /\ line \in {"staff", "left"}
        /\ \A x \in Handler : ~Speaks(x)

\* What the audit has, or is about to have.
Audited ==
    /\ \A x \in Handler : At(x, "record") => known[x] = total
    /\ unaudited \/
       /\ \A i \in DOMAIN answered : answered[i] \in turns
       /\ \A x \in Handler : At(x, "clear") => handler[x].loaded.turn \in turns

\* A turn's number is the memory's, and above those of the turns answered before.
Numbered ==
    forgotten \/
    /\ \A i \in DOMAIN answered :
          /\ answered[i] <= Known(snapshot).turn
          /\ \A j \in DOMAIN answered \ {i} : answered[j] # answered[i]
    /\ \A x \in Handler :
        LET r == handler[x] IN
        /\ r.pc = "miss" => r.loaded = snapshot
        /\ r.pc \in {"audit", "record", "clear"} =>
              /\ r.loaded.turn = Known(snapshot).turn
              /\ \A i \in DOMAIN answered : answered[i] < r.loaded.turn

IInv ==
    /\ TypeOK /\ Control /\ OneSpeaker
    /\ Copies /\ FinalHasEnd /\ TransferIsRecorded
    /\ Counted /\ Exact /\ Escalated
    /\ Audited /\ Numbered
--------------------------------------------------------------------------------
(* The row *)

\* The columns of the row.
Column == {"status", "ended", "timed", "error", "reason"}

\* An UPDATE writes the columns that differ, and leaves a row.
LEMMA FlushType ==
    ASSUME NEW new \in Row, NEW seen \in Row, row \in Row, NEW f, f = Flush(new, seen)
    PROVE  /\ f \in Row
           /\ \A k \in Column : f[k] = IF new[k] # seen[k] THEN new[k] ELSE row[k]
<1>1. DOMAIN new = Column
  BY DEF Row, Column
<1>2. \A k \in Column : f[k] = IF new[k] # seen[k] THEN new[k] ELSE row[k]
  BY <1>1 DEF Flush
<1>3. DOMAIN f = Column
  BY <1>1 DEF Flush
<1>4. f = [k \in Column |-> f[k]]
  BY <1>1 DEF Flush
<1>5. f = [status |-> f.status, ended |-> f.ended, timed |-> f.timed, error |-> f.error,
           reason |-> f.reason]
  BY <1>4 DEF Column
<1>6. \A k \in Column : f[k] \in {new[k], row[k]}
  BY <1>2
<1>7. /\ f.status \in {new.status, row.status}
      /\ f.ended \in {new.ended, row.ended}
      /\ f.timed \in {new.timed, row.timed}
      /\ f.error \in {new.error, row.error}
      /\ f.reason \in {new.reason, row.reason}
  BY <1>6 DEF Column
<1>8. f \in Row
  BY <1>5, <1>7 DEF Row
<1>. QED BY <1>2, <1>8

\* What update_status makes of a copy.
LEMMA UpdatedType ==
    ASSUME NEW c \in Row, NEW b \in [status: Status, timed: BOOLEAN, error: BOOLEAN]
    PROVE  LET w == Updated(c, b) IN
           /\ w \in Row
           /\ w.status = b.status
           /\ w.reason = c.reason
           /\ c.ended \/ b.status \in Final => w.ended
           /\ c.timed => w.timed
           /\ c.error \/ b.error => w.error
<1>. DEFINE ended == c.ended \/ b.status \in Final
            timed == c.timed \/ b.timed
            error == c.error \/ b.error
<1>1. Updated(c, b) = [c EXCEPT !.status = b.status, !.timed = timed, !.error = error,
                                !.ended = ended]
  BY DEF Updated, Ends
<1>2. ended \in BOOLEAN /\ timed \in BOOLEAN /\ error \in BOOLEAN /\ b.status \in Status
  OBVIOUS
<1>3. /\ c.ended \/ b.status \in Final => ended
      /\ c.timed => timed
      /\ c.error \/ b.error => error
  OBVIOUS
<1>. HIDE DEF ended, timed, error
<1>4. /\ Updated(c, b) \in Row
      /\ Updated(c, b).status = b.status
      /\ Updated(c, b).reason = c.reason
  BY <1>1, <1>2 DEF Row
<1>5. /\ Updated(c, b).ended = ended
      /\ Updated(c, b).timed = timed
      /\ Updated(c, b).error = error
  BY <1>1, <1>2 DEF Row
<1>. QED  BY <1>3, <1>4, <1>5

\* What an update wants is a row in which nothing recorded is taken back.
LEMMA WantedType ==
    ASSUME TypeOK, Control, Copies, NEW x \in Handler,
           handler[x].pc \in {"update", "fail", "escalate"}
    PROVE  LET c == handler[x].seen w == Wanted(x) IN
           /\ c \in Row /\ w \in Row
           /\ c.ended => w.ended
           /\ c.timed => w.timed
           /\ c.error => w.error
           /\ w.reason = c.reason \/ w.reason # "none"
           /\ handler[x].pc = "update" =>
                 /\ w.status = handler[x].callback.status
                 /\ w.status \in Final => w.ended
                 /\ w.reason = c.reason
           /\ handler[x].pc = "fail" =>
                 w.status \in Final /\ w.ended /\ w.error /\ w.reason = c.reason
           /\ handler[x].pc = "escalate" =>
                 /\ w.status = c.status
                 /\ w.ended = c.ended
                 /\ w.reason = IF handler[x].said = "human" THEN "human" ELSE "low_confidence"
<1>1. handler[x] \in Request /\ handler[x].seen \in Row
  BY DEF TypeOK, Copies, Request
<1>2. CASE handler[x].pc = "update"
  <2>1. handler[x].callback \in [status: Status, timed: BOOLEAN, error: BOOLEAN]
    <3>1. handler[x].kind = "status"
      BY <1>1, <1>2 DEF Control, Request
    <3>. QED  BY <3>1, TelephonyAssumption DEF Control
  <2>2. Wanted(x) = Updated(handler[x].seen, handler[x].callback)
    BY <1>2 DEF Wanted
  <2>. QED  BY <1>1, <1>2, <2>1, <2>2, UpdatedType
<1>3. CASE handler[x].pc = "fail"
  <2>1. Wanted(x) = Updated(handler[x].seen, Failure)
    BY <1>3 DEF Wanted
  <2>2. Failure \in [status: Status, timed: BOOLEAN, error: BOOLEAN] /\ Failure.error
        /\ Failure.status \in Final
    BY DEF Failure, Status, Final
  <2>. QED  BY <1>1, <1>3, <2>1, <2>2, UpdatedType
<1>4. CASE handler[x].pc = "escalate"
  <2>1. Wanted(x) = [handler[x].seen EXCEPT
                      !.reason = IF handler[x].said = "human" THEN "human" ELSE "low_confidence"]
    BY <1>4 DEF Wanted
  <2>. QED  BY <1>1, <1>4, <2>1 DEF Row
<1>. QED  BY <1>2, <1>3, <1>4

\* Every write of the row leaves a row, and takes nothing recorded back; a final status
\* it writes has its end, and the reason of an escalation is one.
LEMMA RowWritten ==
    ASSUME TypeOK, Control, Copies, NEW x \in Handler, WritesRow(x)
    PROVE  /\ row' \in Row
           /\ row # NoRow => /\ row.ended => row'.ended
                             /\ row.timed => row'.timed
                             /\ row.error => row'.error
                             /\ row.reason # "none" => row'.reason # "none"
                             /\ row.status \in Final /\ row'.status \notin Final =>
                                  At(x, "update") /\ handler[x].callback.status \notin Final
           /\ At(x, "fail") => row'.error
           /\ At(x, "escalate") => row'.reason # "none"
           /\ row'.status \in Final /\ ~row'.ended =>
                 \/ handler[x].kind = "status" /\ handler[x].pc = "insert"
                       /\ handler[x].callback.status \in Final
                 \/ row # NoRow /\ row.status \in Final /\ ~row.ended
                       /\ ~(At(x, "update") /\ handler[x].callback.status \in Final)
           /\ row'.reason = "low_confidence" =>
                 \/ row # NoRow /\ row.reason = "low_confidence"
                 \/ At(x, "escalate") /\ handler[x].said # "human"
<1>. DEFINE r == handler[x]
<1>0. r \in Request
  BY DEF TypeOK
<1>1. CASE At(x, "insert")
  <2>1. row = NoRow /\ row' = NewRow(IF r.kind = "status" THEN r.callback.status ELSE "in-progress")
    BY <1>1 DEF WritesRow, At
  <2>2. PICK s \in Status :
           /\ row' = NewRow(s)
           /\ s \in Final => r.kind = "status" /\ r.callback.status \in Final
    <3>1. CASE r.kind = "status"
      <4>1. r.callback.status \in Status
        BY <3>1, TelephonyAssumption DEF Control
      <4>. QED  BY <2>1, <3>1, <4>1
    <3>2. CASE r.kind # "status"
      BY <2>1, <3>2 DEF Status, Final
    <3>. QED  BY <3>1, <3>2
  <2>3. /\ row' \in Row /\ row'.reason = "none" /\ row'.status = s
    BY <2>2 DEF NewRow, Row
  <2>. QED  BY <1>1, <2>1, <2>2, <2>3 DEF At
<1>2. CASE r.pc \in {"update", "fail", "escalate"}
  <2>. DEFINE c == r.seen
              w == Wanted(x)
  <2>1. row' = Flush(w, c)
    BY <1>2 DEF WritesRow, At
  <2>2. /\ c \in Row /\ w \in Row
        /\ c.ended => w.ended
        /\ c.timed => w.timed
        /\ c.error => w.error
        /\ w.reason = c.reason \/ w.reason # "none"
        /\ r.pc = "update" =>
              /\ w.status = r.callback.status
              /\ w.status \in Final => w.ended
              /\ w.reason = c.reason
        /\ r.pc = "fail" => w.status \in Final /\ w.ended /\ w.error /\ w.reason = c.reason
        /\ r.pc = "escalate" =>
              /\ w.status = c.status
              /\ w.ended = c.ended
              /\ w.reason = IF r.said = "human" THEN "human" ELSE "low_confidence"
    BY <1>2, WantedType
  <2>3. row # NoRow /\ row \in Row /\ Behind(c, row)
    BY <1>2, <2>2, TelephonyAssumption DEF Copies, TypeOK
  <2>. HIDE DEF w
  <2>4. /\ row' \in Row
        /\ \A k \in Column : row'[k] = IF w[k] # c[k] THEN w[k] ELSE row[k]
    BY <2>1, <2>2, <2>3, FlushType
  <2>5. /\ row'.status = IF w.status # c.status THEN w.status ELSE row.status
        /\ row'.ended = IF w.ended # c.ended THEN w.ended ELSE row.ended
        /\ row'.timed = IF w.timed # c.timed THEN w.timed ELSE row.timed
        /\ row'.error = IF w.error # c.error THEN w.error ELSE row.error
        /\ row'.reason = IF w.reason # c.reason THEN w.reason ELSE row.reason
    BY <2>4, Zenon DEF Column
  <2>6. /\ row.ended => row'.ended
        /\ row.timed => row'.timed
        /\ row.error => row'.error
        /\ w.ended => row'.ended
        /\ w.error => row'.error
    <3>1. \A k \in {"ended", "timed", "error"} :
             /\ c[k] => row[k]
             /\ c[k] => w[k]
             /\ row'[k] = IF w[k] # c[k] THEN w[k] ELSE row[k]
             /\ {c[k], w[k], row[k]} \subseteq BOOLEAN
      BY <2>2, <2>3, <2>5 DEF Row, Behind
    <3>2. \A k \in {"ended", "timed", "error"} : (row[k] => row'[k]) /\ (w[k] => row'[k])
      BY <3>1
    <3>. QED  BY <3>2
  <2>7. /\ row.reason # "none" => row'.reason # "none"
        /\ r.pc = "escalate" => row'.reason # "none"
        /\ row'.reason = "low_confidence" =>
              row.reason = "low_confidence" \/ (r.pc = "escalate" /\ r.said # "human")
    <3>1. c.reason # "none" => row.reason # "none"
      BY <2>3 DEF Behind
    <3>2. row'.reason = IF w.reason # c.reason THEN w.reason ELSE row.reason
      BY <2>5
    <3>3. r.pc # "escalate" => w.reason = c.reason
      BY <1>2, <2>2
    <3>4. r.pc = "escalate" => w.reason = IF r.said = "human" THEN "human" ELSE "low_confidence"
      BY <2>2
    <3>. QED  BY <2>2, <3>1, <3>2, <3>3, <3>4
  <2>8. row'.status \in Final /\ ~row'.ended =>
           /\ row.status \in Final /\ ~row.ended
           /\ ~(r.pc = "update" /\ r.callback.status \in Final)
    BY <1>2, <2>2, <2>5, <2>6
  <2>9. row.status \in Final /\ row'.status \notin Final =>
           r.pc = "update" /\ r.callback.status \notin Final
    BY <1>2, <2>2, <2>5
  <2>. QED  BY <1>2, <2>2, <2>3, <2>4, <2>6, <2>7, <2>8, <2>9 DEF At
<1>. QED  BY <1>1, <1>2 DEF WritesRow, At
--------------------------------------------------------------------------------
(* The conversation in memory *)

\* A conversation that is not in memory is a new one.
LEMMA KnownType ==
    ASSUME NEW s \in Snapshot \cup {NoSnapshot}
    PROVE  /\ Known(s) \in Snapshot
           /\ Known(s).misses \in Nat /\ Known(s).turn \in Nat
  BY DEF Known, Fresh, Snapshot

\* What the three writes of the memory do to the count of misses and the turn number.
LEMMA MemoryWritten ==
    ASSUME TypeOK, NEW x \in Handler, WritesMemory(x)
    PROVE  /\ snapshot' \in Snapshot \cup {NoSnapshot}
           /\ handler[x].pc \in {"miss", "turn", "clear"}
           /\ At(x, "miss") =>
                 /\ snapshot' \in Snapshot
                 /\ snapshot'.misses = Known(handler[x].loaded).misses + 1
                 /\ snapshot'.turn = Known(handler[x].loaded).turn
           /\ At(x, "turn") =>
                 /\ snapshot' \in Snapshot
                 /\ snapshot'.misses = Known(snapshot).misses
                 /\ snapshot'.turn = Known(snapshot).turn + 1
           /\ At(x, "clear") =>
                 /\ Known(snapshot').misses = 0
                 /\ Known(snapshot').turn = Known(snapshot).turn
<1>1. snapshot \in Snapshot \cup {NoSnapshot} /\ handler[x].loaded \in Snapshot \cup {NoSnapshot}
  BY DEF TypeOK, Request
<1>2. CASE At(x, "miss")
  <2>1. snapshot' = [Known(handler[x].loaded) EXCEPT !.misses = @ + 1]
    BY <1>2 DEF WritesMemory, At, Missed
  <2>. QED  BY <1>1, <1>2, <2>1, KnownType DEF At, Snapshot
<1>3. CASE At(x, "turn")
  <2>1. snapshot' = [Known(snapshot) EXCEPT !.turn = @ + 1]
    BY <1>3 DEF WritesMemory, At, Turned
  <2>. QED  BY <1>1, <1>3, <2>1, KnownType DEF At, Snapshot
<1>4. CASE At(x, "clear")
  <2>1. snapshot' = IF snapshot = NoSnapshot THEN snapshot ELSE [snapshot EXCEPT !.misses = 0]
    BY <1>4 DEF WritesMemory, At, Cleared
  <2>2. CASE snapshot = NoSnapshot
    BY <1>4, <2>1, <2>2 DEF At, Known, Fresh
  <2>3. CASE snapshot # NoSnapshot
    <3>1. snapshot \in Snapshot /\ snapshot' = [snapshot EXCEPT !.misses = 0]
      BY <1>1, <2>1, <2>3
    <3>2. snapshot' \in Snapshot /\ snapshot'.misses = 0 /\ snapshot'.turn = snapshot.turn
      BY <3>1 DEF Snapshot
    <3>3. Known(snapshot') = snapshot' /\ Known(snapshot) = snapshot
      BY <2>3, <3>2, TelephonyAssumption DEF Known
    <3>. QED  BY <1>4, <3>2, <3>3 DEF At
  <2>. QED  BY <2>2, <2>3
<1>. QED  BY <1>2, <1>3, <1>4 DEF WritesMemory
--------------------------------------------------------------------------------
(* Types *)

\* A handler without a request.
LEMMA IdleType ==
    Idle \in Request /\ Idle.pc = "idle" /\ Idle.kind = "incoming" /\ Idle.seen = NoRow
  BY DEF Idle, Request, Point, Said

\* A response leaves the caller somewhere, and is awaited by nobody.
LEMMA ReplyType ==
    ASSUME TypeOK, NEW x \in Handler, NEW to \in {"listening", "staff", "left"},
           Reply(x, to) \/ UNCHANGED lineVars
    PROVE  /\ line' \in {"new", "waiting", "listening", "staff", "left"}
           /\ asked' \in Handler \cup {NoHandler}
           /\ line' = "waiting" <=> asked' # NoHandler
  BY TelephonyAssumption DEF TypeOK, Reply, lineVars

\* The audit's variables keep their types.
LEMMA AuditTypeStep ==
    ASSUME TypeOK, NEW x \in Handler, NEW n \in Nat \ {0},
           RecordTurn(x, n) \/ Unrecorded(x) \/ ReadSession(x) \/ UNCHANGED auditVars
    PROVE  AuditTypeOK'
  BY DEF TypeOK, AuditTypeOK, RecordTurn, Unrecorded, ReadSession, auditVars

\* Twilio asks for r: the first time a call comes in or again, for what the caller said,
\* or for nothing, with a callback.
Asks(x, r) ==
    /\ r \in Request /\ r.seen = NoRow
    /\ Ask(x, r)
    /\ \/ /\ r.kind = "incoming" /\ r.pc = "create" /\ missed' = missed
          /\ IF line = "new" THEN line' = "waiting" /\ asked' = x ELSE UNCHANGED lineVars
       \/ /\ r.kind = "speech" /\ r.pc = "find"
          /\ missed' = IF r.said = "unclear" THEN missed + 1 ELSE missed
          /\ line = "listening" /\ line' = "waiting" /\ asked' = x
       \/ /\ r.kind = "status" /\ r.pc = "read" /\ r.callback \in Callback /\ missed' = missed
          /\ line # "new" /\ UNCHANGED lineVars

LEMMA TwilioAsks ==
    ASSUME NEW x \in Handler, Twilio(x)
    PROVE  \E r : Asks(x, r)
<1>1. CASE Ring(x) \/ RingAgain(x)
  <2>. DEFINE r == [Idle EXCEPT !.pc = "create"]
  <2>1. r \in Request /\ r.seen = NoRow /\ r.kind = "incoming" /\ r.pc = "create"
    BY IdleType DEF Request, Point
  <2>2. Ask(x, r)
    BY <1>1 DEF Ring, RingAgain
  <2>. HIDE DEF r
  <2>. QED  BY <1>1, <2>1, <2>2 DEF Ring, RingAgain, Asks, lineVars
<1>2. CASE Speak(x)
  <2>1. PICK said \in Said :
            /\ Ask(x, [Idle EXCEPT !.pc = "find", !.kind = "speech", !.said = said])
            /\ missed' = IF said = "unclear" THEN missed + 1 ELSE missed
    BY <1>2 DEF Speak
  <2>. DEFINE r == [Idle EXCEPT !.pc = "find", !.kind = "speech", !.said = said]
  <2>2. r \in Request /\ r.seen = NoRow /\ r.kind = "speech" /\ r.pc = "find" /\ r.said = said
    BY IdleType DEF Request, Point
  <2>3. Ask(x, r)
    BY <2>1
  <2>. HIDE DEF r
  <2>. QED  BY <1>2, <2>1, <2>2, <2>3 DEF Speak, Asks
<1>3. CASE Report(x)
  <2>1. PICK b \in Callback :
            Ask(x, [Idle EXCEPT !.pc = "read", !.kind = "status", !.callback = b])
    BY <1>3 DEF Report
  <2>. DEFINE r == [Idle EXCEPT !.pc = "read", !.kind = "status", !.callback = b]
  <2>2. r \in Request /\ r.seen = NoRow /\ r.kind = "status" /\ r.pc = "read" /\ r.callback = b
    BY IdleType DEF Request, Point
  <2>3. Ask(x, r)
    BY <2>1
  <2>. HIDE DEF r
  <2>. QED  BY <1>3, <2>1, <2>2, <2>3 DEF Report, Asks, lineVars
<1>. QED  BY <1>1, <1>2, <1>3 DEF Twilio

\* Every step keeps every variable's type.
LEMMA TypeStep == TypeOK /\ Control /\ Copies /\ [Next]_vars => TypeOK'
<1>. SUFFICES ASSUME TypeOK, Control, Copies, [Next]_vars PROVE TypeOK'
  OBVIOUS
<1>. USE TelephonyAssumption
<1>0. /\ handler \in [Handler -> Request]
      /\ 1 \in Nat \ {0}
  BY DEF TypeOK
<1>1. ASSUME NEW x \in Handler, Twilio(x) PROVE TypeOK'
  <2>1. PICK r : Asks(x, r)
    BY <1>1, TwilioAsks
  <2>2. handler' \in [Handler -> Request] /\ requests' \in 0..MaxRequests /\ missed' \in Nat
    BY <1>0, <2>1 DEF Asks, Ask, TypeOK
  <2>3. UNCHANGED <<auditVars, callVars, answered, forgotten, unaudited, torn>>
    BY <2>1 DEF Asks, Ask
  <2>4. (line' = "waiting" /\ asked' = x) \/ UNCHANGED lineVars
    BY <2>1 DEF Asks
  <2>. QED  BY <2>2, <2>3, <2>4 DEF TypeOK, AuditTypeOK, auditVars, callVars, lineVars
<1>2. CASE HangUp \/ Forget
  BY <1>2 DEF TypeOK, HangUp, Forget, AuditTypeOK, auditVars, callVars, historyVars, lineVars
<1>3. ASSUME NEW x \in Handler, Read(x) \/ Create(x) \/ Find(x) \/ Load(x) \/ Fetch(x)
      PROVE  TypeOK'
  <2>1. handler' \in [Handler -> Request]
    BY <1>0, <1>3, IdleType DEF Read, Create, Find, Load, Fetch, Sees, Goto, Done, Request, Point,
       Branch, TypeOK
  <2>2. Reply(x, "listening") \/ Reply(x, "left") \/ UNCHANGED lineVars
    BY <1>3 DEF Read, Create, Find, Load, Fetch
  <2>3. UNCHANGED <<auditVars, callVars, requests, historyVars>>
    BY <1>3 DEF Read, Create, Find, Load, Fetch, NothingWritten
  <2>. QED  BY <2>1, <2>2, <2>3, ReplyType DEF TypeOK, AuditTypeOK, auditVars, callVars, historyVars
<1>4. ASSUME NEW x \in Handler, AuditRead(x) PROVE TypeOK'
  <2>1. handler' \in [Handler -> Request]
    BY <1>0, <1>4 DEF AuditRead, Goto, Request, Point
  <2>2. AuditTypeOK'
    BY <1>0, <1>4, AuditTypeStep DEF AuditRead
  <2>. QED  BY <1>4, <2>1, <2>2 DEF TypeOK, AuditRead, callVars, lineVars, historyVars
<1>5. ASSUME NEW x \in Handler, Insert(x) \/ Update(x) \/ Transfer(x) PROVE TypeOK'
  <2>1. row' \in Row \cup {NoRow}
    BY <1>5, RowWritten DEF TypeOK, Insert, Update, Transfer
  <2>2. handler' \in [Handler -> Request]
    BY <1>0, <1>5, <2>1, IdleType DEF Insert, Update, Transfer, Done, Request, Point
  <2>3. Reply(x, "listening") \/ Reply(x, "left") \/ Reply(x, "staff") \/ UNCHANGED lineVars
    BY <1>5 DEF Insert, Update, Transfer
  <2>4. UNCHANGED <<auditVars, snapshot, requests, historyVars>>
    BY <1>5 DEF Insert, Update, Transfer, lineVars
  <2>. QED  BY <2>1, <2>2, <2>3, <2>4, ReplyType DEF TypeOK, AuditTypeOK, auditVars, historyVars
<1>6. ASSUME NEW x \in Handler, Miss(x) \/ Turn(x) PROVE TypeOK'
  <2>1. snapshot' \in Snapshot \cup {NoSnapshot}
    BY <1>6, MemoryWritten DEF Miss, Turn
  <2>2. handler' \in [Handler -> Request]
    <3>1. CASE Miss(x)
      BY <1>0, <3>1, IdleType DEF Miss, Goto, Done, Request, Point
    <3>2. CASE Turn(x)
      <4>1. PICK r \in {handler[x], Rollback(x)} :
              handler' = [handler EXCEPT ![x] = [r EXCEPT !.pc = "audit", !.loaded = snapshot']]
        BY <3>2 DEF Turn
      <4>2. r \in Request
        BY <1>0 DEF Rollback, Request
      <4>3. [r EXCEPT !.pc = "audit", !.loaded = snapshot'] \in Request
        BY <2>1, <4>2 DEF Request, Point
      <4>. QED  BY <1>0, <4>1, <4>3
    <3>. QED  BY <1>6, <3>1, <3>2
  <2>3. Reply(x, "listening") \/ UNCHANGED lineVars
    BY <1>6 DEF Miss, Turn
  <2>4. UNCHANGED <<auditVars, row, requests, historyVars>>
    BY <1>6 DEF Miss, Turn
  <2>. QED  BY <2>1, <2>2, <2>3, <2>4, ReplyType DEF TypeOK, AuditTypeOK, auditVars, historyVars
<1>7. ASSUME NEW x \in Handler, Record(x) \/ AuditFails(x) PROVE TypeOK'
  <2>1. AuditTypeOK'
    <3>1. CASE Record(x)
      <4>1. handler[x].loaded.turn \in Nat \ {0}
        BY <3>1 DEF Record, At, Control, Snapshot
      <4>. QED  BY <3>1, <4>1, AuditTypeStep DEF Record
    <3>2. CASE AuditFails(x)
      BY <1>0, <3>2, AuditTypeStep DEF AuditFails
    <3>. QED  BY <1>7, <3>1, <3>2
  <2>2. handler' \in [Handler -> Request]
    <3>1. CASE Record(x)
      BY <1>0, <3>1 DEF Record, Goto, Request, Point
    <3>2. CASE AuditFails(x)
      <4>1. [Rollback(x) EXCEPT !.pc = "clear"] \in Request
        BY <1>0 DEF Rollback, Request, Point
      <4>. QED  BY <1>0, <3>2, <4>1 DEF AuditFails
    <3>. QED  BY <1>7, <3>1, <3>2
  <2>. QED  BY <1>7, <2>1, <2>2 DEF TypeOK, Record, AuditFails, callVars, lineVars, historyVars
<1>8. ASSUME NEW x \in Handler, Clear(x) PROVE TypeOK'
  <2>1. snapshot' \in Snapshot \cup {NoSnapshot}
    BY <1>8, MemoryWritten DEF Clear
  <2>2. handler' \in [Handler -> Request]
    BY <1>0, <1>8, IdleType DEF Clear, Done
  <2>3. answered' \in Seq(Nat) /\ missed' \in Nat
    BY <1>8 DEF TypeOK, Clear, At, Control, Snapshot
  <2>4. Reply(x, "listening") /\ UNCHANGED <<auditVars, row, requests, forgotten, unaudited, torn>>
    BY <1>8 DEF Clear
  <2>. QED  BY <2>1, <2>2, <2>3, <2>4, ReplyType DEF TypeOK, AuditTypeOK, auditVars
<1>9. ASSUME NEW x \in Handler, HalfDone(x)
      PROVE  AuditTypeOK' /\ row' \in Row \cup {NoRow} /\ snapshot' \in Snapshot \cup {NoSnapshot}
  BY <1>0, <1>9, AuditTypeStep, RowWritten, MemoryWritten DEF TypeOK, HalfDone, callVars
<1>10. ASSUME NEW x \in Handler, Fails(x) PROVE TypeOK'
  <2>1. handler' \in [Handler -> Request]
    BY <1>0, <1>10 DEF Fails, Rollback, Request, Point
  <2>. QED  BY <1>9, <1>10, <2>1 DEF TypeOK, Fails, lineVars, historyVars
<1>11. ASSUME NEW x \in Handler, Breaks(x) PROVE TypeOK'
  <2>1. AuditTypeOK' /\ row' \in Row \cup {NoRow} /\ snapshot' \in Snapshot \cup {NoSnapshot}
    <3>1. CASE HalfDone(x)
      BY <1>9, <3>1
    <3>2. CASE At(x, "record") /\ RecordTurn(x, handler[x].loaded.turn) /\ UNCHANGED callVars
      <4>1. handler[x].loaded.turn \in Nat \ {0}
        BY <3>2 DEF At, Control, Snapshot
      <4>. QED  BY <3>2, <4>1, AuditTypeStep DEF TypeOK, callVars
    <3>. QED  BY <1>11, <3>1, <3>2 DEF Breaks
  <2>2. handler' \in [Handler -> Request]
    BY <1>0, <1>11, IdleType DEF Breaks, Done
  <2>3. torn' \in BOOLEAN
    BY <1>11 DEF Breaks
  <2>4. Reply(x, "left") /\ UNCHANGED <<requests, missed, answered, forgotten, unaudited>>
    BY <1>11 DEF Breaks
  <2>. QED  BY <2>1, <2>2, <2>3, <2>4, ReplyType DEF TypeOK
<1>12. CASE UNCHANGED vars
  BY <1>12 DEF TypeOK, AuditTypeOK, vars, auditVars, callVars, lineVars, historyVars
<1>. QED
  BY <1>1, <1>2, <1>3, <1>4, <1>5, <1>6, <1>7, <1>8, <1>10, <1>11, <1>12 DEF Next, Webhook
--------------------------------------------------------------------------------
(* The way of a request *)

\* Request q goes on as r: to the next point of its kind, with what it was given.
Onward(q, r) ==
    /\ r.kind = q.kind /\ r.said = q.said /\ r.callback = q.callback
    /\ \/ q.pc = "read" /\ r.pc \in {"create", "update"}
       \/ q.pc = "create" /\ r.pc = "insert"
       \/ q.pc \in {"create", "insert"} /\ r.pc = "update" /\ q.kind = "status"
       \/ q.pc = "find" /\ r.pc = "load"
       \/ q.pc = "load" /\ r.pc = Branch(q.said) /\ q.said # "goodbye"
       \/ q.pc = "miss" /\ r.pc = "escalate"
       \/ q.pc = "turn" /\ r.pc = "audit"
       \/ q.pc = "audit" /\ r.pc \in {"record", "clear"}
       \/ q.pc = "record" /\ r.pc = "clear"
       \/ q.pc \in {"turn", "audit", "record", "clear"} /\ r.pc = "fetch"
       \/ q.pc = "fetch" /\ r.pc = "fail"
    /\ r.pc \in {"record", "clear"} => r.loaded = q.loaded
    /\ r.pc = "audit" => r.loaded \in Snapshot /\ r.loaded.turn > 0

\* A request goes on, and Twilio waits; or it ends, and Twilio waits for it no more.
Moves(x, r) ==
    /\ r \in Request
    /\ handler' = [handler EXCEPT ![x] = r]
    /\ handler[x].pc # "idle"
    /\ \/ Onward(handler[x], r) /\ UNCHANGED lineVars
       \/ /\ r = Idle
          /\ IF asked = x THEN asked' = NoHandler /\ line' \in {"listening", "staff", "left"}
                          ELSE UNCHANGED lineVars

\* The end of a request.
LEMMA RequestEnds ==
    ASSUME TypeOK, Control, NEW x \in Handler, handler[x].pc # "idle", Done(x),
           NEW to \in {"listening", "staff", "left"},
           Reply(x, to) \/ (UNCHANGED lineVars /\ handler[x].kind = "status")
    PROVE  Moves(x, Idle)
  BY IdleType, TelephonyAssumption DEF Control, Done, Reply, lineVars, Moves

\* One step of a request.
LEMMA WebhookMoves ==
    ASSUME TypeOK, Control, TypeOK', NEW x \in Handler, Webhook(x)
    PROVE  \E r : Moves(x, r)
<1>0. /\ handler[x] \in Request /\ handler'[x] \in Request
      /\ handler \in [Handler -> Request] /\ handler' \in [Handler -> Request]
  BY DEF TypeOK
<1>1. ASSUME NEW r, handler' = [handler EXCEPT ![x] = r], handler[x].pc # "idle",
             Onward(handler[x], r), UNCHANGED lineVars
      PROVE  Moves(x, r)
  BY <1>0, <1>1 DEF Moves
<1>2. CASE Read(x)
  <2>1. PICK p \in {"create", "update"} :
            handler' = [handler EXCEPT ![x] = [handler[x] EXCEPT !.pc = p, !.seen = row]]
    BY <1>0, <1>2 DEF Read, Sees
  <2>2. Onward(handler[x], [handler[x] EXCEPT !.pc = p, !.seen = row])
    BY <1>0, <1>2 DEF Onward, Read, At, Request
  <2>. QED  BY <1>1, <1>2, <2>1, <2>2 DEF Read, At
<1>3. CASE Create(x)
  <2>1. CASE row = NoRow
    <3>1. handler' = [handler EXCEPT ![x] = [handler[x] EXCEPT !.pc = "insert"]]
      BY <1>3, <2>1 DEF Create, Goto
    <3>2. Onward(handler[x], [handler[x] EXCEPT !.pc = "insert"])
      BY <1>0, <1>3 DEF Onward, Create, At, Request
    <3>. QED  BY <1>1, <1>3, <2>1, <3>1, <3>2 DEF Create, At
  <2>2. CASE row # NoRow /\ handler[x].kind = "status"
    <3>1. handler' = [handler EXCEPT ![x] = [handler[x] EXCEPT !.pc = "update", !.seen = row]]
      BY <1>0, <1>3, <2>2 DEF Create, Sees
    <3>2. Onward(handler[x], [handler[x] EXCEPT !.pc = "update", !.seen = row])
      BY <1>0, <1>3, <2>2 DEF Onward, Create, At, Request
    <3>. QED  BY <1>1, <1>3, <2>2, <3>1, <3>2 DEF Create, At
  <2>3. CASE row # NoRow /\ handler[x].kind # "status"
    BY <1>3, <2>3, RequestEnds DEF Create, At
  <2>. QED  BY <2>1, <2>2, <2>3
<1>4. CASE Find(x)
  <2>1. CASE row = NoRow
    BY <1>4, <2>1, RequestEnds DEF Find, At
  <2>2. CASE row # NoRow
    <3>1. handler' = [handler EXCEPT ![x] = [handler[x] EXCEPT !.pc = "load", !.seen = row]]
      BY <1>0, <1>4, <2>2 DEF Find, Sees
    <3>2. Onward(handler[x], [handler[x] EXCEPT !.pc = "load", !.seen = row])
      BY <1>0, <1>4 DEF Onward, Find, At, Request
    <3>. QED  BY <1>1, <1>4, <2>2, <3>1, <3>2 DEF Find, At
  <2>. QED  BY <2>1, <2>2
<1>5. CASE Load(x)
  <2>. DEFINE p == Branch(handler[x].said)
  <2>1. CASE p = "goodbye"
    BY <1>5, <2>1, RequestEnds DEF Load, At
  <2>2. CASE p # "goodbye"
    <3>0. handler[x].said # "goodbye" /\ p \in {"miss", "escalate", "turn"}
      BY <1>0, <2>2 DEF Branch, Request, Said
    <3>1. handler' = [handler EXCEPT ![x] = [handler[x] EXCEPT !.pc = p, !.loaded = snapshot]]
      BY <1>0, <1>5, <2>2 DEF Load
    <3>2. handler[x].pc = "load" /\ UNCHANGED lineVars /\ p = Branch(handler[x].said)
      BY <1>5, <2>2 DEF Load, At
    <3>. HIDE DEF p
    <3>3. Onward(handler[x], [handler[x] EXCEPT !.pc = p, !.loaded = snapshot])
      BY <1>0, <3>0, <3>2 DEF Onward, Request
    <3>. QED  BY <1>1, <3>1, <3>2, <3>3
  <2>. QED  BY <2>1, <2>2
<1>6. CASE Fetch(x)
  <2>1. PICK s \in {row, handler[x].seen} :
            handler' = [handler EXCEPT ![x] = [handler[x] EXCEPT !.pc = "fail", !.seen = s]]
    <3>1. [handler[x] EXCEPT !.pc = "fail"]
             = [handler[x] EXCEPT !.pc = "fail", !.seen = handler[x].seen]
      BY <1>0 DEF Request
    <3>. QED  BY <1>0, <1>6, <3>1 DEF Fetch, Sees, Goto
  <2>2. Onward(handler[x], [handler[x] EXCEPT !.pc = "fail", !.seen = s])
    BY <1>0, <1>6 DEF Onward, Fetch, At, Request
  <2>. QED  BY <1>1, <1>6, <2>1, <2>2 DEF Fetch, At
<1>7. CASE AuditRead(x)
  <2>1. handler' = [handler EXCEPT ![x] = [handler[x] EXCEPT !.pc = "record"]]
    BY <1>7 DEF AuditRead, Goto
  <2>2. Onward(handler[x], [handler[x] EXCEPT !.pc = "record"])
    BY <1>0, <1>7 DEF Onward, AuditRead, At, Request
  <2>. QED  BY <1>1, <1>7, <2>1, <2>2 DEF AuditRead, At
<1>8. CASE Insert(x)
  <2>1. CASE row = NoRow /\ handler[x].kind = "status"
    <3>1. handler' = [handler EXCEPT ![x] = [handler[x] EXCEPT !.pc = "update", !.seen = row']]
      BY <1>0, <1>8, <2>1 DEF Insert
    <3>2. Onward(handler[x], [handler[x] EXCEPT !.pc = "update", !.seen = row'])
      BY <1>0, <1>8, <2>1 DEF Onward, Insert, At, Request
    <3>. QED  BY <1>1, <1>8, <2>1, <3>1, <3>2 DEF Insert, At
  <2>2. CASE ~(row = NoRow /\ handler[x].kind = "status")
    BY <1>8, <2>2, RequestEnds DEF Insert, At
  <2>. QED  BY <2>1, <2>2
<1>9. CASE Update(x)
  <2>1. handler[x].kind = "status"
    BY <1>0, <1>9 DEF Update, At, Control, Request
  <2>. QED  BY <1>9, <2>1, RequestEnds DEF Update, At
<1>10. CASE Transfer(x) \/ Clear(x) \/ Breaks(x)
  BY <1>10, RequestEnds DEF Transfer, Clear, Breaks, At
<1>11. CASE Miss(x)
  <2>1. CASE TooMany(snapshot'.misses)
    <3>1. handler' = [handler EXCEPT ![x] = [handler[x] EXCEPT !.pc = "escalate"]]
      BY <1>11, <2>1 DEF Miss, Goto
    <3>2. Onward(handler[x], [handler[x] EXCEPT !.pc = "escalate"])
      BY <1>0, <1>11 DEF Onward, Miss, At, Request
    <3>. QED  BY <1>1, <1>11, <2>1, <3>1, <3>2 DEF Miss, At
  <2>2. CASE ~TooMany(snapshot'.misses)
    BY <1>11, <2>2, RequestEnds DEF Miss, At
  <2>. QED  BY <2>1, <2>2
<1>12. CASE Turn(x)
  <2>1. PICK s \in {handler[x].seen, NoRow} :
            handler' = [handler EXCEPT ![x] =
                           [handler[x] EXCEPT !.pc = "audit", !.seen = s, !.loaded = snapshot']]
    <3>1. [handler[x] EXCEPT !.pc = "audit", !.loaded = snapshot']
            = [handler[x] EXCEPT !.pc = "audit", !.seen = handler[x].seen, !.loaded = snapshot']
      BY <1>0 DEF Request
    <3>2. [Rollback(x) EXCEPT !.pc = "audit", !.loaded = snapshot']
            = [handler[x] EXCEPT !.pc = "audit", !.seen = NoRow, !.loaded = snapshot']
      BY <1>0 DEF Request, Rollback
    <3>. QED  BY <1>0, <1>12, <3>1, <3>2 DEF Turn
  <2>2. snapshot' \in Snapshot /\ snapshot'.turn > 0 /\ handler[x].pc = "turn"
    <3>1. At(x, "turn") /\ WritesMemory(x) /\ snapshot \in Snapshot \cup {NoSnapshot}
      BY <1>12 DEF Turn, TypeOK
    <3>. QED  BY <3>1, MemoryWritten, KnownType DEF At
  <2>3. Onward(handler[x], [handler[x] EXCEPT !.pc = "audit", !.seen = s, !.loaded = snapshot'])
    BY <1>0, <2>2 DEF Onward, Request
  <2>. QED  BY <1>1, <1>12, <2>1, <2>2, <2>3 DEF Turn
<1>13. CASE Record(x)
  <2>1. handler' = [handler EXCEPT ![x] = [handler[x] EXCEPT !.pc = "clear"]]
    BY <1>13 DEF Record, Goto
  <2>2. Onward(handler[x], [handler[x] EXCEPT !.pc = "clear"])
    BY <1>0, <1>13 DEF Onward, Record, At, Request
  <2>. QED  BY <1>1, <1>13, <2>1, <2>2 DEF Record, At
<1>14. CASE AuditFails(x)
  <2>1. [Rollback(x) EXCEPT !.pc = "clear"] = [handler[x] EXCEPT !.pc = "clear", !.seen = NoRow]
    BY <1>0 DEF Request, Rollback
  <2>2. Onward(handler[x], [handler[x] EXCEPT !.pc = "clear", !.seen = NoRow])
    BY <1>0, <1>14 DEF Onward, AuditFails, Request
  <2>. QED  BY <1>1, <1>14, <2>1, <2>2 DEF AuditFails
<1>15. CASE Fails(x)
  <2>1. PICK s \in {handler[x].seen, NoRow} :
            handler' = [handler EXCEPT ![x] = [handler[x] EXCEPT !.pc = "fetch", !.seen = s]]
    <3>1. [handler[x] EXCEPT !.pc = "fetch"]
            = [handler[x] EXCEPT !.pc = "fetch", !.seen = handler[x].seen]
      BY <1>0 DEF Request
    <3>2. [Rollback(x) EXCEPT !.pc = "fetch"] = [handler[x] EXCEPT !.pc = "fetch", !.seen = NoRow]
      BY <1>0 DEF Request, Rollback
    <3>. QED  BY <1>0, <1>15, <3>1, <3>2 DEF Fails
  <2>2. Onward(handler[x], [handler[x] EXCEPT !.pc = "fetch", !.seen = s])
    BY <1>0, <1>15 DEF Onward, Fails, Request
  <2>. QED  BY <1>1, <1>15, <2>1, <2>2 DEF Fails
<1>. QED
  BY <1>2, <1>3, <1>4, <1>5, <1>6, <1>7, <1>8, <1>9, <1>10, <1>11, <1>12, <1>13, <1>14, <1>15
     DEF Webhook

\* Every step keeps each request on its way.
LEMMA ControlStep == TypeOK /\ Control /\ [Next]_vars /\ TypeOK' => Control'
<1>. SUFFICES ASSUME TypeOK, Control, [Next]_vars, TypeOK' PROVE Control'
  OBVIOUS
<1>0. handler \in [Handler -> Request]
  BY DEF TypeOK
<1>1. ASSUME NEW x \in Handler, Twilio(x) PROVE Control'
  <2>1. PICK r : Asks(x, r)
    BY <1>1, TwilioAsks
  <2>2. handler' = [handler EXCEPT ![x] = r] /\ handler[x].pc = "idle"
    BY <2>1 DEF Asks, Ask, At
  <2>. QED  BY <1>0, <2>1, <2>2 DEF Control, Asks, lineVars
<1>2. CASE HangUp
  BY <1>2, TelephonyAssumption DEF HangUp, Control
<1>3. CASE Forget
  BY <1>3 DEF Forget, Control, lineVars
<1>4. ASSUME NEW x \in Handler, Webhook(x) PROVE Control'
  <2>1. PICK r : Moves(x, r)
    BY <1>4, WebhookMoves
  <2>2. handler' = [handler EXCEPT ![x] = r] /\ handler[x] \in Request /\ r \in Request
    BY <1>0, <2>1 DEF Moves
  <2>3. CASE r = Idle
    BY <1>0, <2>1, <2>2, <2>3, IdleType, TelephonyAssumption DEF Control, Moves, lineVars, Onward
  <2>4. CASE Onward(handler[x], r) /\ UNCHANGED lineVars
    BY <1>0, <2>1, <2>2, <2>4 DEF Control, lineVars, Onward, Branch, Request, Said, Point
  <2>. QED  BY <2>1, <2>3, <2>4 DEF Moves
<1>5. CASE UNCHANGED vars
  BY <1>5 DEF vars, Control, lineVars
<1>. QED  BY <1>1, <1>2, <1>3, <1>4, <1>5 DEF Next

\* Every step leaves one speech request, which Twilio waits for while the caller is there.
LEMMA SpeakerStep ==
    TypeOK /\ Control /\ OneSpeaker /\ [Next]_vars /\ TypeOK' => OneSpeaker'
<1>. SUFFICES ASSUME TypeOK, Control, OneSpeaker, [Next]_vars, TypeOK' PROVE OneSpeaker'
  OBVIOUS
<1>0. handler \in [Handler -> Request] /\ (line = "waiting" <=> asked # NoHandler)
  BY DEF TypeOK
<1>1. ASSUME NEW x \in Handler, Twilio(x) PROVE OneSpeaker'
  <2>1. PICK r : Asks(x, r)
    BY <1>1, TwilioAsks
  <2>2. handler' = [handler EXCEPT ![x] = r]
    BY <2>1 DEF Asks, Ask, At
  <2>. QED  BY <1>0, <2>1, <2>2, TelephonyAssumption DEF OneSpeaker, Speaks, Asks, lineVars
<1>2. CASE HangUp
  BY <1>2, <1>0 DEF HangUp, OneSpeaker, Speaks
<1>3. CASE Forget
  BY <1>3 DEF Forget, OneSpeaker, Speaks, lineVars
<1>4. ASSUME NEW x \in Handler, Webhook(x) PROVE OneSpeaker'
  <2>1. PICK r : Moves(x, r)
    BY <1>4, WebhookMoves
  <2>2. handler' = [handler EXCEPT ![x] = r] /\ (r.kind = handler[x].kind \/ r.kind = "incoming")
    BY <1>0, <2>1, IdleType DEF Moves, Onward
  <2>3. \A y \in Handler : Speaks(y)' => Speaks(y)
    BY <1>0, <2>2 DEF Speaks
  <2>4. \A y \in Handler : Speaks(y)' => asked' = y \/ line' = "left"
    <3>1. CASE r = Idle
      <4>1. \A y \in Handler : Speaks(y)' => y # x
        BY <1>0, <2>2, <3>1, IdleType DEF Speaks
      <4>2. asked # x => UNCHANGED lineVars
        BY <2>1 DEF Moves
      <4>3. line = "left" => asked # x
        BY <1>0, TelephonyAssumption
      <4>. QED  BY <2>3, <4>1, <4>2, <4>3 DEF OneSpeaker, lineVars
    <3>2. CASE UNCHANGED lineVars
      BY <2>3, <3>2 DEF OneSpeaker, lineVars
    <3>. QED  BY <2>1, <3>1, <3>2 DEF Moves
  <2>. QED  BY <2>3, <2>4 DEF OneSpeaker
<1>5. CASE UNCHANGED vars
  BY <1>5 DEF vars, OneSpeaker, Speaks, lineVars
<1>. QED  BY <1>1, <1>2, <1>3, <1>4, <1>5 DEF Next
--------------------------------------------------------------------------------
(* Copies of the row *)

\* A webhook's step leaves the row alone, or is its write.
LEMMA WritesOnly ==
    ASSUME NEW x \in Handler, Webhook(x)
    PROVE  row' = row \/ WritesRow(x)
<1>1. CASE Read(x) \/ Create(x) \/ Find(x) \/ Load(x) \/ Fetch(x) \/ AuditRead(x)
  BY <1>1 DEF Read, Create, Find, Load, Fetch, AuditRead, NothingWritten, callVars
<1>2. CASE Insert(x) \/ Update(x) \/ Transfer(x)
  BY <1>2 DEF Insert, Update, Transfer
<1>3. CASE Miss(x) \/ Turn(x) \/ Record(x) \/ AuditFails(x) \/ Clear(x)
  BY <1>3 DEF Miss, Turn, Record, AuditFails, Clear, callVars
<1>4. CASE Fails(x) \/ Breaks(x)
  BY <1>4 DEF Fails, Breaks, HalfDone, callVars
<1>. QED  BY <1>1, <1>2, <1>3, <1>4 DEF Webhook

\* A step leaves the row alone, or is the write of one request.
LEMMA RowSteps ==
    ASSUME [Next]_vars
    PROVE  row' = row \/ \E x \in Handler : Webhook(x) /\ WritesRow(x)
<1>1. ASSUME NEW x \in Handler, Twilio(x) PROVE row' = row
  <2>1. PICK r : Ask(x, r)
    BY <1>1, TwilioAsks DEF Asks
  <2>. QED  BY <2>1 DEF Ask, callVars
<1>2. CASE HangUp \/ Forget \/ UNCHANGED vars
  BY <1>2 DEF HangUp, Forget, vars, callVars
<1>. QED  BY <1>1, <1>2, WritesOnly DEF Next

\* No step takes back what the row has.
LEMMA RowGrows ==
    ASSUME TypeOK, Control, Copies, [Next]_vars, row # NoRow
    PROVE  /\ row' # NoRow
           /\ Behind(row, row')
<1>1. CASE row' = row
  BY <1>1 DEF Behind
<1>2. ASSUME NEW x \in Handler, WritesRow(x) PROVE row' # NoRow /\ Behind(row, row')
  BY <1>2, RowWritten, TelephonyAssumption DEF Behind
<1>. QED  BY <1>1, <1>2, RowSteps

\* What is behind one row is behind the next.
LEMMA StaysBehind ==
    ASSUME NEW c, NEW r, NEW s, Behind(c, r), Behind(r, s)
    PROVE  Behind(c, s)
  BY DEF Behind

\* The copy a request has after its step is the one it had, or of the row as it is now; and
\* it has one when it is to write.
LEMMA CopyTaken ==
    ASSUME TypeOK, Control, Copies, NEW x \in Handler, Webhook(x)
    PROVE  LET r == handler'[x] IN
           /\ r.seen \in {handler[x].seen, row', NoRow}
           /\ r.pc \in {"update", "load", "miss", "escalate", "fail"} =>
                 \/ r.seen = handler[x].seen /\ r.seen # NoRow
                 \/ r.seen = row' /\ row' # NoRow
           /\ r.pc \in {"turn", "audit", "record", "clear", "fetch"} => row # NoRow
<1>0. /\ handler \in [Handler -> Request] /\ handler[x] \in Request
      /\ row \in Row \cup {NoRow}
  BY DEF TypeOK
<1>1. CASE handler' = [handler EXCEPT ![x] = Idle]
  BY <1>0, <1>1, IdleType
<1>2. CASE Read(x)
  <2>1. handler' = [handler EXCEPT ![x].pc = IF row = NoRow THEN "create" ELSE "update",
                                   ![x].seen = row]
        /\ row' = row
    BY <1>2 DEF Read, Sees, NothingWritten, callVars
  <2>. QED  BY <1>0, <2>1 DEF Request
<1>3. CASE Create(x)
  <2>1. CASE row = NoRow
    <3>1. handler' = [handler EXCEPT ![x].pc = "insert"]
      BY <1>3, <2>1 DEF Create, Goto
    <3>. QED  BY <1>0, <3>1 DEF Request
  <2>2. CASE row # NoRow /\ handler[x].kind = "status"
    <3>1. handler' = [handler EXCEPT ![x].pc = "update", ![x].seen = row] /\ row' = row
      BY <1>3, <2>2 DEF Create, Sees, NothingWritten, callVars
    <3>. QED  BY <1>0, <2>2, <3>1 DEF Request
  <2>3. CASE row # NoRow /\ handler[x].kind # "status"
    BY <1>1, <1>3, <2>3 DEF Create, Done
  <2>. QED  BY <2>1, <2>2, <2>3
<1>4. CASE Find(x)
  <2>1. CASE row = NoRow
    BY <1>1, <1>4, <2>1 DEF Find, Done
  <2>2. CASE row # NoRow
    <3>1. handler' = [handler EXCEPT ![x].pc = "load", ![x].seen = row] /\ row' = row
      BY <1>4, <2>2 DEF Find, Sees, NothingWritten, callVars
    <3>. QED  BY <1>0, <2>2, <3>1 DEF Request
  <2>. QED  BY <2>1, <2>2
<1>5. CASE Load(x)
  <2>. DEFINE p == Branch(handler[x].said)
  <2>1. handler[x].seen # NoRow /\ row # NoRow
    BY <1>5 DEF Load, At, Copies
  <2>2. CASE p = "goodbye"
    BY <1>1, <1>5, <2>2 DEF Load, Done
  <2>3. CASE p # "goodbye"
    <3>1. handler' = [handler EXCEPT ![x].pc = p, ![x].loaded = snapshot]
      BY <1>5, <2>3 DEF Load
    <3>. HIDE DEF p
    <3>. QED  BY <1>0, <2>1, <3>1 DEF Request
  <2>. QED  BY <2>2, <2>3
<1>6. CASE Fetch(x)
  <2>1. row # NoRow /\ row' = row
    BY <1>6 DEF Fetch, At, Copies, NothingWritten, callVars
  <2>2. CASE handler[x].seen = NoRow
    <3>1. handler' = [handler EXCEPT ![x].pc = "fail", ![x].seen = row]
      BY <1>6, <2>2 DEF Fetch, Sees
    <3>. QED  BY <1>0, <2>1, <3>1 DEF Request
  <2>3. CASE handler[x].seen # NoRow
    <3>1. handler' = [handler EXCEPT ![x].pc = "fail"]
      BY <1>6, <2>3 DEF Fetch, Goto
    <3>. QED  BY <1>0, <2>3, <3>1 DEF Request
  <2>. QED  BY <2>2, <2>3
<1>7. CASE AuditRead(x) \/ Record(x)
  <2>1. PICK p \in {"record", "clear"} : handler' = [handler EXCEPT ![x].pc = p]
    BY <1>7 DEF AuditRead, Record, Goto
  <2>2. row # NoRow
    BY <1>7 DEF AuditRead, Record, At, Copies
  <2>. QED  BY <1>0, <2>1, <2>2 DEF Request
<1>8. CASE Insert(x)
  <2>1. CASE row = NoRow /\ handler[x].kind = "status"
    <3>1. handler' = [handler EXCEPT ![x].pc = "update", ![x].seen = row'] /\ WritesRow(x)
      BY <1>8, <2>1 DEF Insert
    <3>2. row' # NoRow
      BY <3>1, RowWritten, TelephonyAssumption
    <3>. QED  BY <1>0, <3>1, <3>2 DEF Request
  <2>2. CASE ~(row = NoRow /\ handler[x].kind = "status")
    BY <1>1, <1>8, <2>2 DEF Insert, Done
  <2>. QED  BY <2>1, <2>2
<1>9. CASE Update(x) \/ Transfer(x) \/ Clear(x) \/ Breaks(x)
  BY <1>1, <1>9 DEF Update, Transfer, Clear, Breaks, Done
<1>10. CASE Miss(x)
  <2>1. handler[x].seen # NoRow /\ row' = row
    BY <1>10 DEF Miss, At, Copies
  <2>2. CASE TooMany(snapshot'.misses)
    <3>1. handler' = [handler EXCEPT ![x].pc = "escalate"]
      BY <1>10, <2>2 DEF Miss, Goto
    <3>. QED  BY <1>0, <2>1, <3>1 DEF Request
  <2>3. CASE ~TooMany(snapshot'.misses)
    BY <1>1, <1>10, <2>3 DEF Miss, Done
  <2>. QED  BY <2>2, <2>3
<1>11. CASE Turn(x) \/ AuditFails(x) \/ Fails(x)
  <2>1. row # NoRow
    BY <1>11 DEF Turn, AuditFails, Fails, At, Copies
  <2>2. ASSUME NEW q \in {handler[x], Rollback(x)}, NEW p \in {"audit", "clear", "fetch"}, NEW l,
               handler' = [handler EXCEPT ![x] = [q EXCEPT !.pc = p]]
                 \/ handler' = [handler EXCEPT ![x] = [q EXCEPT !.pc = p, !.loaded = l]]
        PROVE  handler'[x].pc = p /\ handler'[x].seen \in {handler[x].seen, NoRow}
    <3>1. q \in Request /\ q.seen \in {handler[x].seen, NoRow}
      BY <1>0 DEF Rollback, Request
    <3>2. handler'[x] = [q EXCEPT !.pc = p] \/ handler'[x] = [q EXCEPT !.pc = p, !.loaded = l]
      BY <1>0, <2>2
    <3>. QED  BY <3>1, <3>2 DEF Request
  <2>3. CASE Turn(x)
    <3>1. PICK q \in {handler[x], Rollback(x)} :
            handler' = [handler EXCEPT ![x] = [q EXCEPT !.pc = "audit", !.loaded = snapshot']]
      BY <2>3 DEF Turn
    <3>. QED  BY <2>1, <2>2, <3>1
  <2>4. CASE AuditFails(x)
    <3>1. handler' = [handler EXCEPT ![x] = [Rollback(x) EXCEPT !.pc = "clear"]]
      BY <2>4 DEF AuditFails
    <3>. QED  BY <2>1, <2>2, <3>1
  <2>5. CASE Fails(x)
    <3>1. PICK q \in {handler[x], Rollback(x)} :
            handler' = [handler EXCEPT ![x] = [q EXCEPT !.pc = "fetch"]]
      BY <2>5 DEF Fails
    <3>. QED  BY <2>1, <2>2, <3>1
  <2>. QED  BY <1>11, <2>3, <2>4, <2>5
<1>. QED
  BY <1>2, <1>3, <1>4, <1>5, <1>6, <1>7, <1>8, <1>9, <1>10, <1>11 DEF Webhook

\* Every step leaves the copies behind the row.
LEMMA CopiesStep == TypeOK /\ Control /\ Copies /\ [Next]_vars /\ TypeOK' => Copies'
<1>. DEFINE Holds(q, w) ==
       /\ q.pc \in {"update", "load", "miss", "escalate", "fail"} => q.seen # NoRow
       /\ q.pc \in {"turn", "audit", "record", "clear", "fetch"} => w # NoRow
       /\ q.seen # NoRow => w # NoRow /\ Behind(q.seen, w)
<1>. SUFFICES ASSUME TypeOK, Control, Copies, [Next]_vars, TypeOK', NEW y \in Handler
              PROVE  Holds(handler'[y], row')
  BY DEF Copies
<1>0. handler \in [Handler -> Request] /\ Holds(handler[y], row)
  BY DEF TypeOK, Copies
<1>1. row # NoRow => row' # NoRow /\ Behind(row, row')
  BY RowGrows
<1>2. \A c : row # NoRow /\ Behind(c, row) => row' # NoRow /\ Behind(c, row')
  BY <1>1, StaysBehind
<1>3. CASE handler'[y] = handler[y]
  BY <1>0, <1>1, <1>2, <1>3
<1>4. ASSUME Twilio(y) PROVE Holds(handler'[y], row')
  <2>1. PICK r : Asks(y, r)
    BY <1>4, TwilioAsks
  <2>2. handler'[y].pc \in {"create", "find", "read"} /\ handler'[y].seen = NoRow
    BY <1>0, <2>1 DEF Asks, Ask
  <2>. QED  BY <2>2
<1>5. CASE Webhook(y)
  <2>1. /\ handler'[y].seen \in {handler[y].seen, row', NoRow}
        /\ handler'[y].pc \in {"update", "load", "miss", "escalate", "fail"} =>
              \/ handler'[y].seen = handler[y].seen /\ handler'[y].seen # NoRow
              \/ handler'[y].seen = row' /\ row' # NoRow
        /\ handler'[y].pc \in {"turn", "audit", "record", "clear", "fetch"} => row # NoRow
    BY <1>5, CopyTaken
  <2>2. Behind(row', row')
    BY DEF Behind
  <2>. QED  BY <1>0, <1>1, <1>2, <2>1, <2>2
<1>6. ASSUME NEW x \in Handler, x # y, Twilio(x) \/ Webhook(x) PROVE handler'[y] = handler[y]
  <2>1. CASE Webhook(x)
    BY <1>0, <1>6, <2>1, WebhookMoves DEF Moves
  <2>2. CASE Twilio(x)
    BY <1>0, <1>6, <2>2, TwilioAsks DEF Asks, Ask
  <2>. QED  BY <1>6, <2>1, <2>2
<1>7. CASE HangUp \/ Forget \/ UNCHANGED vars
  <2>1. handler' = handler
    BY <1>7 DEF HangUp, Forget, vars
  <2>. QED  BY <1>3, <2>1
<1>. QED  BY <1>3, <1>4, <1>5, <1>6, <1>7 DEF Next
--------------------------------------------------------------------------------
(* What a webhook's step does besides moving its request *)

\* Where each step is taken.
LEMMA Guards ==
    ASSUME NEW x \in Handler
    PROVE  /\ Read(x) => At(x, "read")
           /\ Create(x) => At(x, "create")
           /\ Find(x) => At(x, "find")
           /\ Load(x) => At(x, "load")
           /\ Fetch(x) => At(x, "fetch")
           /\ AuditRead(x) => At(x, "audit")
           /\ Insert(x) => At(x, "insert")
           /\ Update(x) => At(x, "update")
           /\ Transfer(x) => At(x, "escalate") \/ At(x, "fail")
           /\ Miss(x) => At(x, "miss")
           /\ Turn(x) => At(x, "turn")
           /\ Record(x) => At(x, "record")
           /\ AuditFails(x) => At(x, "audit") \/ At(x, "record")
           /\ Clear(x) => At(x, "clear")
           /\ Fails(x) => handler[x].pc \in {"turn", "audit", "record", "clear"}
<1>1. (Read(x) => At(x, "read")) /\ (Create(x) => At(x, "create"))
  BY DEF Read, Create
<1>2. (Find(x) => At(x, "find")) /\ (Load(x) => At(x, "load"))
  BY DEF Find, Load
<1>3. (Fetch(x) => At(x, "fetch")) /\ (AuditRead(x) => At(x, "audit"))
  BY DEF Fetch, AuditRead
<1>4. (Insert(x) => At(x, "insert")) /\ (Update(x) => At(x, "update"))
  BY DEF Insert, Update
<1>5. (Transfer(x) => At(x, "escalate") \/ At(x, "fail")) /\ (Miss(x) => At(x, "miss"))
  BY DEF Transfer, Miss, At
<1>6. (Turn(x) => At(x, "turn")) /\ (Record(x) => At(x, "record"))
  BY DEF Turn, Record
<1>7. (AuditFails(x) => At(x, "audit") \/ At(x, "record")) /\ (Clear(x) => At(x, "clear"))
  BY DEF AuditFails, Clear, At
<1>8. Fails(x) => handler[x].pc \in {"turn", "audit", "record", "clear"}
  BY DEF Fails
<1>. QED  BY <1>1, <1>2, <1>3, <1>4, <1>5, <1>6, <1>7, <1>8

\* A failed step ends the request, out of the caller's sight.
LEMMA Broken ==
    ASSUME NEW x \in Handler, handler \in [Handler -> Request], Breaks(x)
    PROVE  /\ handler'[x] = Idle
           /\ Reply(x, "left")
           /\ UNCHANGED <<missed, answered, forgotten, unaudited>>
           /\ snapshot' = snapshot \/ WritesMemory(x)
  BY IdleType DEF Breaks, Done, HalfDone, callVars

\* What a step does to the memory and to the histories.
LEMMA Effects ==
    ASSUME TypeOK, NEW x \in Handler, Webhook(x)
    PROVE  /\ forgotten' = forgotten
           /\ unaudited => unaudited'
           /\ torn => torn'
           /\ UNCHANGED <<missed, answered>> \/ Clear(x)
           /\ snapshot' = snapshot \/ WritesMemory(x)
<1>1. CASE Read(x) \/ Create(x) \/ Find(x) \/ Load(x) \/ Fetch(x)
  BY <1>1 DEF Read, Create, Find, Load, Fetch, NothingWritten, historyVars, callVars
<1>2. CASE AuditRead(x) \/ Insert(x) \/ Update(x) \/ Transfer(x)
  BY <1>2 DEF AuditRead, Insert, Update, Transfer, historyVars, callVars
<1>3. CASE Miss(x) \/ Turn(x) \/ Record(x)
  BY <1>3 DEF Miss, Turn, Record, historyVars, callVars
<1>4. CASE AuditFails(x) \/ Clear(x)
  BY <1>4 DEF AuditFails, Clear, callVars
<1>5. CASE Fails(x)
  BY <1>5 DEF Fails, HalfDone, historyVars, callVars
<1>6. CASE Breaks(x)
  <2>1. torn => torn'
    BY <1>6, Zenon DEF Breaks
  <2>2. /\ UNCHANGED <<missed, answered, forgotten, unaudited>>
        /\ snapshot' = snapshot \/ WritesMemory(x)
    BY <1>6 DEF Breaks, HalfDone, callVars
  <2>. QED  BY <2>1, <2>2
<1>. QED  BY <1>1, <1>2, <1>3, <1>4, <1>5, <1>6 DEF Webhook

\* The caller is with staff from a transfer on; is listened to again after the call came in,
\* a miss or an answer.
LEMMA Answers ==
    ASSUME TypeOK, NEW x \in Handler, Webhook(x)
    PROVE  /\ line' = "staff" => line = "staff" \/ Transfer(x)
           /\ line' \in {"new", "waiting", "listening"} =>
                 \/ UNCHANGED lineVars
                 \/ asked = x /\ (Create(x) \/ Insert(x) \/ Miss(x) \/ Clear(x))
<1>1. CASE Read(x) \/ Create(x) \/ Find(x) \/ Load(x) \/ Fetch(x)
  BY <1>1 DEF Read, Create, Find, Load, Fetch, Reply, lineVars
<1>2. CASE AuditRead(x) \/ Insert(x) \/ Update(x) \/ Transfer(x)
  BY <1>2 DEF AuditRead, Insert, Update, Transfer, Reply, lineVars
<1>3. CASE Miss(x) \/ Turn(x) \/ Record(x)
  BY <1>3 DEF Miss, Turn, Record, Reply, lineVars
<1>4. CASE AuditFails(x) \/ Clear(x)
  BY <1>4 DEF AuditFails, Clear, Reply, lineVars
<1>5. CASE Fails(x) \/ Breaks(x)
  BY <1>5 DEF Fails, Breaks, Reply, lineVars
<1>. QED  BY <1>1, <1>2, <1>3, <1>4, <1>5 DEF Webhook

\* Other requests are where they were.
LEMMA OthersWait ==
    ASSUME TypeOK, Control, TypeOK', NEW x \in Handler, Webhook(x), NEW y \in Handler, y # x
    PROVE  handler'[y] = handler[y]
  BY WebhookMoves DEF TypeOK, Moves
--------------------------------------------------------------------------------
(* What the row records *)

\* Every step leaves a final status with its end, or with the callback that is to set it.
LEMMA FinalStep ==
    TypeOK /\ Control /\ Copies /\ FinalHasEnd /\ [Next]_vars /\ TypeOK' => FinalHasEnd'
<1>. DEFINE Ending(q) == q.pc = "update" /\ q.callback.status \in Final
<1>. SUFFICES ASSUME TypeOK, Control, Copies, FinalHasEnd, [Next]_vars, TypeOK',
                     row' # NoRow, row'.status \in Final, ~row'.ended, ~torn'
              PROVE  \E y \in Handler : Ending(handler'[y])
  BY DEF FinalHasEnd, At
<1>0. /\ handler \in [Handler -> Request]
      /\ row # NoRow /\ row.status \in Final /\ ~row.ended /\ ~torn =>
            \E y \in Handler : Ending(handler[y])
  BY DEF TypeOK, FinalHasEnd, At
<1>1. ASSUME NEW x \in Handler, Twilio(x) PROVE \E y \in Handler : Ending(handler'[y])
  <2>1. PICK r : Asks(x, r)
    BY <1>1, TwilioAsks
  <2>2. torn' = torn /\ row' = row /\ handler[x].pc = "idle"
        /\ handler' = [handler EXCEPT ![x] = r]
    BY <2>1 DEF Asks, Ask, At, callVars
  <2>3. PICK y \in Handler : Ending(handler[y])
    BY <1>0, <2>2
  <2>4. handler'[y] = handler[y]
    BY <1>0, <2>2, <2>3
  <2>. QED  BY <2>3, <2>4
<1>2. CASE HangUp \/ Forget \/ UNCHANGED vars
  BY <1>0, <1>2 DEF HangUp, Forget, vars, historyVars, callVars
<1>3. ASSUME NEW x \in Handler, Webhook(x) PROVE \E y \in Handler : Ending(handler'[y])
  <2>1. ~torn /\ \A y \in Handler \ {x} : handler'[y] = handler[y]
    BY <1>3, Effects, OthersWait
  <2>2. ~(Breaks(x) /\ handler[x].kind = "status" /\ handler[x].pc \in {"insert", "update"})
    BY DEF Breaks
  <2>3. CASE Ending(handler[x])
    <3>1. handler[x].kind = "status"
      BY <1>0, <2>3 DEF Control, Request
    <3>2. Update(x)
      BY <1>3, <2>2, <2>3, <3>1, Guards DEF Webhook, At
    <3>. QED  BY <2>3, <3>2, RowWritten DEF Update, At
  <2>4. CASE ~Ending(handler[x]) /\ row # NoRow /\ row.status \in Final /\ ~row.ended
    BY <1>0, <2>1, <2>4
  <2>5. CASE ~Ending(handler[x]) /\ ~(row # NoRow /\ row.status \in Final /\ ~row.ended)
    <3>1. WritesRow(x)
      <4>1. row' # row
        BY <2>5
      <4>. QED  BY <1>3, <4>1, WritesOnly
    <3>2. handler[x].kind = "status" /\ At(x, "insert") /\ handler[x].callback.status \in Final
      BY <2>5, <3>1, RowWritten DEF At
    <3>3. Insert(x) /\ row = NoRow
      BY <1>3, <2>2, <3>1, <3>2, Guards DEF Webhook, At, WritesRow
    <3>4. handler' = [handler EXCEPT ![x].pc = "update", ![x].seen = row']
      BY <3>2, <3>3 DEF Insert
    <3>. QED  BY <1>0, <3>2, <3>4 DEF Request
  <2>. QED  BY <2>3, <2>4, <2>5
<1>. QED  BY <1>1, <1>2, <1>3 DEF Next

\* Every step leaves a reason or an error in the record of a call that staff have.
LEMMA TransferStep ==
    TypeOK /\ Control /\ Copies /\ TransferIsRecorded /\ [Next]_vars => TransferIsRecorded'
<1>. SUFFICES ASSUME TypeOK, Control, Copies, TransferIsRecorded, [Next]_vars, line' = "staff"
              PROVE  row' # NoRow /\ (row'.reason # "none" \/ row'.error)
  BY DEF TransferIsRecorded
<1>1. CASE line = "staff"
  BY <1>1, RowGrows DEF TransferIsRecorded, Behind
<1>2. ASSUME NEW x \in Handler, Transfer(x)
      PROVE  row' # NoRow /\ (row'.reason # "none" \/ row'.error)
  <2>1. WritesRow(x) /\ (At(x, "escalate") \/ At(x, "fail"))
    BY <1>2 DEF Transfer, At
  <2>. QED  BY <2>1, RowWritten, TelephonyAssumption
<1>3. ASSUME NEW x \in Handler, Twilio(x) PROVE line = "staff"
  BY <1>3, TwilioAsks DEF Asks, lineVars
<1>4. CASE HangUp \/ Forget \/ UNCHANGED vars
  BY <1>1, <1>4 DEF HangUp, Forget, vars, lineVars
<1>5. ASSUME NEW x \in Handler, Webhook(x) PROVE line = "staff" \/ Transfer(x)
  BY <1>5, Answers
<1>. QED  BY <1>1, <1>2, <1>3, <1>4, <1>5 DEF Next
--------------------------------------------------------------------------------
(* What a webhook's step does to the conversation *)

SpeechPoint == {"find", "load", "miss", "escalate", "turn", "audit", "record", "clear",
                "fetch", "fail"}

\* A request at a point of a speech request is one, before a step and after it.
LEMMA SpeechAt ==
    /\ TypeOK /\ Control => \A y \in Handler : Speaks(y) <=> handler[y].pc \in SpeechPoint
    /\ TypeOK' /\ Control' => \A y \in Handler : Speaks(y)' <=> handler'[y].pc \in SpeechPoint
  BY DEF TypeOK, Control, Request, Speaks, SpeechPoint

\* A request that is not the caller's leaves the conversation alone.
LEMMA QuietMoves ==
    ASSUME TypeOK, Control, TypeOK', Control', NEW x \in Handler, Webhook(x), ~Speaks(x)
    PROVE  /\ UNCHANGED <<snapshot, missed, answered, total, turns>>
           /\ handler'[x].pc \notin SpeechPoint
           /\ \A y \in Handler : y # x => handler'[y] = handler[y] /\ known'[y] = known[y]
<1>0. /\ handler \in [Handler -> Request] /\ known \in [Handler -> Nat \cup {Unread}]
      /\ handler[x].pc \notin SpeechPoint
  BY SpeechAt DEF TypeOK, AuditTypeOK
<1>1. ~(Find(x) \/ Load(x) \/ Fetch(x) \/ AuditRead(x) \/ Transfer(x) \/ Miss(x) \/ Turn(x)
        \/ Record(x) \/ AuditFails(x) \/ Clear(x) \/ Fails(x))
  BY <1>0, Guards DEF At, SpeechPoint
<1>2. UNCHANGED <<snapshot, missed, answered>>
  BY <1>0, <1>1, Effects, MemoryWritten DEF SpeechPoint
<1>3. UNCHANGED auditVars \/ Unrecorded(x)
  <2>1. CASE Read(x) \/ Create(x)
    BY <2>1 DEF Read, Create, NothingWritten
  <2>2. CASE Insert(x) \/ Update(x)
    BY <2>2 DEF Insert, Update
  <2>3. CASE Breaks(x)
    BY <1>0, <2>3 DEF Breaks, HalfDone, At, SpeechPoint
  <2>. QED  BY <1>1, <2>1, <2>2, <2>3 DEF Webhook
<1>4. UNCHANGED <<total, turns>> /\ \A y \in Handler : y # x => known'[y] = known[y]
  BY <1>0, <1>3 DEF auditVars, Unrecorded
<1>5. ~Speaks(x)'
  <2>1. PICK r : Moves(x, r)
    BY WebhookMoves
  <2>. QED  BY <1>0, <2>1, IdleType DEF Moves, Onward, Speaks
<1>6. handler'[x].pc \notin SpeechPoint
  BY <1>5, SpeechAt
<1>. QED  BY <1>2, <1>4, <1>6, OthersWait

\* When the caller's request moves, there is no other.
LEMMA SpeakerMoves ==
    ASSUME TypeOK, Control, OneSpeaker, TypeOK', Control', NEW x \in Handler, Webhook(x),
           Speaks(x)
    PROVE  \A y \in Handler : y # x =>
             /\ ~Speaks(y) /\ ~Speaks(y)'
             /\ handler'[y] = handler[y] /\ handler'[y].pc \notin SpeechPoint
<1>. SUFFICES ASSUME NEW y \in Handler, y # x
              PROVE  ~Speaks(y) /\ ~Speaks(y)' /\ handler'[y] = handler[y]
                     /\ handler'[y].pc \notin SpeechPoint
  OBVIOUS
<1>1. ~Speaks(y) /\ handler'[y] = handler[y]
  BY OthersWait DEF OneSpeaker
<1>2. ~Speaks(y)'
  BY <1>1 DEF Speaks
<1>. QED  BY <1>1, <1>2, SpeechAt

\* How a request comes to where it has something of the conversation with it.
LEMMA Carried ==
    ASSUME TypeOK, Control, TypeOK', NEW x \in Handler, Webhook(x)
    PROVE  LET q == handler[x] r == handler'[x] IN
           /\ r.pc # "find"
           /\ r.pc = "load" => q.pc = "find" /\ r.said = q.said
           /\ r.pc = "miss" => q.pc = "load" /\ q.said = "unclear" /\ r.loaded = snapshot
           /\ r.pc = "escalate" =>
                 \/ q.pc = "load" /\ r.said = "human"
                 \/ Miss(x) /\ TooMany(snapshot'.misses)
           /\ r.pc = "audit" => q.pc = "turn" /\ WritesMemory(x) /\ r.loaded = snapshot'
           /\ r.pc = "record" => AuditRead(x) /\ r.loaded = q.loaded
           /\ r.pc = "clear" => (Record(x) \/ AuditFails(x)) /\ r.loaded = q.loaded
<1>0. /\ handler[x] \in Request /\ handler'[x] \in Request
      /\ handler \in [Handler -> Request]
  BY DEF TypeOK
<1>1. PICK r : Moves(x, r)
  BY WebhookMoves
<1>2. handler'[x] = r /\ (r = Idle \/ Onward(handler[x], r))
  BY <1>0, <1>1 DEF Moves
<1>3. CASE r = Idle
  BY <1>2, <1>3, IdleType
<1>4. CASE r # Idle
  <2>1. Onward(handler[x], r) /\ ~Breaks(x)
    BY <1>0, <1>2, <1>4, Broken
  <2>2. r.pc # "find" /\ (r.pc = "load" => handler[x].pc = "find" /\ r.said = handler[x].said)
    BY <2>1 DEF Onward, Branch
  <2>3. r.pc = "miss" => /\ handler[x].pc = "load" /\ handler[x].said = "unclear"
                         /\ r.loaded = snapshot
    <3>1. SUFFICES ASSUME r.pc = "miss"
                   PROVE  /\ handler[x].pc = "load" /\ handler[x].said = "unclear"
                          /\ r.loaded = snapshot
      OBVIOUS
    <3>2. handler[x].pc = "load" /\ handler[x].said = "unclear"
      BY <1>0, <2>1, <3>1 DEF Onward, Branch, Request, Said
    <3>3. Load(x)
      BY <2>1, <3>2, Guards DEF Webhook, At
    <3>4. handler' = [handler EXCEPT ![x].pc = "miss", ![x].loaded = snapshot]
      BY <3>2, <3>3 DEF Load, Branch
    <3>. QED  BY <1>0, <1>2, <3>2, <3>4 DEF Request
  <2>4. r.pc = "escalate" => \/ handler[x].pc = "load" /\ r.said = "human"
                             \/ Miss(x) /\ TooMany(snapshot'.misses)
    <3>1. SUFFICES ASSUME r.pc = "escalate", ~(handler[x].pc = "load" /\ r.said = "human")
                   PROVE  Miss(x) /\ TooMany(snapshot'.misses)
      OBVIOUS
    <3>2. handler[x].pc = "miss"
      BY <1>0, <2>1, <3>1 DEF Onward, Branch, Request, Said
    <3>3. Miss(x)
      BY <2>1, <3>2, Guards DEF Webhook, At
    <3>4. ~Done(x)
      BY <1>0, <1>2, <3>1, IdleType DEF Done
    <3>. QED  BY <3>3, <3>4 DEF Miss
  <2>5. r.pc = "audit" => handler[x].pc = "turn" /\ WritesMemory(x) /\ r.loaded = snapshot'
    <3>1. SUFFICES ASSUME r.pc = "audit"
                   PROVE  handler[x].pc = "turn" /\ WritesMemory(x) /\ r.loaded = snapshot'
      OBVIOUS
    <3>2. handler[x].pc = "turn"
      BY <2>1, <3>1 DEF Onward, Branch
    <3>3. CASE Turn(x)
      <4>1. PICK q \in {handler[x], Rollback(x)} :
              handler' = [handler EXCEPT ![x] = [q EXCEPT !.pc = "audit", !.loaded = snapshot']]
        BY <3>3 DEF Turn
      <4>2. q \in Request
        BY <1>0 DEF Rollback, Request
      <4>3. r = [q EXCEPT !.pc = "audit", !.loaded = snapshot']
        BY <1>0, <1>2, <4>1
      <4>. QED  BY <3>2, <3>3, <4>2, <4>3 DEF Request, Turn
    <3>4. CASE Fails(x)
      <4>1. PICK q \in {handler[x], Rollback(x)} :
              handler' = [handler EXCEPT ![x] = [q EXCEPT !.pc = "fetch"]]
        BY <3>4 DEF Fails
      <4>2. q \in Request
        BY <1>0 DEF Rollback, Request
      <4>3. r = [q EXCEPT !.pc = "fetch"]
        BY <1>0, <1>2, <4>1
      <4>. QED  BY <3>1, <4>2, <4>3 DEF Request
    <3>. QED  BY <2>1, <3>2, <3>3, <3>4, Guards DEF Webhook, At
  <2>6. r.pc \in {"record", "clear"} => handler[x].pc \in {"audit", "record"}
        /\ r.loaded = handler[x].loaded
    BY <2>1 DEF Onward, Branch
  <2>7. Fails(x) => r.pc = "fetch"
    <3>1. SUFFICES ASSUME Fails(x) PROVE r.pc = "fetch"
      OBVIOUS
    <3>2. PICK q \in {handler[x], Rollback(x)} :
            handler' = [handler EXCEPT ![x] = [q EXCEPT !.pc = "fetch"]]
      BY <3>1 DEF Fails
    <3>3. q \in Request
      BY <1>0 DEF Rollback, Request
    <3>. QED  BY <1>0, <1>2, <3>2, <3>3 DEF Request
  <2>8. /\ AuditRead(x) => r.pc = "record"
        /\ Record(x) \/ AuditFails(x) => r.pc = "clear"
    BY <1>0, <1>2 DEF AuditRead, Record, AuditFails, Goto, Rollback, Request
  <2>9. handler[x].pc \in {"audit", "record"} /\ r.pc \in {"record", "clear"} =>
           AuditRead(x) \/ Record(x) \/ AuditFails(x)
    BY <2>1, <2>7, Guards DEF Webhook, At
  <2>10. /\ r.pc = "record" => AuditRead(x) /\ r.loaded = handler[x].loaded
         /\ r.pc = "clear" => (Record(x) \/ AuditFails(x)) /\ r.loaded = handler[x].loaded
    BY <2>6, <2>8, <2>9
  <2>. QED  BY <1>2, <2>2, <2>3, <2>4, <2>5, <2>10
<1>. QED  BY <1>3, <1>4

\* When a request Twilio waits for ends, it waits no more.
LEMMA AskedEnds ==
    ASSUME TypeOK, Control, TypeOK', Control', NEW x \in Handler, Webhook(x), Speaks(x),
           handler'[x].pc \notin SpeechPoint
    PROVE  asked' # x \/ asked # x
<1>1. PICK r : Moves(x, r)
  BY WebhookMoves
<1>2. handler'[x] = r
  BY <1>1 DEF Moves, TypeOK
<1>3. ~Onward(handler[x], r)
  BY <1>2, SpeechAt DEF Onward, Speaks
<1>. QED  BY <1>1, <1>3, TelephonyAssumption DEF Moves
--------------------------------------------------------------------------------
(* Misses *)

\* Every step leaves no more misses in memory than the caller had.
LEMMA CountedStep ==
    TypeOK /\ Control /\ OneSpeaker /\ Counted /\ [Next]_vars /\ TypeOK' /\ Control' => Counted'
<1>. SUFFICES ASSUME TypeOK, Control, OneSpeaker, Counted, [Next]_vars, TypeOK', Control'
              PROVE  Counted'
  OBVIOUS
<1>0. /\ handler \in [Handler -> Request] /\ missed \in Nat /\ missed' \in Nat
      /\ Known(snapshot).misses \in Nat /\ MaxRetries \in Nat
  BY KnownType, TelephonyAssumption DEF TypeOK
<1>1. ASSUME NEW x \in Handler, Twilio(x) PROVE Counted'
  <2>1. PICK r : Asks(x, r)
    BY <1>1, TwilioAsks
  <2>2. /\ handler' = [handler EXCEPT ![x] = r] /\ snapshot' = snapshot
        /\ missed' >= missed
        /\ r.pc \in {"create", "find", "read"}
        /\ r.pc = "find" /\ r.said = "unclear" => missed' = missed + 1
    BY <1>0, <2>1 DEF Asks, Ask, callVars
  <2>3. Known(snapshot').misses <= missed'
    BY <1>0, <2>2 DEF Counted
  <2>4. ASSUME NEW y \in Handler
        PROVE  LET q == handler'[y] IN
               /\ q.pc \in {"find", "load"} /\ q.said = "unclear" =>
                      Known(snapshot').misses < missed'
               /\ q.pc = "miss" => Known(q.loaded).misses < missed'
               /\ q.pc = "escalate" /\ q.said = "unclear" => missed' >= MaxRetries
    <3>1. CASE y = x
      BY <1>0, <2>2, <3>1 DEF Counted
    <3>2. CASE y # x
      <4>1. handler'[y] = handler[y]
        BY <1>0, <2>2, <3>2
      <4>2. Known(handler[y].loaded).misses \in Nat
        BY <1>0, KnownType DEF Request
      <4>. QED  BY <1>0, <2>2, <4>1, <4>2 DEF Counted
    <3>. QED  BY <3>1, <3>2
  <2>. QED  BY <2>3, <2>4 DEF Counted
<1>2. CASE HangUp \/ UNCHANGED vars
  BY <1>2 DEF HangUp, vars, callVars, historyVars, Counted
<1>3. CASE Forget
  <2>1. Known(snapshot').misses = 0 /\ handler' = handler /\ missed' = missed
    BY <1>3 DEF Forget, Known, Fresh
  <2>. QED  BY <1>0, <2>1 DEF Counted
<1>4. ASSUME NEW x \in Handler, Webhook(x) PROVE Counted'
  <2>1. CASE ~Speaks(x)
    <3>1. /\ UNCHANGED <<snapshot, missed>> /\ handler'[x].pc \notin SpeechPoint
          /\ \A y \in Handler : y # x => handler'[y] = handler[y]
      BY <1>4, <2>1, QuietMoves
    <3>2. \A y \in Handler : handler'[y].pc \in SpeechPoint => handler'[y] = handler[y]
      BY <3>1
    <3>. QED  BY <3>1, <3>2 DEF Counted, SpeechPoint
  <2>2. CASE Speaks(x)
    <3>. DEFINE q == handler[x]
                r == handler'[x]
    <3>0. q \in Request /\ Known(q.loaded).misses \in Nat
      BY <1>0, KnownType DEF Request
    <3>1. \A y \in Handler : y # x => handler'[y].pc \notin SpeechPoint
      BY <1>4, <2>2, SpeakerMoves
    <3>2. Known(snapshot').misses <= missed'
      <4>1. CASE snapshot' = snapshot /\ missed' = missed
        BY <4>1 DEF Counted
      <4>2. CASE WritesMemory(x) /\ missed' = missed
        <5>1. snapshot' # NoSnapshot => Known(snapshot') = snapshot'
          BY DEF Known
        <5>2. snapshot' \in Snapshot => snapshot' # NoSnapshot
          BY TelephonyAssumption
        <5>. QED  BY <1>0, <3>0, <4>2, <5>1, <5>2, MemoryWritten DEF Counted, At
      <4>3. CASE Clear(x)
        BY <1>0, <4>3, MemoryWritten DEF Clear
      <4>. QED  BY <1>4, <4>1, <4>2, <4>3, Effects
    <3>3. /\ r.pc # "find"
          /\ r.pc = "load" => q.pc = "find" /\ r.said = q.said
          /\ r.pc = "miss" => q.pc = "load" /\ q.said = "unclear" /\ r.loaded = snapshot
          /\ r.pc = "escalate" =>
               \/ q.pc = "load" /\ r.said = "human"
               \/ Miss(x) /\ TooMany(snapshot'.misses)
      BY <1>4, Carried
    <3>4. ~(q.pc \in {"miss", "turn", "clear"}) => snapshot' = snapshot /\ missed' = missed
      BY <1>4, Effects, MemoryWritten, Guards DEF At
    <3>5. r.pc = "load" /\ r.said = "unclear" => Known(snapshot').misses < missed'
      BY <3>3, <3>4 DEF Counted
    <3>6. r.pc = "miss" => Known(r.loaded).misses < missed'
      BY <3>3, <3>4 DEF Counted
    <3>7. r.pc = "escalate" /\ r.said = "unclear" => missed' >= MaxRetries
      <4>1. SUFFICES ASSUME Miss(x), TooMany(snapshot'.misses) PROVE missed' >= MaxRetries
        BY <3>3
      <4>2. snapshot'.misses = Known(q.loaded).misses + 1 /\ Known(q.loaded).misses < missed
        BY <4>1, MemoryWritten DEF Miss, Counted, At
      <4>3. missed' = missed
        BY <4>1 DEF Miss, historyVars
      <4>. QED  BY <1>0, <3>0, <4>1, <4>2, <4>3 DEF TooMany
    <3>. QED  BY <3>1, <3>2, <3>3, <3>5, <3>6, <3>7 DEF Counted, SpeechPoint
  <2>. QED  BY <2>1, <2>2
<1>. QED  BY <1>1, <1>2, <1>3, <1>4 DEF Next

\* Every step leaves the misses of the caller in memory, where they are to be acted on.
LEMMA ExactStep ==
    TypeOK /\ Control /\ OneSpeaker /\ Exact /\ [Next]_vars /\ TypeOK' /\ Control' => Exact'
<1>. SUFFICES ASSUME TypeOK, Control, OneSpeaker, Exact, [Next]_vars, TypeOK', Control', ~forgotten'
              PROVE  Exact'
  BY DEF Exact
<1>. DEFINE Quiet == line \in {"new", "waiting", "listening"} /\ \A x \in Handler : ~Speaks(x)
<1>0. /\ handler \in [Handler -> Request] /\ missed \in Nat
      /\ Known(snapshot).misses \in Nat /\ MaxRetries \in Nat \ {0}
      /\ (line = "waiting" <=> asked # NoHandler)
  BY KnownType, TelephonyAssumption DEF TypeOK
<1>1. ASSUME NEW x \in Handler, Twilio(x) PROVE Exact'
  <2>1. PICK r : Asks(x, r)
    BY <1>1, TwilioAsks
  <2>2. /\ handler' = [handler EXCEPT ![x] = r] /\ UNCHANGED <<snapshot, forgotten>>
        /\ handler[x].pc = "idle"
    BY <2>1 DEF Asks, Ask, callVars, At
  <2>3. ~Speaks(x)
    BY <2>2, SpeechAt DEF SpeechPoint
  <2>4. CASE r.kind = "speech"
    <3>1. /\ line = "listening" /\ r.pc = "find"
          /\ missed' = IF r.said = "unclear" THEN missed + 1 ELSE missed
      BY <2>1, <2>4 DEF Asks
    <3>2. \A y \in Handler : ~Speaks(y)
      BY <1>0, <3>1, TelephonyAssumption DEF OneSpeaker
    <3>3. missed = Known(snapshot).misses
      BY <2>2, <3>1, <3>2 DEF Exact
    <3>4. \A y \in Handler : y # x => handler'[y] = handler[y] /\ handler[y].pc \notin SpeechPoint
      BY <1>0, <2>2, <3>2, SpeechAt
    <3>5. handler'[x] = r /\ Speaks(x)'
      BY <1>0, <2>2, <2>4 DEF Speaks
    <3>. QED  BY <1>0, <2>2, <3>1, <3>3, <3>4, <3>5 DEF Exact, SpeechPoint
  <2>5. CASE r.kind # "speech"
    <3>1. /\ missed' = missed /\ r.pc \notin SpeechPoint
          /\ line' \in {"new", "waiting", "listening"} => line \in {"new", "waiting", "listening"}
      BY <2>1, <2>5 DEF Asks, SpeechPoint, lineVars
    <3>2. \A y \in Handler : handler'[y] = IF y = x THEN r ELSE handler[y]
      BY <1>0, <2>2
    <3>3. \A y \in Handler : handler'[y].pc \in SpeechPoint => handler'[y] = handler[y]
      BY <3>1, <3>2
    <3>4. Quiet' => Quiet
      BY <2>3, <3>1, <3>2 DEF Speaks
    <3>5. Quiet' => Known(snapshot').misses = missed' /\ missed' < MaxRetries
      BY <2>2, <3>1, <3>4 DEF Exact
    <3>6. \A y \in Handler :
             /\ handler'[y].pc \in {"find", "load"} =>
                  missed' = Known(snapshot').misses
                              + (IF handler'[y].said = "unclear" THEN 1 ELSE 0)
             /\ handler'[y].pc = "miss" => missed' = Known(handler'[y].loaded).misses + 1
      BY <2>2, <3>1, <3>3 DEF Exact, SpeechPoint
    <3>. QED  BY <3>5, <3>6 DEF Exact
  <2>. QED  BY <2>4, <2>5
<1>2. CASE HangUp \/ UNCHANGED vars
  <2>1. /\ UNCHANGED <<handler, snapshot, missed, forgotten>>
        /\ line' \in {"new", "waiting", "listening"} => line' = line
    BY <1>2 DEF HangUp, vars, callVars, historyVars, lineVars
  <2>. QED  BY <2>1 DEF Exact, Speaks
<1>3. CASE Forget
  BY <1>3 DEF Forget
<1>4. ASSUME NEW x \in Handler, Webhook(x) PROVE Exact'
  <2>0. ~forgotten
    BY <1>4, Effects
  <2>1. CASE ~Speaks(x)
    <3>1. /\ UNCHANGED <<snapshot, missed>> /\ handler'[x].pc \notin SpeechPoint
          /\ \A y \in Handler : y # x => handler'[y] = handler[y]
      BY <1>4, <2>1, QuietMoves
    <3>2. \A y \in Handler : handler'[y].pc \in SpeechPoint => handler'[y] = handler[y]
      BY <3>1
    <3>3. Quiet' => Quiet
      <4>1. SUFFICES ASSUME Quiet' PROVE Quiet
        OBVIOUS
      <4>2. \A y \in Handler : ~Speaks(y)
        BY <2>1, <3>1, <4>1 DEF Speaks
      <4>3. UNCHANGED lineVars \/ asked = x
        BY <1>4, <4>1, Answers
      <4>. QED  BY <1>0, <4>1, <4>2, <4>3, TelephonyAssumption DEF lineVars
    <3>4. Quiet' => Known(snapshot').misses = missed' /\ missed' < MaxRetries
      BY <2>0, <3>1, <3>3 DEF Exact
    <3>5. \A y \in Handler :
             /\ handler'[y].pc \in {"find", "load"} =>
                  missed' = Known(snapshot').misses
                              + (IF handler'[y].said = "unclear" THEN 1 ELSE 0)
             /\ handler'[y].pc = "miss" => missed' = Known(handler'[y].loaded).misses + 1
      BY <2>0, <3>1, <3>2 DEF Exact, SpeechPoint
    <3>. QED  BY <3>4, <3>5 DEF Exact
  <2>2. CASE Speaks(x)
    <3>. DEFINE q == handler[x]
                r == handler'[x]
    <3>0. q \in Request /\ Known(q.loaded).misses \in Nat
      BY <1>0, KnownType DEF Request
    <3>1. \A y \in Handler : y # x => handler'[y].pc \notin SpeechPoint /\ ~Speaks(y)
      BY <1>4, <2>2, SpeakerMoves
    <3>2. /\ r.pc # "find"
          /\ r.pc = "load" => q.pc = "find" /\ r.said = q.said
          /\ r.pc = "miss" => q.pc = "load" /\ q.said = "unclear" /\ r.loaded = snapshot
      BY <1>4, Carried
    <3>3. ~(q.pc \in {"miss", "turn", "clear"}) => snapshot' = snapshot /\ missed' = missed
      BY <1>4, Effects, MemoryWritten, Guards DEF At
    <3>4. r.pc = "load" => missed' = Known(snapshot').misses + (IF r.said = "unclear" THEN 1 ELSE 0)
      BY <2>0, <3>2, <3>3 DEF Exact
    <3>5. r.pc = "miss" => missed' = Known(r.loaded).misses + 1
      BY <2>0, <3>2, <3>3 DEF Exact
    <3>6. Quiet' => Known(snapshot').misses = missed' /\ missed' < MaxRetries
      <4>1. SUFFICES ASSUME Quiet' PROVE Known(snapshot').misses = missed' /\ missed' < MaxRetries
        OBVIOUS
      <4>2. ~Speaks(x)' /\ r.pc \notin SpeechPoint
        BY <4>1, SpeechAt
      <4>3. UNCHANGED lineVars \/ (asked = x /\ (Create(x) \/ Insert(x) \/ Miss(x) \/ Clear(x)))
        BY <1>4, <4>1, Answers
      <4>4. CASE UNCHANGED lineVars
        <5>1. asked = x
          BY <2>2, <4>1, <4>4 DEF OneSpeaker, lineVars
        <5>2. asked' # x
          BY <1>4, <2>2, <4>2, <5>1, AskedEnds
        <5>. QED  BY <4>4, <5>1, <5>2 DEF lineVars
      <4>5. CASE Miss(x)
        <5>1. ~TooMany(snapshot'.misses)
          BY <1>0, <4>2, <4>5, <3>0 DEF Miss, Goto, SpeechPoint, Request
        <5>2. snapshot' \in Snapshot /\ snapshot'.misses = Known(q.loaded).misses + 1
          BY <4>5, MemoryWritten DEF Miss
        <5>3. Known(snapshot') = snapshot'
          BY <5>2, TelephonyAssumption DEF Known
        <5>4. missed' = missed /\ missed = Known(q.loaded).misses + 1
          BY <2>0, <4>5 DEF Miss, At, Exact, historyVars
        <5>. QED  BY <1>0, <3>0, <5>1, <5>2, <5>3, <5>4 DEF TooMany
      <4>6. CASE Clear(x)
        BY <1>0, <4>6, MemoryWritten DEF Clear
      <4>7. ~(Create(x) \/ Insert(x))
        BY <2>2, Guards, SpeechAt DEF At, SpeechPoint
      <4>. QED  BY <4>3, <4>4, <4>5, <4>6, <4>7
    <3>7. \A y \in Handler :
             /\ handler'[y].pc \in {"find", "load"} =>
                  missed' = Known(snapshot').misses
                              + (IF handler'[y].said = "unclear" THEN 1 ELSE 0)
             /\ handler'[y].pc = "miss" => missed' = Known(handler'[y].loaded).misses + 1
      BY <3>1, <3>2, <3>4, <3>5 DEF SpeechPoint
    <3>. QED  BY <3>6, <3>7 DEF Exact
  <2>. QED  BY <2>1, <2>2
<1>. QED  BY <1>1, <1>2, <1>3, <1>4 DEF Next

\* Every step leaves staff called for misses with the misses, the caller with staff or gone,
\* and nothing said under way.
LEMMA EscalatedStep ==
    TypeOK /\ Control /\ OneSpeaker /\ Copies /\ Counted /\ Escalated /\ [Next]_vars
      /\ TypeOK' /\ Control' => Escalated'
<1>. SUFFICES ASSUME TypeOK, Control, OneSpeaker, Copies, Counted, Escalated, [Next]_vars,
                     TypeOK', Control', row' # NoRow, row'.reason = "low_confidence"
              PROVE  /\ missed' >= MaxRetries
                     /\ line' \in {"staff", "left"}
                     /\ \A y \in Handler : ~Speaks(y)'
  BY DEF Escalated
<1>. DEFINE Escaped == row # NoRow /\ row.reason = "low_confidence"
<1>0. handler \in [Handler -> Request] /\ (line = "waiting" <=> asked # NoHandler)
  BY DEF TypeOK
<1>1. ASSUME NEW x \in Handler, Twilio(x)
      PROVE  missed' >= MaxRetries /\ line' \in {"staff", "left"} /\ \A y \in Handler : ~Speaks(y)'
  <2>1. PICK r : Asks(x, r)
    BY <1>1, TwilioAsks
  <2>2. row' = row /\ handler' = [handler EXCEPT ![x] = r]
    BY <2>1 DEF Asks, Ask, callVars
  <2>3. missed >= MaxRetries /\ line \in {"staff", "left"} /\ \A y \in Handler : ~Speaks(y)
    BY <2>2 DEF Escalated
  <2>. QED  BY <1>0, <2>1, <2>2, <2>3 DEF Asks, Speaks, lineVars
<1>2. CASE HangUp \/ Forget \/ UNCHANGED vars
  BY <1>2 DEF HangUp, Forget, vars, callVars, historyVars, lineVars, Escalated, Speaks
<1>3. ASSUME NEW x \in Handler, Webhook(x)
      PROVE  missed' >= MaxRetries /\ line' \in {"staff", "left"} /\ \A y \in Handler : ~Speaks(y)'
  <2>1. CASE Escaped
    <3>1. missed >= MaxRetries /\ line \in {"staff", "left"} /\ \A y \in Handler : ~Speaks(y)
      BY <2>1 DEF Escalated
    <3>2. /\ UNCHANGED missed /\ handler'[x].pc \notin SpeechPoint
          /\ \A y \in Handler : y # x => handler'[y] = handler[y]
      BY <1>3, <3>1, QuietMoves
    <3>3. \A y \in Handler : ~Speaks(y)'
      BY <3>1, <3>2, SpeechAt DEF Speaks
    <3>4. line' = line
      <4>1. asked # x
        BY <1>0, <3>1, TelephonyAssumption
      <4>. QED  BY <1>3, <4>1, WebhookMoves DEF Moves, lineVars
    <3>. QED  BY <3>1, <3>2, <3>3, <3>4
  <2>2. CASE ~Escaped
    <3>1. WritesRow(x)
      <4>1. row' # row
        BY <2>2
      <4>. QED  BY <1>3, <4>1, WritesOnly
    <3>2. At(x, "escalate") /\ handler[x].said = "unclear"
      BY <2>2, <3>1, RowWritten DEF Control, At
    <3>3. missed >= MaxRetries /\ Speaks(x)
      BY <3>2, SpeechAt DEF Counted, At, SpeechPoint
    <3>4. Transfer(x) \/ Breaks(x)
      BY <1>3, <3>2, Guards DEF Webhook, At
    <3>5. /\ missed' = missed /\ handler'[x] = Idle
          /\ Reply(x, "staff") \/ Reply(x, "left")
      BY <1>0, <3>4, Broken DEF Transfer, Done, historyVars
    <3>6. line' \in {"staff", "left"}
      BY <3>3, <3>5 DEF OneSpeaker, Reply, lineVars
    <3>7. \A y \in Handler : ~Speaks(y)'
      BY <1>3, <3>3, <3>5, SpeakerMoves, IdleType DEF Speaks
    <3>. QED  BY <3>3, <3>5, <3>6, <3>7
  <2>. QED  BY <2>1, <2>2
<1>. QED  BY <1>1, <1>2, <1>3 DEF Next
--------------------------------------------------------------------------------
(* The audit *)

\* What a webhook's step does to the audit's variables.
LEMMA AuditSteps ==
    ASSUME TypeOK, NEW x \in Handler, Webhook(x)
    PROVE  /\ turns \subseteq turns'
           /\ \A y \in Handler : y # x => known'[y] = known[y]
           /\ AuditRead(x) => known'[x] = total
           /\ Record(x) => handler[x].loaded.turn \in turns'
<1>0. known \in [Handler -> Nat \cup {Unread}]
  BY DEF TypeOK, AuditTypeOK
<1>1. CASE UNCHANGED auditVars \/ Unrecorded(x)
  <2>1. UNCHANGED <<total, turns>> /\ \A y \in Handler : y # x => known'[y] = known[y]
    BY <1>0, <1>1 DEF auditVars, Unrecorded
  <2>2. ~Record(x)
    BY <1>1, <2>1 DEF Record, RecordTurn, Accepted
  <2>3. AuditRead(x) => known'[x] = total
    BY <1>0 DEF AuditRead, ReadSession
  <2>. QED  BY <2>1, <2>2, <2>3
<1>2. CASE ReadSession(x)
  <2>1. UNCHANGED <<total, turns>> /\ known' = [known EXCEPT ![x] = total]
    BY <1>2 DEF ReadSession
  <2>2. ~Record(x)
    BY <2>1 DEF Record, RecordTurn, Accepted
  <2>. QED  BY <1>0, <2>1, <2>2
<1>3. CASE RecordTurn(x, handler[x].loaded.turn) /\ At(x, "record")
  <2>1. turns' = turns \cup {handler[x].loaded.turn} /\ known' = [known EXCEPT ![x] = Unread]
    BY <1>3 DEF RecordTurn
  <2>2. ~AuditRead(x)
    BY <1>3 DEF AuditRead, At
  <2>. QED  BY <1>0, <2>1, <2>2
<1>4. \/ UNCHANGED auditVars \/ Unrecorded(x)
      \/ ReadSession(x)
      \/ RecordTurn(x, handler[x].loaded.turn) /\ At(x, "record")
  <2>1. CASE Read(x) \/ Create(x) \/ Find(x) \/ Load(x) \/ Fetch(x)
    BY <2>1 DEF Read, Create, Find, Load, Fetch, NothingWritten
  <2>2. CASE AuditRead(x) \/ Insert(x) \/ Update(x) \/ Transfer(x)
    BY <2>2 DEF AuditRead, Insert, Update, Transfer
  <2>3. CASE Miss(x) \/ Turn(x) \/ Record(x)
    BY <2>3 DEF Miss, Turn, Record
  <2>4. CASE AuditFails(x) \/ Clear(x)
    BY <2>4 DEF AuditFails, Clear
  <2>5. CASE Fails(x) \/ Breaks(x)
    BY <2>5 DEF Fails, Breaks, HalfDone
  <2>. QED  BY <2>1, <2>2, <2>3, <2>4, <2>5 DEF Webhook
<1>. QED  BY <1>1, <1>2, <1>3, <1>4

\* The caller's answers are answers to turns; one is added by the step that sends it.
LEMMA Answered ==
    ASSUME TypeOK, NEW x \in Handler, Clear(x), handler[x].loaded \in Snapshot
    PROVE  /\ DOMAIN answered' = DOMAIN answered \cup {Len(answered) + 1}
           /\ Len(answered) + 1 \notin DOMAIN answered
           /\ answered'[Len(answered) + 1] = handler[x].loaded.turn
           /\ \A i \in DOMAIN answered : answered'[i] = answered[i]
<1>1. answered \in Seq(Nat) /\ handler[x].loaded.turn \in Nat
  BY DEF TypeOK, Snapshot
<1>2. answered' = Append(answered, handler[x].loaded.turn)
  BY DEF Clear
<1>. QED  BY <1>1, <1>2

\* Every step leaves the turns answered, and the one about to be, in the audit.
LEMMA AuditedStep ==
    TypeOK /\ Control /\ OneSpeaker /\ Audited /\ [Next]_vars /\ TypeOK' /\ Control' => Audited'
<1>. SUFFICES ASSUME TypeOK, Control, OneSpeaker, Audited, [Next]_vars, TypeOK', Control'
              PROVE  Audited'
  OBVIOUS
<1>0. handler \in [Handler -> Request] /\ known \in [Handler -> Nat \cup {Unread}]
  BY DEF TypeOK, AuditTypeOK
<1>1. ASSUME NEW x \in Handler, Twilio(x) PROVE Audited'
  <2>1. PICK r : Asks(x, r)
    BY <1>1, TwilioAsks
  <2>2. /\ handler' = [handler EXCEPT ![x] = r] /\ r.pc \in {"create", "find", "read"}
        /\ UNCHANGED <<total, turns, known, answered, unaudited>>
    BY <2>1 DEF Asks, Ask, auditVars
  <2>3. \A y \in Handler : handler'[y].pc \in {"record", "clear"} => handler'[y] = handler[y]
    BY <1>0, <2>2
  <2>. QED  BY <2>2, <2>3 DEF Audited, At
<1>2. CASE HangUp \/ Forget \/ UNCHANGED vars
  BY <1>2 DEF HangUp, Forget, vars, auditVars, historyVars, Audited, At
<1>3. ASSUME NEW x \in Handler, Webhook(x) PROVE Audited'
  <2>1. CASE ~Speaks(x)
    <3>1. /\ UNCHANGED <<answered, total, turns>> /\ handler'[x].pc \notin SpeechPoint
          /\ \A y \in Handler : y # x => handler'[y] = handler[y] /\ known'[y] = known[y]
      BY <1>3, <2>1, QuietMoves
    <3>2. \A y \in Handler : handler'[y].pc \in SpeechPoint =>
             handler'[y] = handler[y] /\ known'[y] = known[y]
      BY <3>1
    <3>3. unaudited => unaudited'
      BY <1>3, Effects
    <3>. QED  BY <3>1, <3>2, <3>3 DEF Audited, At, SpeechPoint
  <2>2. CASE Speaks(x)
    <3>. DEFINE q == handler[x]
                r == handler'[x]
    <3>0. \A y \in Handler : y # x => handler'[y].pc \notin SpeechPoint
      BY <1>3, <2>2, SpeakerMoves
    <3>1. /\ r.pc = "record" => AuditRead(x) /\ r.loaded = q.loaded
          /\ r.pc = "clear" => (Record(x) \/ AuditFails(x)) /\ r.loaded = q.loaded
      BY <1>3, Carried
    <3>2. /\ turns \subseteq turns'
          /\ AuditRead(x) => known'[x] = total
          /\ Record(x) => q.loaded.turn \in turns'
      BY <1>3, AuditSteps
    <3>3. AuditRead(x) => total' = total
      BY DEF AuditRead, ReadSession
    <3>4. \A y \in Handler : handler'[y].pc = "record" => known'[y] = total'
      BY <3>0, <3>1, <3>2, <3>3 DEF SpeechPoint
    <3>5. ASSUME ~unaudited', r.pc = "clear" PROVE r.loaded.turn \in turns'
      <4>1. CASE Record(x)
        BY <3>1, <3>2, <3>5, <4>1
      <4>2. CASE AuditFails(x)
        <5>1. At(x, "record") /\ ~Accepted(x, q.loaded.turn)
          BY <3>5, <4>2, Zenon DEF AuditFails
        <5>2. known[x] = total
          BY <5>1 DEF Audited
        <5>3. q.loaded.turn \in turns
          BY <5>1, <5>2 DEF Accepted, AddsSession
        <5>. QED  BY <3>1, <3>2, <3>5, <5>3
      <4>. QED  BY <3>1, <3>5, <4>1, <4>2
    <3>6. ASSUME ~unaudited', NEW i \in DOMAIN answered' PROVE answered'[i] \in turns'
      <4>1. ~unaudited
        BY <1>3, <3>6, Effects
      <4>2. CASE answered' = answered
        BY <3>2, <3>6, <4>1, <4>2 DEF Audited
      <4>3. CASE Clear(x)
        <5>1. q.loaded \in Snapshot /\ q.loaded.turn \in turns
          BY <4>1, <4>3 DEF Clear, At, Control, Audited
        <5>. QED  BY <3>2, <3>6, <4>1, <4>3, <5>1, Answered DEF Audited
      <4>. QED  BY <1>3, <4>2, <4>3, Effects
    <3>. QED  BY <3>0, <3>4, <3>5, <3>6 DEF Audited, At, SpeechPoint
  <2>. QED  BY <2>1, <2>2
<1>. QED  BY <1>1, <1>2, <1>3 DEF Next

\* Every step leaves the number of a turn under way above those answered.
LEMMA NumberedStep ==
    TypeOK /\ Control /\ OneSpeaker /\ Numbered /\ [Next]_vars /\ TypeOK' /\ Control' => Numbered'
<1>. SUFFICES ASSUME TypeOK, Control, OneSpeaker, Numbered, [Next]_vars, TypeOK', Control',
                     ~forgotten'
              PROVE  Numbered'
  BY DEF Numbered
<1>0. /\ handler \in [Handler -> Request] /\ snapshot \in Snapshot \cup {NoSnapshot}
      /\ Known(snapshot).turn \in Nat
      /\ \A i \in DOMAIN answered : answered[i] \in Nat
  BY KnownType DEF TypeOK
<1>1. ASSUME NEW x \in Handler, Twilio(x) PROVE Numbered'
  <2>1. PICK r : Asks(x, r)
    BY <1>1, TwilioAsks
  <2>2. /\ handler' = [handler EXCEPT ![x] = r] /\ r.pc \in {"create", "find", "read"}
        /\ UNCHANGED <<snapshot, answered, forgotten>>
    BY <2>1 DEF Asks, Ask, callVars
  <2>3. \A y \in Handler : handler'[y].pc \in {"miss", "audit", "record", "clear"} =>
           handler'[y] = handler[y]
    BY <1>0, <2>2
  <2>. QED  BY <2>2, <2>3 DEF Numbered
<1>2. CASE HangUp \/ UNCHANGED vars
  BY <1>2 DEF HangUp, vars, callVars, historyVars, Numbered
<1>3. CASE Forget
  BY <1>3 DEF Forget
<1>4. ASSUME NEW x \in Handler, Webhook(x) PROVE Numbered'
  <2>0. ~forgotten
    BY <1>4, Effects
  <2>1. CASE ~Speaks(x)
    <3>1. /\ UNCHANGED <<snapshot, answered>> /\ handler'[x].pc \notin SpeechPoint
          /\ \A y \in Handler : y # x => handler'[y] = handler[y]
      BY <1>4, <2>1, QuietMoves
    <3>2. \A y \in Handler : handler'[y].pc \in SpeechPoint => handler'[y] = handler[y]
      BY <3>1
    <3>. QED  BY <2>0, <3>1, <3>2 DEF Numbered, SpeechPoint
  <2>2. CASE Speaks(x)
    <3>. DEFINE q == handler[x]
                r == handler'[x]
                n == Known(snapshot).turn
                m == Known(snapshot').turn
    <3>0. \A y \in Handler : y # x => handler'[y].pc \notin SpeechPoint
      BY <1>4, <2>2, SpeakerMoves
    <3>1. /\ r.pc = "miss" => q.pc = "load" /\ r.loaded = snapshot
          /\ r.pc = "audit" => q.pc = "turn" /\ WritesMemory(x) /\ r.loaded = snapshot'
          /\ r.pc = "record" => AuditRead(x) /\ r.loaded = q.loaded
          /\ r.pc = "clear" => (Record(x) \/ AuditFails(x)) /\ r.loaded = q.loaded
      BY <1>4, Carried
    <3>2. snapshot' \in Snapshot => Known(snapshot') = snapshot'
      BY TelephonyAssumption DEF Known
    <3>3. \/ m = n
          \/ q.pc = "turn" /\ WritesMemory(x) /\ snapshot' \in Snapshot /\ m = n + 1
      <4>1. CASE snapshot' = snapshot
        BY <4>1
      <4>2. CASE WritesMemory(x)
        <5>1. q.pc = "miss" => Known(q.loaded).turn = n
          BY <2>0 DEF Numbered
        <5>. QED  BY <3>2, <4>2, <5>1, MemoryWritten DEF At
      <4>. QED  BY <1>4, <4>1, <4>2, Effects
    <3>4. \A i \in DOMAIN answered : answered[i] <= n /\ answered[i] <= m
      BY <1>0, <2>0, <3>3 DEF Numbered
    <3>5. ~(q.pc \in {"miss", "turn", "clear"}) => snapshot' = snapshot
      BY <1>4, Effects, MemoryWritten
    <3>6. \/ answered' = answered
          \/ Clear(x) /\ q.pc = "clear" /\ q.loaded \in Snapshot /\ m = n /\ r = Idle
      <4>1. Clear(x) => q.pc = "clear" /\ q.loaded \in Snapshot /\ r = Idle
        BY <1>0 DEF Clear, At, Done, Control
      <4>. QED  BY <1>4, <3>3, <4>1, Effects
    <3>7. \A i \in DOMAIN answered' :
             /\ answered'[i] <= m
             /\ \A j \in DOMAIN answered' \ {i} : answered'[j] # answered'[i]
      <4>1. CASE answered' = answered
        BY <2>0, <3>4, <4>1 DEF Numbered
      <4>2. CASE Clear(x) /\ q.pc = "clear" /\ q.loaded \in Snapshot /\ m = n
        <5>. DEFINE e == Len(answered) + 1
        <5>1. /\ DOMAIN answered' = DOMAIN answered \cup {e}
              /\ e \notin DOMAIN answered
              /\ answered'[e] = q.loaded.turn
              /\ \A i \in DOMAIN answered : answered'[i] = answered[i]
          BY <4>2, Answered
        <5>2. /\ q.loaded.turn = n
              /\ \A i \in DOMAIN answered : answered[i] < q.loaded.turn
              /\ \A i \in DOMAIN answered : \A j \in DOMAIN answered \ {i} :
                     answered[j] # answered[i]
          BY <2>0, <4>2 DEF Numbered
        <5>. HIDE DEF e
        <5>3. \A i \in DOMAIN answered' : answered'[i] <= m
          BY <1>0, <3>4, <4>2, <5>1, <5>2
        <5>4. ASSUME NEW i \in DOMAIN answered', NEW j \in DOMAIN answered' \ {i}
              PROVE  answered'[j] # answered'[i]
          <6>1. CASE i = e \/ j = e
            BY <1>0, <5>1, <5>2, <5>4, <6>1
          <6>2. CASE i # e /\ j # e
            BY <5>1, <5>2, <5>4, <6>2
          <6>. QED  BY <6>1, <6>2
        <5>. QED  BY <5>3, <5>4
      <4>. QED  BY <3>6, <4>1, <4>2
    <3>8. r.pc = "miss" => r.loaded = snapshot'
      BY <3>1, <3>5
    <3>9. r.pc \in {"audit", "record", "clear"} =>
             r.loaded.turn = m /\ \A i \in DOMAIN answered' : answered'[i] < r.loaded.turn
      <4>1. r.pc \in {"audit", "record", "clear"} => answered' = answered
        BY <3>6, IdleType
      <4>2. CASE r.pc = "audit"
        <5>1. r.loaded.turn = n + 1 /\ m = n + 1
          BY <3>1, <3>2, <4>2, MemoryWritten DEF At
        <5>. QED  BY <1>0, <3>4, <4>1, <4>2, <5>1
      <4>3. CASE r.pc \in {"record", "clear"}
        <5>1. q.pc \in {"audit", "record"}
          BY <3>1, <4>3, Guards DEF At
        <5>. QED  BY <2>0, <3>1, <3>5, <4>1, <4>3, <5>1 DEF Numbered
      <4>. QED  BY <4>2, <4>3
    <3>. QED  BY <3>0, <3>7, <3>8, <3>9 DEF Numbered, SpeechPoint
  <2>. QED  BY <2>1, <2>2
<1>. QED  BY <1>1, <1>2, <1>4, <1>3 DEF Next
--------------------------------------------------------------------------------
(* The theorems *)

LEMMA InitInv == Init => IInv
<1>. SUFFICES ASSUME Init PROVE IInv
  OBVIOUS
<1>. USE TelephonyAssumption
<1>1. handler = [x \in Handler |-> Idle] /\ row = NoRow /\ snapshot = NoSnapshot
      /\ line = "new" /\ asked = NoHandler /\ missed = 0 /\ answered = <<>>
  BY DEF Init
<1>2. \A x \in Handler : handler[x] = Idle /\ ~Speaks(x)
  BY <1>1, IdleType DEF Speaks
<1>3. Known(snapshot).misses = 0
  BY <1>1 DEF Known, Fresh
<1>4. TypeOK
  <2>1. AuditTypeOK
    BY DEF Init, AuditInit, AuditTypeOK
  <2>2. handler \in [Handler -> Request] /\ answered \in Seq(Nat)
    BY <1>1, IdleType
  <2>3. forgotten = FALSE /\ unaudited = FALSE /\ torn = FALSE /\ requests = 0
    BY DEF Init
  <2>4. {forgotten, unaudited, torn} \subseteq BOOLEAN
    BY <2>3, Zenon
  <2>6. requests \in 0..MaxRequests
    BY <2>3
  <2>5. row \in Row \cup {NoRow} /\ snapshot \in Snapshot \cup {NoSnapshot} /\ missed \in Nat
    BY <1>1
  <2>. QED  BY <1>1, <2>1, <2>2, <2>4, <2>5, <2>6 DEF TypeOK
<1>5. Control /\ OneSpeaker
  BY <1>1, <1>2, IdleType DEF Control, OneSpeaker
<1>6. Copies /\ FinalHasEnd /\ TransferIsRecorded /\ Escalated
  BY <1>1, <1>2, IdleType DEF Copies, FinalHasEnd, TransferIsRecorded, Escalated
<1>7. Counted /\ Exact
  BY <1>1, <1>2, <1>3, IdleType DEF Counted, Exact
<1>8. DOMAIN answered = {}
  BY <1>1
<1>9. Audited /\ Numbered
  BY <1>2, <1>8, IdleType DEF Audited, Numbered, At
<1>. QED  BY <1>4, <1>5, <1>6, <1>7, <1>9 DEF IInv

LEMMA NextInv == IInv /\ [Next]_vars => IInv'
<1>. SUFFICES ASSUME IInv, [Next]_vars PROVE IInv'
  OBVIOUS
<1>1. TypeOK'
  BY TypeStep DEF IInv
<1>2. Control' /\ OneSpeaker' /\ Copies'
  BY <1>1, ControlStep, SpeakerStep, CopiesStep DEF IInv
<1>3. FinalHasEnd' /\ TransferIsRecorded'
  BY <1>1, FinalStep, TransferStep DEF IInv
<1>4. Counted' /\ Exact' /\ Escalated'
  BY <1>1, <1>2, CountedStep, ExactStep, EscalatedStep DEF IInv
<1>5. Audited' /\ Numbered'
  BY <1>1, <1>2, AuditedStep, NumberedStep DEF IInv
<1>. QED  BY <1>1, <1>2, <1>3, <1>4, <1>5 DEF IInv

\* In every state of a call: one request of the caller is under way, and what it and the
\* others have of the call and of the conversation agrees with what is stored.
THEOREM TelephonyInvariance == Spec => []IInv
<1>1. Init => IInv
  BY InitInv
<1>2. IInv /\ [Next]_vars => IInv'
  BY NextInv
<1>. QED  BY <1>1, <1>2, PTL DEF Spec

\* Every variable has its type.
THEOREM TypeCorrectness == Spec => []TypeOK
<1>1. IInv => TypeOK
  BY DEF IInv
<1>. QED  BY <1>1, TelephonyInvariance, PTL

\* A caller who is listened to was not misheard MaxRetries times in a row.
THEOREM BoundedReprompts == Spec => []RepromptsBounded
<1>1. IInv => RepromptsBounded
  <2>. SUFFICES ASSUME IInv, line = "listening", ~forgotten PROVE missed < MaxRetries
    BY DEF RepromptsBounded
  <2>1. \A x \in Handler : ~Speaks(x)
    BY TelephonyAssumption DEF IInv, OneSpeaker, TypeOK
  <2>. QED  BY <2>1 DEF IInv, Exact
<1>. QED  BY <1>1, TelephonyInvariance, PTL

\* Staff are called for misses only after MaxRetries of them in a row.
THEOREM JustifiedEscalation == Spec => []EscalatedForCause
<1>1. IInv => EscalatedForCause
  BY DEF IInv, Escalated, EscalatedForCause
<1>. QED  BY <1>1, TelephonyInvariance, PTL

\* A call in a final status has an end, or gets it from the callback that is being handled.
THEOREM FinalCallEnds == Spec => []FinalHasEnd
<1>1. IInv => FinalHasEnd
  BY DEF IInv
<1>. QED  BY <1>1, TelephonyInvariance, PTL

\* A call with staff has the reason, or the error, in its row.
THEOREM RecordedTransfer == Spec => []TransferIsRecorded
<1>1. IInv => TransferIsRecorded
  BY DEF IInv
<1>. QED  BY <1>1, TelephonyInvariance, PTL

\* Every answer the caller got is to a turn in the audit, and to one of its own.
THEOREM AuditedAnswers == Spec => []AnsweredIsAudited
<1>1. IInv => AnsweredIsAudited
  BY DEF IInv, Audited, Numbered, AnsweredIsAudited
<1>. QED  BY <1>1, TelephonyInvariance, PTL

\* No request removes what another recorded of the call, though it may replace it, and none
\* reopens a call that is over but a callback that reports an earlier status.
THEOREM Recorded == Spec => RecordedStays
<1>1. IInv /\ [Next]_vars =>
         [row # NoRow =>
            /\ row' # NoRow
            /\ row.ended => row'.ended
            /\ row.timed => row'.timed
            /\ row.error => row'.error
            /\ row.reason # "none" => row'.reason # "none"
            /\ row.status \in Final /\ row'.status \notin Final =>
                 \E x \in Handler : At(x, "update") /\ handler[x].callback.status \notin Final]_vars
  <2>. SUFFICES ASSUME IInv, [Next]_vars, row # NoRow
                PROVE  /\ row' # NoRow
                       /\ Behind(row, row')
                       /\ row.status \in Final /\ row'.status \notin Final =>
                            \E x \in Handler :
                               At(x, "update") /\ handler[x].callback.status \notin Final
    BY DEF Behind
  <2>1. row' # NoRow /\ Behind(row, row')
    BY RowGrows DEF IInv
  <2>2. ASSUME row.status \in Final, row'.status \notin Final
        PROVE  \E x \in Handler : At(x, "update") /\ handler[x].callback.status \notin Final
    <3>1. PICK x \in Handler : WritesRow(x)
      BY <2>2, RowSteps
    <3>. QED  BY <2>2, <3>1, RowWritten DEF IInv
  <2>. QED  BY <2>1, <2>2
<1>. QED  BY <1>1, TelephonyInvariance, PTL DEF Spec, RecordedStays
================================================================================
