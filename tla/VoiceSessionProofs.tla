-------------------------- MODULE VoiceSessionProofs ---------------------------
(***************************************************************************)
(* Theorems about VoiceSession, for any number of connections and places   *)
(* and any lengths of utterances and answers.  The argument is about one   *)
(* connection, which every step changes at most one of: the handler and    *)
(* the turn each wait for the send lock at most once, what the handler     *)
(* announces of the turn is announced after it is true of the turn, and    *)
(* whether audio sounds follows from where the turn is, or an announced    *)
(* cut is yet to be sent.                                                  *)
(***************************************************************************)
EXTENDS VoiceSession, RateLimiterProofs

\* What the handler announces of the turn it does first, of all it has to do.
Special == {"audio.cut", "speech.ended", "ended.client"}
Tame(t) == \A i \in DOMAIN t : t[i] \notin Special

First(s, e) == s.todo # <<>> /\ Head(s.todo) = e

\* Who waits in a queue does so once.
Once(q)  == \A i, j \in DOMAIN q : q[i] = q[j] => i = j
In(q, p) == \E i \in DOMAIN q : q[i] = p

Wrote(s, p) == s.written /\ Head(s.queue) = p

Playing == {"start", "chunk", "pause"}

\* The turn has started its audio, and not ended it.
Audible(s) ==
    /\ ~s.turn.cancelled
    /\ \/ s.turn.at \in {"chunk", "pause"}
       \/ s.turn.at = "start" /\ Wrote(s, Turn)
       \/ s.turn.at = "end" /\ ~Wrote(s, Turn)

\* What the handler has to do.
Announces(s) ==
    /\ s.pc = "send" <=> s.todo # <<>>
    /\ s.todo # <<>> => Tame(Tail(s.todo))
    /\ First(s, "speech.ended") \/ First(s, "ended.client") => ~TurnRuns(s)
    /\ First(s, "audio.cut") /\ TurnRuns(s) => s.turn.cancelled

\* The send lock.
Queues(s) ==
    /\ Once(s.queue)
    /\ In(s.queue, Turn) <=> s.turn.at \in Sending
    /\ s.written => s.queue # <<>>

\* The handler waits for it to announce, but not for a commit.
HandlerQueues(s) == In(s.queue, Handler) <=> s.todo # <<>> /\ ~First(s, "commit")

\* The audio, as long as the client is there.
Plays(s) ==
    /\ s.turn.cancelled => s.turn.at \in Playing
    /\ s.gone \/
       /\ s.playing => s.turn.at \in Playing /\ ~s.turn.cancelled
       /\ Audible(s) => s.sounding

Sounds(s) ==
    ~s.gone /\ s.sounding => Audible(s) \/ (First(s, "audio.cut") /\ ~Wrote(s, Handler))

Good(s) == Announces(s) /\ Queues(s) /\ HandlerQueues(s) /\ Plays(s) /\ Sounds(s)

IInv ==
    /\ RateInv
    /\ sessions \subseteq Client
    /\ conn \in [Client -> Connection]
    /\ \A c \in Client : Good(conn[c])
--------------------------------------------------------------------------------
(* Sequences *)

\* The first element and the others.
LEMMA FirstAndRest ==
    ASSUME NEW S, NEW q \in Seq(S), q # <<>>
    PROVE  /\ Head(q) \in S /\ Head(q) = q[1] /\ 1 \in DOMAIN q
           /\ Tail(q) \in Seq(S)
           /\ \A i \in DOMAIN Tail(q) : i + 1 \in DOMAIN q /\ Tail(q)[i] = q[i + 1] /\ i + 1 # 1
           /\ \A i \in DOMAIN q : i = 1 \/ (i - 1 \in DOMAIN Tail(q) /\ Tail(q)[i - 1] = q[i])
  OBVIOUS

\* Who joins a queue is its last.
LEMMA Joins ==
    ASSUME NEW S, NEW q \in Seq(S), Once(q), NEW p \in S, ~In(q, p)
    PROVE  /\ Append(q, p) \in Seq(S) /\ Append(q, p) # <<>> /\ Once(Append(q, p))
           /\ \A r : In(Append(q, p), r) <=> In(q, r) \/ r = p
           /\ Head(Append(q, p)) = IF q = <<>> THEN p ELSE Head(q)
<1>1. /\ Append(q, p) \in Seq(S) /\ Len(Append(q, p)) = Len(q) + 1
      /\ DOMAIN Append(q, p) = 1..(Len(q) + 1) /\ DOMAIN q = 1..Len(q) /\ Len(q) \in Nat
      /\ Append(q, p)[Len(q) + 1] = p
      /\ \A i \in DOMAIN q : Append(q, p)[i] = q[i]
  OBVIOUS
<1>2. Once(Append(q, p))
  BY <1>1 DEF Once, In
<1>3. \A r : In(Append(q, p), r) <=> In(q, r) \/ r = p
  BY <1>1 DEF In
<1>4. Append(q, p) # <<>> /\ Head(Append(q, p)) = IF q = <<>> THEN p ELSE Head(q)
  <2>1. CASE q = <<>>
    BY <1>1, <2>1
  <2>2. CASE q # <<>>
    BY <1>1, <2>2
  <2>. QED  BY <2>1, <2>2
<1>. QED  BY <1>1, <1>2, <1>3, <1>4

\* Who leaves it was its first, and is not in it.
LEMMA Leaves ==
    ASSUME NEW S, NEW q \in Seq(S), Once(q), q # <<>>
    PROVE  /\ Tail(q) \in Seq(S) /\ Head(q) \in S /\ Once(Tail(q))
           /\ In(q, Head(q))
           /\ \A r : In(Tail(q), r) <=> In(q, r) /\ r # Head(q)
<1>1. /\ Head(q) \in S /\ Head(q) = q[1] /\ 1 \in DOMAIN q
      /\ Tail(q) \in Seq(S)
      /\ \A i \in DOMAIN Tail(q) : i + 1 \in DOMAIN q /\ Tail(q)[i] = q[i + 1] /\ i + 1 # 1
      /\ \A i \in DOMAIN q : i = 1 \/ (i - 1 \in DOMAIN Tail(q) /\ Tail(q)[i - 1] = q[i])
  BY FirstAndRest
<1>2. DOMAIN Tail(q) \subseteq Int /\ DOMAIN q \subseteq Int
  OBVIOUS
<1>3. Once(Tail(q))
  BY <1>1, <1>2 DEF Once
<1>4. ASSUME NEW r PROVE In(Tail(q), r) <=> In(q, r) /\ r # Head(q)
  <2>1. ASSUME NEW i \in DOMAIN Tail(q), Tail(q)[i] = r PROVE In(q, r) /\ r # Head(q)
    <3>1. i + 1 \in DOMAIN q /\ q[i + 1] = r /\ i + 1 # 1
      BY <1>1, <2>1
    <3>. QED  BY <1>1, <3>1 DEF Once, In
  <2>2. ASSUME NEW i \in DOMAIN q, q[i] = r, r # Head(q) PROVE In(Tail(q), r)
    <3>1. i - 1 \in DOMAIN Tail(q) /\ Tail(q)[i - 1] = r
      BY <1>1, <2>2
    <3>. QED  BY <3>1 DEF In
  <2>. QED  BY <2>1, <2>2 DEF In
<1>. QED  BY <1>1, <1>3, <1>4 DEF In

\* What one alone has to do.
LEMMA Alone ==
    ASSUME NEW S, NEW e \in S
    PROVE  /\ <<e>> \in Seq(S) /\ <<e>> # <<>> /\ Head(<<e>>) = e /\ Tail(<<e>>) = <<>>
           /\ Once(<<e>>) /\ \A r : In(<<e>>, r) <=> r = e
  BY DEF Once, In

LEMMA NoneAlone ==
    ASSUME NEW S
    PROVE  /\ <<>> \in Seq(S) /\ Once(<<>>) /\ Tame(<<>>)
           /\ \A r : ~In(<<>>, r)
  BY DEF Once, In, Tame

\* One more to do before the others.
LEMMA Prefixed ==
    ASSUME NEW S, NEW a \in S, NEW q \in Seq(S), NEW r, r = <<a>> \o q
    PROVE  /\ r \in Seq(S) /\ r # <<>> /\ Head(r) = a
           /\ \A i \in DOMAIN Tail(r) : i \in DOMAIN q /\ Tail(r)[i] = q[i]
           /\ \A i \in DOMAIN r : i = 1 \/ (i - 1 \in DOMAIN q /\ r[i] = q[i - 1])
<1>1. /\ r \in Seq(S) /\ Len(r) = 1 + Len(q) /\ r[1] = a
      /\ \A i \in DOMAIN r : i = 1 \/ (i - 1 \in DOMAIN q /\ r[i] = q[i - 1])
  OBVIOUS
<1>2. r # <<>> /\ Head(r) = a
  BY <1>1
<1>3. ASSUME NEW i \in DOMAIN Tail(r) PROVE i \in DOMAIN q /\ Tail(r)[i] = q[i]
  <2>1. i + 1 \in DOMAIN r /\ Tail(r)[i] = r[i + 1] /\ i + 1 # 1 /\ i \in Int /\ i + 1 - 1 = i
    BY <1>1, <1>2, FirstAndRest
  <2>. QED  BY <1>1, <2>1
<1>. QED  BY <1>1, <1>2, <1>3
--------------------------------------------------------------------------------
(* The handler goes on *)

Task == Event \cup {"commit"}

\* What an old session has to do at the top of the loop.
LEMMA TopType ==
    ASSUME NEW s \in Connection
    PROVE  /\ Top(s) \in Seq(Task)
           /\ Top(s) # <<>> => Head(Top(s)) = "ended.time" /\ Tail(Top(s)) = <<>>
<1>1. Top(s) = <<"ended.time">> \/ Top(s) = <<>>
  BY DEF Top
<1>2. "ended.time" \in Task
  BY DEF Task, Event
<1>3. CASE Top(s) = <<"ended.time">>
  BY <1>2, <1>3, Alone
<1>4. CASE Top(s) = <<>>
  BY <1>4
<1>. QED  BY <1>1, <1>3, <1>4

\* The handler as it goes on.
LEMMA DoingIs ==
    ASSUME NEW s \in Connection, NEW e \in Seq(Task), ~In(s.queue, Handler), Once(s.queue),
           NEW t, t = Doing(s, e), NEW do, do = IF e = <<>> THEN Top(s) ELSE e
    PROVE  /\ t \in Connection
           /\ t.todo = do /\ (t.pc = "send" <=> do # <<>>) /\ do \in Seq(Task)
           /\ t.turn = s.turn /\ t.playing = s.playing /\ t.written = s.written
           /\ t.gone = s.gone /\ t.sounding = s.sounding
           /\ t.queue = IF do # <<>> /\ Head(do) # "commit" THEN Append(s.queue, Handler)
                                                          ELSE s.queue
<1>1. do \in Seq(Task)
  BY TopType
<1>. DEFINE p == IF do = <<>> THEN "receive" ELSE "send"
            q == IF do # <<>> /\ Head(do) # "commit" THEN Append(s.queue, Handler) ELSE s.queue
<1>2. t = [s EXCEPT !.pc = p, !.todo = do, !.queue = q]
  BY DEF Doing
<1>3. s.queue \in Seq({Handler, Turn}) /\ q \in Seq({Handler, Turn})
  BY Joins DEF Connection
<1>4. p \in {"receive", "send"} /\ (p = "send" <=> do # <<>>)
  OBVIOUS
<1>. HIDE DEF p, q
<1>5. t \in Connection
  BY <1>1, <1>2, <1>3, <1>4 DEF Connection, Task
<1>6. /\ t.todo = do /\ t.pc = p /\ t.queue = q
      /\ t.turn = s.turn /\ t.playing = s.playing /\ t.written = s.written
      /\ t.gone = s.gone /\ t.sounding = s.sounding
  BY <1>2 DEF Connection
<1>. QED  BY <1>1, <1>4, <1>5, <1>6 DEF q

\* It is well if what it is to do is true of the turn.
LEMMA DoingGood ==
    ASSUME NEW s \in Connection, NEW e \in Seq(Task), ~In(s.queue, Handler), Queues(s), Plays(s),
           e # <<>> => Tame(Tail(e)),
           e # <<>> /\ Head(e) \in {"speech.ended", "ended.client"} => ~TurnRuns(s),
           e # <<>> /\ Head(e) = "audio.cut" /\ TurnRuns(s) => s.turn.cancelled,
           ~s.gone /\ s.sounding => Audible(s) \/ (e # <<>> /\ Head(e) = "audio.cut")
    PROVE  LET t == Doing(s, e) IN
           t \in Connection /\ Good(t) /\ t.turn = s.turn /\ t.written = s.written
<1>. DEFINE t  == Doing(s, e)
            do == IF e = <<>> THEN Top(s) ELSE e
<1>1. /\ t \in Connection
      /\ t.todo = do /\ (t.pc = "send" <=> do # <<>>) /\ do \in Seq(Task)
      /\ t.turn = s.turn /\ t.playing = s.playing /\ t.written = s.written
      /\ t.gone = s.gone /\ t.sounding = s.sounding
      /\ t.queue = IF do # <<>> /\ Head(do) # "commit" THEN Append(s.queue, Handler) ELSE s.queue
  BY DoingIs DEF Queues
<1>2. /\ do # <<>> => Tame(Tail(do))
      /\ do # <<>> /\ Head(do) \in {"speech.ended", "ended.client"} => ~TurnRuns(s)
      /\ do # <<>> /\ Head(do) = "audio.cut" => e # <<>> /\ Head(e) = "audio.cut"
      /\ e # <<>> => do = e
  BY TopType, NoneAlone
<1>. HIDE DEF t, do
<1>3. s.queue \in Seq({Handler, Turn}) /\ Once(s.queue)
  BY DEF Connection, Queues
<1>4. /\ Once(t.queue)
      /\ In(t.queue, Turn) <=> In(s.queue, Turn)
      /\ In(t.queue, Handler) <=> do # <<>> /\ Head(do) # "commit"
      /\ s.queue # <<>> => t.queue # <<>> /\ Head(t.queue) = Head(s.queue)
  BY <1>1, <1>3, Joins DEF Handler, Turn
<1>5. s.written => s.queue # <<>> /\ Head(s.queue) # Handler /\ In(s.queue, Head(s.queue))
  BY <1>3, Leaves DEF Queues
<1>6. Announces(t)
  BY <1>1, <1>2 DEF Announces, First, TurnRuns
<1>7. Queues(t) /\ HandlerQueues(t)
  BY <1>1, <1>4, <1>5 DEF Queues, HandlerQueues, First
<1>8. Audible(t) <=> Audible(s)
  BY <1>1, <1>4, <1>5 DEF Audible, Wrote
<1>9. Plays(t)
  BY <1>1, <1>8 DEF Plays
<1>10. Sounds(t)
  BY <1>1, <1>2, <1>4, <1>5, <1>8 DEF Sounds, First, Wrote
<1>. QED  BY <1>1, <1>6, <1>7, <1>9, <1>10 DEF Good, t
--------------------------------------------------------------------------------
(* What a step may make of a connection *)

\* A connection that is well; whose new turn does not replace one that runs; and what it
\* wrote to the wire was due.
Fine(s, t) ==
    /\ t \in Connection
    /\ Good(t)
    /\ t.turn.at = "listen" /\ s.turn.at # "listen" => ~TurnRuns(s)
    /\ ~s.written /\ t.written =>
          /\ Due(s) = "start" => ~s.sounding
          /\ Due(s) \in {"chunk", "end"} => s.sounding
          /\ Due(s) = "ended.client" => ~TurnRuns(s)

Changes(c) == \E t : conn' = [conn EXCEPT ![c] = t] /\ Fine(conn[c], t)

\* A connection before it opens, and after it closed.
LEMMA AwayGood == Away \in Connection /\ Good(Away) /\ Away.turn.at = "none" /\ ~Away.written
<1>. USE VoiceAssumption
<1>1. NoTurn \in TurnState /\ Empty \in Buffer
  BY DEF NoTurn, TurnState, Finished, Empty, Buffer, MostFrames
<1>2. Away \in Connection
  BY <1>1, NoneAlone DEF Away, Connection
<1>3. Announces(Away) /\ Queues(Away) /\ HandlerQueues(Away)
  BY NoneAlone DEF Away, NoTurn, Announces, Queues, HandlerQueues, First, Sending, TurnRuns
<1>4. Plays(Away) /\ Sounds(Away)
  BY DEF Away, NoTurn, Plays, Sounds, Audible
<1>. QED  BY <1>2, <1>3, <1>4 DEF Good, Away, NoTurn

\* It may close whenever it does.
LEMMA Closes ==
    ASSUME NEW c \in Client, Becomes(c, Away)
    PROVE  Changes(c)
  BY AwayGood DEF Changes, Becomes, Fine

\* What of a connection does not matter here.
Same(s, t) ==
    /\ t.pc = s.pc /\ t.todo = s.todo /\ t.turn = s.turn /\ t.playing = s.playing
    /\ t.queue = s.queue /\ t.written = s.written /\ t.gone = s.gone /\ t.sounding = s.sounding

LEMMA SameGood ==
    ASSUME NEW s, NEW t, Same(s, t), Good(s)
    PROVE  Good(t)
<1>1. Announces(t)
  BY DEF Same, Good, Announces, First, TurnRuns
<1>2. Queues(t) /\ HandlerQueues(t)
  BY DEF Same, Good, Queues, HandlerQueues, First
<1>3. Plays(t) /\ Sounds(t)
  BY DEF Same, Good, Plays, Sounds, Audible, Wrote, First
<1>. QED  BY <1>1, <1>2, <1>3 DEF Good

\* A handler that does not announce does not wait for the lock; audio that sounds is the
\* turn's.
LEMMA Calm ==
    ASSUME NEW s, Good(s), s.pc # "send"
    PROVE  /\ s.todo = <<>> /\ ~In(s.queue, Handler) /\ Queues(s) /\ Plays(s)
           /\ ~s.gone /\ s.sounding => Audible(s)
  BY DEF Good, Announces, HandlerQueues, Sounds, First

\* It answers with one event.
LEMMA Replies ==
    ASSUME NEW s \in Connection, Good(s), s.pc # "send",
           NEW e \in {"reply", "commit", "ended.time", "ended.client"},
           e = "ended.client" => ~TurnRuns(s)
    PROVE  LET t == Doing(s, <<e>>) IN
           t \in Connection /\ Good(t) /\ t.turn = s.turn /\ t.written = s.written
<1>1. e \in Task
  BY DEF Task, Event
<1>2. <<e>> \in Seq(Task) /\ Head(<<e>>) = e /\ Tail(<<e>>) = <<>> /\ <<e>> # <<>>
  BY <1>1, Alone
<1>. QED  BY <1>2, Calm, NoneAlone, DoingGood

LEMMA Answers ==
    ASSUME NEW c \in Client, NEW s \in Connection, NEW t, Same(conn[c], s),
           Good(conn[c]), conn[c].pc # "send",
           NEW e \in {"reply", "commit", "ended.time", "ended.client"},
           e = "ended.client" => ~TurnRuns(s),
           Set(c, Doing(s, <<e>>))
    PROVE  Changes(c)
<1>1. Good(s) /\ s.pc # "send" /\ s.turn = conn[c].turn /\ s.written = conn[c].written
  BY SameGood DEF Same
<1>2. LET u == Doing(s, <<e>>) IN
      u \in Connection /\ Good(u) /\ u.turn = s.turn /\ u.written = s.written
  BY <1>1, Replies
<1>. QED  BY <1>1, <1>2 DEF Changes, Set, Becomes, Fine

\* Messages that are answered, and time that runs out.
LEMMA AnsweringSteps ==
    ASSUME NEW c \in Client, conn[c] \in Connection, Good(conn[c]),
           TimeOut(c) \/ StartSession(c) \/ AudioCommit(c) \/ BadFrame(c) \/ OtherMessage(c)
             \/ ResetEnds(c) \/ Join(c)
    PROVE  Changes(c)
<1>. DEFINE s == conn[c]
<1>1. Same(s, s)
  BY DEF Same
<1>2. CASE TimeOut(c) \/ AudioCommit(c) \/ BadFrame(c) \/ OtherMessage(c)
  <2>1. /\ s.pc # "send"
        /\ Finish(c) \/ \E e \in {"reply", "commit", "ended.time"} : Set(c, Doing(s, <<e>>))
    BY <1>2 DEF TimeOut, AudioCommit, BadFrame, OtherMessage, Reads, At
  <2>. QED  BY <1>1, <2>1, Answers, Closes DEF Finish
<1>3. CASE StartSession(c)
  <2>. DEFINE t == [s EXCEPT !.ready = TRUE]
  <2>1. t \in Connection /\ Same(s, t)
    BY DEF Connection, Same
  <2>2. s.pc # "send" /\ Set(c, Doing(t, <<"reply">>))
    BY <1>3 DEF StartSession, Reads, At
  <2>. HIDE DEF t
  <2>. QED  BY <2>1, <2>2, Answers
<1>4. CASE ResetEnds(c)
  <2>1. s.pc # "send"
        /\ (Finish(c) \/ \E e \in {"reply", "ended.time"} : Set(c, Doing(s, <<e>>)))
    BY <1>4 DEF ResetEnds, At
  <2>. QED  BY <1>1, <2>1, Answers, Closes DEF Finish
<1>5. CASE Join(c)
  <2>1. s.pc # "send"
        /\ (Finish(c) \/ (~TurnRuns(s) /\ Set(c, Doing(s, <<"ended.client">>))))
    BY <1>5 DEF Join, At, TurnRuns, Finished
  <2>. QED  BY <1>1, <2>1, Answers, Closes DEF Finish
<1>. QED  BY <1>2, <1>3, <1>4, <1>5

\* The handler waits where it does not announce.
LEMMA Moves ==
    ASSUME NEW c \in Client, conn[c] \in Connection, Good(conn[c]), conn[c].pc # "send",
           NEW p \in {"check", "receive", "reset", "join"},
           Becomes(c, [conn[c] EXCEPT !.pc = p])
    PROVE  Changes(c)
<1>. DEFINE s == conn[c]
            t == [s EXCEPT !.pc = p]
<1>1. /\ t \in Connection
      /\ t.pc = p /\ t.todo = s.todo /\ t.turn = s.turn /\ t.playing = s.playing
      /\ t.queue = s.queue /\ t.written = s.written /\ t.gone = s.gone /\ t.sounding = s.sounding
  BY DEF Connection
<1>. HIDE DEF t
<1>2. Announces(t)
  BY <1>1 DEF Good, Announces, First, TurnRuns
<1>3. Queues(t) /\ HandlerQueues(t)
  BY <1>1 DEF Good, Queues, HandlerQueues, First
<1>4. Plays(t) /\ Sounds(t)
  BY <1>1 DEF Good, Plays, Sounds, Audible, Wrote, First
<1>5. Good(t)
  BY <1>2, <1>3, <1>4 DEF Good
<1>. QED  BY <1>1, <1>5 DEF Changes, Becomes, Fine, t

\* A message that makes it wait, the age of the session, and a lost connection.
LEMMA WaitingSteps ==
    ASSUME NEW c \in Client, conn[c] \in Connection, Good(conn[c]),
           ResetConversation(c) \/ EndSession(c) \/ TimeUp(c) \/ Vanish(c)
    PROVE  Changes(c)
<1>. DEFINE s == conn[c]
<1>1. Same(s, s)
  BY DEF Same
<1>2. CASE ResetConversation(c)
  BY <1>2, Moves DEF ResetConversation, Reads, At, Set
<1>3. CASE EndSession(c)
  <2>1. CASE s.turn.at = "none"
    <3>1. s.pc # "send" /\ ~TurnRuns(s) /\ Set(c, Doing(s, <<"ended.client">>))
      BY <1>3, <2>1 DEF EndSession, Reads, At, TurnRuns, Finished
    <3>. QED  BY <1>1, <3>1, Answers
  <2>2. CASE s.turn.at # "none"
    BY <1>3, <2>2, Moves DEF EndSession, Reads, At, Set
  <2>. QED  BY <2>1, <2>2
<1>4. CASE TimeUp(c)
  <2>. DEFINE t == [s EXCEPT !.overtime = TRUE]
  <2>1. t \in Connection /\ Same(s, t)
    BY DEF Connection, Same
  <2>2. Set(c, t)
    BY <1>4 DEF TimeUp
  <2>. HIDE DEF t
  <2>. QED  BY <2>1, <2>2, SameGood DEF Changes, Set, Becomes, Fine, Same
<1>5. CASE Vanish(c)
  <2>. DEFINE t == [s EXCEPT !.gone = TRUE]
  <2>1. /\ t \in Connection
        /\ t.pc = s.pc /\ t.todo = s.todo /\ t.turn = s.turn /\ t.playing = s.playing
        /\ t.queue = s.queue /\ t.written = s.written /\ t.gone /\ t.sounding = s.sounding
    BY DEF Connection
  <2>2. Set(c, t)
    BY <1>5 DEF Vanish
  <2>. HIDE DEF t
  <2>3. Good(t)
    <3>1. Announces(t)
      BY <2>1 DEF Good, Announces, First, TurnRuns
    <3>2. Queues(t) /\ HandlerQueues(t)
      BY <2>1 DEF Good, Queues, HandlerQueues, First
    <3>3. Plays(t) /\ Sounds(t)
      BY <2>1 DEF Good, Plays, Sounds
    <3>. QED  BY <3>1, <3>2, <3>3 DEF Good
  <2>. QED  BY <2>1, <2>2, <2>3 DEF Changes, Set, Becomes, Fine
<1>. QED  BY <1>2, <1>3, <1>4, <1>5
--------------------------------------------------------------------------------
(* The handler cuts the assistant short *)

\* A turn that is cut is cancelled while it plays, and the cut is to be announced first.
LEMMA Cuts ==
    ASSUME NEW s \in Connection, Good(s), s.pc = "receive", ~s.gone, NEW e \in Seq(Task),
           Interruptible(s) => e # <<>> /\ Head(e) = "audio.cut" /\ Tame(Tail(e)),
           ~Interruptible(s) => Tame(e)
    PROVE  LET t == Doing(Cut(s), e) IN
           t \in Connection /\ Good(t) /\ t.turn.at = s.turn.at /\ t.written = s.written
<1>. DEFINE u == Cut(s)
<1>1. /\ s.todo = <<>> /\ ~In(s.queue, Handler) /\ Queues(s) /\ Plays(s)
      /\ s.sounding => Audible(s)
  BY Calm
<1>2. s.turn \in TurnState
  BY DEF Connection
<1>3. CASE Interruptible(s)
  <2>. DEFINE w == [s.turn EXCEPT !.cancelled = TRUE]
  <2>1. w \in TurnState /\ w.at = s.turn.at /\ w.cancelled
    BY <1>2 DEF TurnState
  <2>2. u = [s EXCEPT !.playing = FALSE, !.turn = w]
    BY <1>2, <1>3 DEF Cut, Connection
  <2>. HIDE DEF w
  <2>3. /\ u \in Connection /\ u.turn = w /\ ~u.playing
        /\ u.queue = s.queue /\ u.written = s.written /\ u.gone = s.gone /\ u.sounding = s.sounding
    BY <2>1, <2>2 DEF Connection
  <2>4. s.turn.at \in Playing
    BY <1>1, <1>3 DEF Interruptible, Plays
  <2>. HIDE DEF u
  <2>5. Queues(u) /\ ~In(u.queue, Handler)
    BY <1>1, <2>1, <2>3 DEF Queues
  <2>6. Plays(u)
    BY <2>1, <2>3, <2>4 DEF Plays, Audible
  <2>7. LET t == Doing(u, e) IN
        t \in Connection /\ Good(t) /\ t.turn = u.turn /\ t.written = u.written
    BY <1>3, <2>1, <2>3, <2>5, <2>6, DoingGood
  <2>. QED  BY <2>1, <2>3, <2>7 DEF u
<1>4. CASE ~Interruptible(s)
  <2>1. u = s
    BY <1>4 DEF Cut
  <2>2. e # <<>> => Head(e) \notin Special /\ Tame(Tail(e))
    BY <1>4, FirstAndRest DEF Tame
  <2>3. LET t == Doing(s, e) IN
        t \in Connection /\ Good(t) /\ t.turn = s.turn /\ t.written = s.written
    BY <1>1, <2>2, DoingGood DEF Special
  <2>. QED  BY <2>1, <2>3
<1>. QED  BY <1>3, <1>4

LEMMA InterruptStep ==
    ASSUME NEW c \in Client, conn[c] \in Connection, Good(conn[c]), Interrupt(c)
    PROVE  Changes(c)
<1>. DEFINE s == conn[c]
            e == CutEvents(s)
<1>1. s.pc = "receive" /\ ~s.gone /\ Set(c, Doing(Cut(s), e))
  BY DEF Interrupt, Reads, At
<1>2. /\ e \in Seq(Task)
      /\ Interruptible(s) => e # <<>> /\ Head(e) = "audio.cut" /\ Tame(Tail(e))
      /\ ~Interruptible(s) => Tame(e)
  <2>1. CASE Interruptible(s)
    <3>1. e = <<"audio.cut">> /\ "audio.cut" \in Task
      BY <2>1 DEF CutEvents, Task, Event
    <3>. HIDE DEF e
    <3>2. e \in Seq(Task) /\ Head(e) = "audio.cut" /\ Tail(e) = <<>> /\ e # <<>>
      BY <3>1, Alone
    <3>. QED  BY <2>1, <3>2, NoneAlone
  <2>2. CASE ~Interruptible(s)
    BY <2>2, NoneAlone DEF CutEvents
  <2>. QED  BY <2>1, <2>2
<1>. HIDE DEF e
<1>3. LET t == Doing(Cut(s), e) IN
      t \in Connection /\ Good(t) /\ t.turn.at = s.turn.at /\ t.written = s.written
  BY <1>1, <1>2, Cuts
<1>. QED  BY <1>1, <1>3 DEF Changes, Set, Becomes, Fine

\* One more to do before the others.
LEMMA DoFirst ==
    ASSUME NEW k \in Task, NEW d \in Seq(Task), Tame(d), NEW r, r = <<k>> \o d
    PROVE  /\ r \in Seq(Task) /\ r # <<>> /\ Head(r) = k /\ Tame(Tail(r))
           /\ k \notin Special => Tame(r)
<1>1. /\ r \in Seq(Task) /\ r # <<>> /\ Head(r) = k
      /\ \A i \in DOMAIN Tail(r) : i \in DOMAIN d /\ Tail(r)[i] = d[i]
      /\ \A i \in DOMAIN r : i = 1 \/ (i - 1 \in DOMAIN d /\ r[i] = d[i - 1])
  BY Prefixed
<1>. QED  BY <1>1, FirstAndRest DEF Tame

\* What the handler has to do for a frame in which speech starts.
LEMMA StartedTodo ==
    ASSUME NEW s, NEW rest \in Seq(Task), Tame(rest),
           NEW e, e = CutEvents(s) \o <<"speech.started">> \o rest
    PROVE  /\ e \in Seq(Task)
           /\ Interruptible(s) => e # <<>> /\ Head(e) = "audio.cut" /\ Tame(Tail(e))
           /\ ~Interruptible(s) => Tame(e)
<1>1. "speech.started" \in Task /\ "audio.cut" \in Task /\ "speech.started" \notin Special
  BY DEF Task, Event, Special
<1>2. PICK d \in Seq(Task) : Tame(d) /\ d = <<"speech.started">> \o rest
  <2>1. <<"speech.started">> \o rest \in Seq(Task)
    BY <1>1
  <2>2. ASSUME NEW d, d = <<"speech.started">> \o rest PROVE Tame(d)
    BY <1>1, <2>2, DoFirst
  <2>. QED  BY <2>1, <2>2
<1>3. CASE Interruptible(s)
  <2>1. e = <<"audio.cut">> \o d
    BY <1>2, <1>3 DEF CutEvents
  <2>2. \A k \in Task : \A r : r = <<k>> \o d =>
            r \in Seq(Task) /\ r # <<>> /\ Head(r) = k /\ Tame(Tail(r))
    BY <1>2, DoFirst
  <2>. QED  BY <1>1, <1>3, <2>1, <2>2
<1>4. CASE ~Interruptible(s)
  <2>1. e = d
    BY <1>2, <1>4 DEF CutEvents
  <2>. QED  BY <1>2, <1>4, <2>1
<1>. QED  BY <1>3, <1>4

\* A frame leaves the buffer within its bounds: appended to an utterance that is not full,
\* or to the frames from before the speech, or after these began an utterance.
LEMMA HeardType ==
    ASSUME NEW b \in Buffer, NEW speech \in BOOLEAN, ~Full(b)
    PROVE  Heard(b, speech) \in Buffer
<1>. DEFINE frames  == b.frames + 1
            voiced  == IF speech THEN AtMost(b.speech + 1, MinSpeech) ELSE b.speech
            silence == IF speech THEN 0 ELSE AtMost(b.silence + 1, EndSilence)
<1>1. /\ frames \in 0..MostFrames /\ b.pre \in 0..PreFrames
      /\ voiced \in 0..MinSpeech /\ silence \in 0..EndSilence
  BY VoiceAssumption DEF Buffer, MostFrames, Full, AtMost
<1>2. Heard(b, speech) =
        [frames |-> frames, pre |-> b.pre, speech |-> voiced, silence |-> silence]
  BY DEF Heard
<1>. HIDE DEF frames, voiced, silence
<1>. QED  BY <1>1, <1>2 DEF Buffer

LEMMA BeforeSpeechType ==
    ASSUME NEW b \in Buffer
    PROVE  Opened(b) \in Buffer /\ Kept(b) \in Buffer
<1>1. 0..PreFrames \subseteq 0..MostFrames /\ 0 \in 0..PreFrames
  BY VoiceAssumption DEF MostFrames
<1>2. Opened(b) \in Buffer
  BY <1>1 DEF Opened, Buffer
<1>3. AtMost(b.pre + 1, PreFrames) \in 0..PreFrames
  BY VoiceAssumption DEF Buffer, AtMost
<1>4. Kept(b) \in Buffer
  BY <1>3 DEF Kept, Buffer
<1>. QED  BY <1>2, <1>4

\* A frame of audio, of speech or not.
LEMMA FrameStep ==
    ASSUME NEW c \in Client, conn[c] \in Connection, Good(conn[c]), NEW speech \in BOOLEAN,
           Frame(c, speech)
    PROVE  Changes(c)
<1>. DEFINE s       == conn[c]
            started == Started(s, speech)
            spoken  == s.speaking \/ started
            opened  == IF started THEN Opened(s.buffer) ELSE s.buffer
            full    == spoken /\ Full(opened)
            buffer  == IF ~spoken THEN Kept(opened)
                       ELSE IF full THEN opened ELSE Heard(opened, speech)
            rest    == IF full THEN <<"reply">> ELSE IF Enough(buffer) THEN <<"commit">> ELSE <<>>
            heard   == [s EXCEPT !.vad = speech, !.speaking = spoken, !.buffer = buffer]
            e       == CutEvents(s) \o <<"speech.started">> \o rest
<1>1. /\ s.pc = "receive" /\ ~s.gone
      /\ Set(c, IF started THEN Doing(Cut(heard), e) ELSE Doing(heard, rest))
  BY DEF Frame, Reads, At
<1>2. s.buffer \in Buffer /\ s.vad \in BOOLEAN /\ s.speaking \in BOOLEAN
  BY DEF Connection
<1>3. buffer \in Buffer
  <2>1. opened \in Buffer
    BY <1>2, BeforeSpeechType
  <2>. HIDE DEF opened
  <2>. QED  BY <2>1, HeardType, BeforeSpeechType
<1>4. spoken \in BOOLEAN
  BY <1>2 DEF Started
<1>5. rest \in {<<"reply">>, <<"commit">>, <<>>}
  OBVIOUS
<1>6. rest \in Seq(Task) /\ Tame(rest)
  <2>1. "reply" \in Task \ Special /\ "commit" \in Task \ Special
    BY DEF Task, Event, Special
  <2>2. \A k \in Task \ Special : <<k>> \in Seq(Task) /\ Tame(<<k>>)
    BY DEF Tame
  <2>. QED  BY <1>5, <2>1, <2>2, NoneAlone
<1>. HIDE DEF spoken, buffer, rest
<1>7. heard \in Connection /\ Same(s, heard)
  BY <1>3, <1>4 DEF Connection, Same
<1>. HIDE DEF heard
<1>8. /\ Good(heard) /\ heard.pc = "receive" /\ ~heard.gone
      /\ heard.turn = s.turn /\ heard.written = s.written
      /\ Interruptible(heard) <=> Interruptible(s)
  BY <1>1, <1>7, SameGood DEF Same, Interruptible, TurnRuns
<1>9. /\ e \in Seq(Task)
      /\ Interruptible(s) => e # <<>> /\ Head(e) = "audio.cut" /\ Tame(Tail(e))
      /\ ~Interruptible(s) => Tame(e)
  BY <1>6, StartedTodo
<1>. HIDE DEF e
<1>10. CASE started
  <2>1. LET t == Doing(Cut(heard), e) IN
        t \in Connection /\ Good(t) /\ t.turn.at = heard.turn.at /\ t.written = heard.written
    BY <1>7, <1>8, <1>9, Cuts
  <2>. QED  BY <1>1, <1>8, <1>10, <2>1 DEF Changes, Set, Becomes, Fine
<1>11. CASE ~started
  <2>1. /\ ~In(heard.queue, Handler) /\ Queues(heard) /\ Plays(heard)
        /\ heard.sounding => Audible(heard)
    BY <1>8, Calm
  <2>2. rest # <<>> => Head(rest) \notin Special /\ Tame(Tail(rest))
    BY <1>6, FirstAndRest DEF Tame
  <2>3. LET t == Doing(heard, rest) IN
        t \in Connection /\ Good(t) /\ t.turn = heard.turn /\ t.written = heard.written
    BY <1>6, <1>7, <2>1, <2>2, DoingGood DEF Special
  <2>. QED  BY <1>1, <1>8, <1>11, <2>3 DEF Changes, Set, Becomes, Fine
<1>. QED  BY <1>10, <1>11

\* The end of an utterance: it is refused, or announced when no turn runs.
LEMMA CommitStep ==
    ASSUME NEW c \in Client, conn[c] \in Connection, Good(conn[c]), Commit(c)
    PROVE  Changes(c)
<1>. DEFINE s == conn[c]
            u == [s EXCEPT !.buffer = Empty]
            w == [u EXCEPT !.vad = FALSE, !.speaking = FALSE]
<1>1. /\ s.pc = "send" /\ Head(s.todo) = "commit"
      /\ Set(c, IF Refused(s) THEN Doing(u, <<"reply">>) ELSE Doing(w, <<"speech.ended">>))
  BY DEF Commit, At
<1>2. Empty \in Buffer
  BY VoiceAssumption DEF Empty, Buffer, MostFrames
<1>3. u \in Connection /\ w \in Connection /\ Same(s, u) /\ Same(s, w)
  BY <1>2 DEF Connection, Same
<1>4. First(s, "commit")
  BY <1>1 DEF First, Good, Announces
<1>. HIDE DEF u, w
<1>5. ASSUME NEW v \in Connection, Same(s, v), NEW k \in {"reply", "speech.ended"},
             k = "speech.ended" => ~TurnRuns(v), Set(c, Doing(v, <<k>>))
      PROVE  Changes(c)
  <2>1. Good(v) /\ First(v, "commit") /\ v.turn = s.turn /\ v.written = s.written
    BY <1>4, <1>5, SameGood DEF Same, First
  <2>2. ~In(v.queue, Handler) /\ Queues(v) /\ Plays(v) /\ (~v.gone /\ v.sounding => Audible(v))
    BY <2>1 DEF Good, HandlerQueues, Sounds, First
  <2>3. k \in Task
    BY DEF Task, Event
  <2>4. <<k>> \in Seq(Task) /\ Head(<<k>>) = k /\ Tail(<<k>>) = <<>> /\ <<k>> # <<>>
    BY <2>3, Alone
  <2>5. LET t == Doing(v, <<k>>) IN
        t \in Connection /\ Good(t) /\ t.turn = v.turn /\ t.written = v.written
    BY <1>5, <2>2, <2>4, NoneAlone, DoingGood
  <2>. QED  BY <1>5, <2>1, <2>5 DEF Changes, Set, Becomes, Fine
<1>6. ~Refused(s) => ~TurnRuns(w)
  BY <1>3 DEF Refused, Same, TurnRuns
<1>. QED  BY <1>1, <1>3, <1>5, <1>6
--------------------------------------------------------------------------------
(* The turn goes on *)

\* A turn that runs and is not cancelled: the handler announces nothing of it, and audio
\* sounds just when the turn has started it.
LEMMA TurnGoesOn ==
    ASSUME NEW s, Good(s), TurnRuns(s), ~s.turn.cancelled,
           NEW t, t.pc = s.pc, t.todo = s.todo, t.gone = s.gone, t.sounding = s.sounding,
           Queues(t), In(t.queue, Handler) <=> In(s.queue, Handler), ~t.turn.cancelled,
           ~s.gone /\ t.playing => t.turn.at \in Playing,
           Audible(t) <=> Audible(s)
    PROVE  Good(t)
<1>1. ~First(s, "speech.ended") /\ ~First(s, "ended.client") /\ ~First(s, "audio.cut")
  BY DEF Good, Announces
<1>2. \A e : First(t, e) <=> First(s, e)
  BY DEF First
<1>3. Announces(t)
  BY <1>1, <1>2 DEF Good, Announces
<1>4. HandlerQueues(t)
  BY <1>2 DEF Good, HandlerQueues
<1>5. Plays(t) /\ Sounds(t)
  BY <1>1, <1>2 DEF Good, Plays, Sounds
<1>. QED  BY <1>3, <1>4, <1>5 DEF Good

\* It queues to send an event.
LEMMA SayingIs ==
    ASSUME NEW s \in Connection, Once(s.queue), ~In(s.queue, Turn), s.written => s.queue # <<>>,
           NEW a \in Sending, NEW t, t = Saying(s, a)
    PROVE  /\ t \in Connection /\ Queues(t) /\ ~Wrote(t, Turn)
           /\ In(t.queue, Handler) <=> In(s.queue, Handler)
           /\ t.turn.at = a /\ t.turn.cancelled = s.turn.cancelled
           /\ t.pc = s.pc /\ t.todo = s.todo /\ t.gone = s.gone /\ t.sounding = s.sounding
           /\ t.playing = s.playing /\ t.written = s.written
<1>. DEFINE w == [s.turn EXCEPT !.at = a]
            q == Append(s.queue, Turn)
<1>1. s.turn \in TurnState /\ s.queue \in Seq({Handler, Turn})
  BY DEF Connection
<1>2. w \in TurnState /\ w.at = a /\ w.cancelled = s.turn.cancelled
  BY <1>1 DEF TurnState
<1>3. t = [s EXCEPT !.turn = w, !.queue = q]
  BY <1>1 DEF Saying, Connection
<1>4. /\ q \in Seq({Handler, Turn}) /\ q # <<>> /\ Once(q) /\ In(q, Turn)
      /\ In(q, Handler) <=> In(s.queue, Handler)
      /\ Head(q) = IF s.queue = <<>> THEN Turn ELSE Head(s.queue)
  BY <1>1, Joins DEF Handler, Turn
<1>. HIDE DEF w, q
<1>5. t \in Connection
  BY <1>2, <1>3, <1>4 DEF Connection
<1>6. /\ t.turn = w /\ t.queue = q
      /\ t.pc = s.pc /\ t.todo = s.todo /\ t.gone = s.gone /\ t.sounding = s.sounding
      /\ t.playing = s.playing /\ t.written = s.written
  BY <1>3 DEF Connection
<1>7. Queues(t)
  BY <1>2, <1>4, <1>6 DEF Queues
<1>8. ~Wrote(t, Turn)
  <2>1. s.queue # <<>> => In(s.queue, Head(s.queue))
    BY <1>1, Leaves
  <2>. QED  BY <1>4, <1>6, <2>1 DEF Wrote
<1>. QED  BY <1>2, <1>4, <1>5, <1>6, <1>7, <1>8

\* It is new, or over.
LEMMA FreshTurn ==
    ASSUME NEW a \in {"listen", "done", "cancelled", "raised"}
    PROVE  LET w == [NoTurn EXCEPT !.at = a] IN
           w \in TurnState /\ w.at = a /\ ~w.cancelled /\ a \notin Sending
<1>1. a \in Finished \cup Sending \cup Working /\ a \notin Sending
  BY DEF Finished, Sending, Working
<1>2. NoTurn \in TurnState /\ NoTurn.cancelled = FALSE
  BY VoiceAssumption DEF NoTurn, TurnState, Finished
<1>. QED  BY <1>1, <1>2 DEF TurnState

\* It plays the next chunk, or the end.
LEMMA PlayIs ==
    ASSUME NEW s \in Connection, Once(s.queue), ~In(s.queue, Turn), s.written => s.queue # <<>>,
           ~s.turn.cancelled, NEW t, t = Play(s)
    PROVE  /\ t \in Connection /\ Queues(t) /\ Audible(t)
           /\ In(t.queue, Handler) <=> In(s.queue, Handler)
           /\ t.playing => t.turn.at \in Playing
           /\ ~t.turn.cancelled /\ t.turn.at # "listen"
           /\ t.pc = s.pc /\ t.todo = s.todo /\ t.gone = s.gone /\ t.sounding = s.sounding
           /\ t.written = s.written
<1>1. s.turn \in TurnState
  BY DEF Connection
<1>2. CASE s.turn.chunks > 0
  <2>. DEFINE w == [s.turn EXCEPT !.chunks = @ - 1]
              u == [s EXCEPT !.turn = w]
  <2>1. w \in TurnState /\ w.cancelled = s.turn.cancelled
    BY <1>1, <1>2, VoiceAssumption DEF TurnState
  <2>2. t = Saying(u, "chunk")
    BY <1>1, <1>2 DEF Play, Connection
  <2>. HIDE DEF w
  <2>3. /\ u \in Connection /\ u.turn = w /\ u.queue = s.queue /\ u.written = s.written
        /\ u.pc = s.pc /\ u.todo = s.todo /\ u.gone = s.gone /\ u.sounding = s.sounding
    BY <2>1 DEF Connection
  <2>. HIDE DEF u
  <2>4. /\ t \in Connection /\ Queues(t) /\ t.turn.at = "chunk"
        /\ In(t.queue, Handler) <=> In(u.queue, Handler)
        /\ t.turn.cancelled = u.turn.cancelled
        /\ t.pc = u.pc /\ t.todo = u.todo /\ t.gone = u.gone /\ t.sounding = u.sounding
        /\ t.written = u.written
    BY <2>2, <2>3, SayingIs DEF Sending
  <2>. QED  BY <2>1, <2>3, <2>4 DEF Audible, Playing
<1>3. CASE ~(s.turn.chunks > 0)
  <2>. DEFINE u == [s EXCEPT !.playing = FALSE]
  <2>1. t = Saying(u, "end")
    BY <1>3 DEF Play
  <2>2. /\ u \in Connection /\ u.turn = s.turn /\ u.queue = s.queue /\ u.written = s.written
        /\ u.pc = s.pc /\ u.todo = s.todo /\ u.gone = s.gone /\ u.sounding = s.sounding
        /\ ~u.playing
    BY DEF Connection
  <2>. HIDE DEF u
  <2>3. /\ t \in Connection /\ Queues(t) /\ t.turn.at = "end" /\ ~Wrote(t, Turn)
        /\ In(t.queue, Handler) <=> In(u.queue, Handler)
        /\ t.turn.cancelled = u.turn.cancelled /\ t.playing = u.playing
        /\ t.pc = u.pc /\ t.todo = u.todo /\ t.gone = u.gone /\ t.sounding = u.sounding
        /\ t.written = u.written
    BY <2>1, <2>2, SayingIs DEF Sending
  <2>. QED  BY <2>2, <2>3 DEF Audible
<1>. QED  BY <1>2, <1>3

\* Its work, up to the text, and between two chunks.
LEMMA WorkingStep ==
    ASSUME NEW c \in Client, conn[c] \in Connection, Good(conn[c]),
           Listen(c) \/ Chat(c) \/ Speak(c) \/ Resume(c)
    PROVE  Changes(c)
<1>. DEFINE s == conn[c]
<1>1. s.turn.at \in Working /\ ~s.turn.cancelled
  BY DEF Listen, Chat, Speak, Resume, TurnAt, Working
<1>2. TurnRuns(s) /\ s.turn.at \notin Sending
  BY <1>1 DEF TurnRuns, Finished, Sending, Working
<1>3. Queues(s) /\ ~In(s.queue, Turn) /\ Plays(s)
  BY <1>2 DEF Good, Queues
<1>4. s.turn \in TurnState
  BY DEF Connection
<1>5. ASSUME s.turn.at # "pause", NEW a \in {"chat", "speak"}, Set(c, [s EXCEPT !.turn.at = a])
      PROVE  Changes(c)
  <2>. DEFINE w == [s.turn EXCEPT !.at = a]
              t == [s EXCEPT !.turn = w]
  <2>1. w \in TurnState /\ w.at = a /\ ~w.cancelled
    BY <1>1, <1>4 DEF TurnState, Working
  <2>2. Set(c, t)
    BY <1>4, <1>5 DEF Connection
  <2>. HIDE DEF w
  <2>3. /\ t \in Connection /\ t.turn = w /\ t.playing = s.playing
        /\ t.pc = s.pc /\ t.todo = s.todo /\ t.gone = s.gone /\ t.sounding = s.sounding
        /\ t.queue = s.queue /\ t.written = s.written
    BY <2>1 DEF Connection
  <2>. HIDE DEF t
  <2>4. Queues(t)
    BY <1>3, <2>1, <2>3 DEF Queues, Sending
  <2>5. ~Audible(t) /\ ~Audible(s) /\ (~s.gone => ~t.playing)
    BY <1>1, <1>3, <1>5, <2>1, <2>3 DEF Audible, Plays, Playing, Working
  <2>6. Good(t)
    BY <1>1, <1>2, <2>1, <2>3, <2>4, <2>5, TurnGoesOn
  <2>. QED  BY <2>1, <2>2, <2>3, <2>6 DEF Changes, Set, Becomes, Fine
<1>6. ASSUME s.turn.at # "pause", NEW a \in {"error", "transcript"}, Set(c, Saying(s, a))
      PROVE  Changes(c)
  <2>. DEFINE t == Saying(s, a)
  <2>1. a \in Sending
    BY DEF Sending
  <2>2. /\ t \in Connection /\ Queues(t)
        /\ In(t.queue, Handler) <=> In(s.queue, Handler)
        /\ t.turn.at = a /\ t.turn.cancelled = s.turn.cancelled
        /\ t.pc = s.pc /\ t.todo = s.todo /\ t.gone = s.gone /\ t.sounding = s.sounding
        /\ t.playing = s.playing /\ t.written = s.written
    BY <1>3, <2>1, SayingIs DEF Queues
  <2>. HIDE DEF t
  <2>3. ~Audible(t) /\ ~Audible(s) /\ (~s.gone => ~t.playing)
    BY <1>1, <1>3, <1>6, <2>2 DEF Audible, Plays, Playing, Working
  <2>4. Good(t)
    BY <1>1, <1>2, <2>2, <2>3, TurnGoesOn
  <2>. QED  BY <1>6, <2>2, <2>4 DEF Changes, Set, Becomes, Fine, t
<1>7. CASE Listen(c) \/ Chat(c)
  <2>1. /\ s.turn.at # "pause"
        /\ \/ \E a \in {"chat", "speak"} : Set(c, [s EXCEPT !.turn.at = a])
           \/ Set(c, Saying(s, "error"))
    BY <1>7 DEF Listen, Chat, TurnAt
  <2>. QED  BY <1>5, <1>6, <2>1
<1>8. CASE Speak(c)
  BY <1>6, <1>8 DEF Speak, TurnAt
<1>9. CASE Resume(c)
  <2>. DEFINE t == Play(s)
  <2>1. s.turn.at = "pause" /\ Set(c, t)
    BY <1>9 DEF Resume, TurnAt
  <2>2. /\ t \in Connection /\ Queues(t) /\ Audible(t)
        /\ In(t.queue, Handler) <=> In(s.queue, Handler)
        /\ t.playing => t.turn.at \in Playing
        /\ ~t.turn.cancelled /\ t.turn.at # "listen"
        /\ t.pc = s.pc /\ t.todo = s.todo /\ t.gone = s.gone /\ t.sounding = s.sounding
        /\ t.written = s.written
    BY <1>1, <1>3, PlayIs DEF Queues
  <2>. HIDE DEF t
  <2>3. Audible(s)
    BY <1>1, <2>1 DEF Audible
  <2>4. Good(t)
    BY <1>1, <1>2, <2>2, <2>3, TurnGoesOn
  <2>. QED  BY <2>1, <2>2, <2>4 DEF Changes, Set, Becomes, Fine
<1>. QED  BY <1>7, <1>8, <1>9

\* A cancelled turn leaves the queue; the cut that cancelled it is still to be sent, if
\* there is someone to hear it.
LEMMA UnwindStep ==
    ASSUME NEW c \in Client, conn[c] \in Connection, Good(conn[c]), Unwind(c)
    PROVE  Changes(c)
<1>. DEFINE s == conn[c]
            w == [NoTurn EXCEPT !.at = "cancelled"]
            q == IF Waits(s, Handler) THEN <<Handler>> ELSE <<>>
            b == s.written /\ Head(s.queue) = Handler
            t == [s EXCEPT !.turn = w, !.queue = q, !.written = b]
<1>1. TurnRuns(s) /\ s.turn.cancelled /\ Set(c, t)
  BY DEF Unwind
<1>2. w \in TurnState /\ w.at = "cancelled" /\ ~w.cancelled
  BY FreshTurn
<1>3. /\ q \in Seq({Handler, Turn}) /\ Once(q) /\ ~In(q, Turn)
      /\ In(q, Handler) <=> In(s.queue, Handler)
      /\ In(s.queue, Handler) => q # <<>> /\ Head(q) = Handler
  BY Alone, NoneAlone DEF Waits, In, Handler, Turn
<1>4. b => In(s.queue, Handler)
  <2>1. s.queue \in Seq({Handler, Turn}) /\ Queues(s)
    BY DEF Connection, Good
  <2>. QED  BY <2>1, Leaves DEF Queues
<1>5. s.written \in BOOLEAN
  BY DEF Connection
<1>. HIDE DEF w, q
<1>6. b \in BOOLEAN /\ (b <=> Wrote(s, Handler))
  BY <1>5 DEF Wrote
<1>. HIDE DEF b
<1>7. /\ t \in Connection /\ t.turn = w /\ t.queue = q /\ t.written = b
      /\ t.pc = s.pc /\ t.todo = s.todo /\ t.gone = s.gone /\ t.sounding = s.sounding
      /\ t.playing = s.playing
  BY <1>2, <1>3, <1>6 DEF Connection
<1>. HIDE DEF t
<1>8. \A e : First(t, e) <=> First(s, e)
  BY <1>7 DEF First
<1>9. ~TurnRuns(t) /\ ~Audible(t) /\ (Wrote(t, Handler) <=> Wrote(s, Handler))
  BY <1>2, <1>3, <1>4, <1>6, <1>7 DEF TurnRuns, Finished, Audible, Wrote
<1>10. Announces(t)
  BY <1>7, <1>8, <1>9 DEF Good, Announces
<1>11. Queues(t) /\ HandlerQueues(t)
  BY <1>2, <1>3, <1>4, <1>7, <1>8 DEF Good, Queues, HandlerQueues, Sending
<1>12. Plays(t)
  BY <1>1, <1>2, <1>7, <1>9 DEF Good, Plays
<1>13. Sounds(t)
  BY <1>1, <1>7, <1>8, <1>9 DEF Good, Sounds, Audible
<1>14. Good(t) /\ t.turn.at # "listen" /\ (t.written => s.written)
  BY <1>2, <1>6, <1>7, <1>10, <1>11, <1>12, <1>13 DEF Good, Wrote
<1>. QED  BY <1>1, <1>7, <1>14 DEF Changes, Set, Becomes, Fine
--------------------------------------------------------------------------------
(* Sending *)

\* Who waits for the send lock.
LEMMA FirstInQueue ==
    ASSUME NEW s \in Connection, Good(s), s.queue # <<>>
    PROVE  /\ Head(s.queue) \in {Handler, Turn}
           /\ Head(s.queue) = Handler =>
                  s.todo # <<>> /\ Head(s.todo) \in Event /\ Tame(Tail(s.todo))
           /\ Head(s.queue) = Turn => s.turn.at \in Sending /\ TurnRuns(s)
<1>1. s.queue \in Seq({Handler, Turn}) /\ s.todo \in Seq(Task) /\ Once(s.queue)
  BY DEF Connection, Task, Good, Queues
<1>2. Head(s.queue) \in {Handler, Turn} /\ In(s.queue, Head(s.queue))
  BY <1>1, Leaves
<1>3. CASE Head(s.queue) = Handler
  <2>1. s.todo # <<>> /\ ~First(s, "commit") /\ Tame(Tail(s.todo))
    BY <1>2, <1>3 DEF Good, HandlerQueues, Announces
  <2>2. Head(s.todo) \in Event
    BY <1>1, <2>1, FirstAndRest DEF First, Task
  <2>. QED  BY <1>3, <2>1, <2>2 DEF Handler, Turn
<1>4. CASE Head(s.queue) = Turn
  <2>1. s.turn.at \in Sending
    BY <1>2, <1>4 DEF Good, Queues
  <2>. QED  BY <1>4, <2>1 DEF Handler, Turn, TurnRuns, Sending, Finished
<1>. QED  BY <1>2, <1>3, <1>4

\* An event is written: the audio sounds as it says.
LEMMA WriteStep ==
    ASSUME NEW c \in Client, conn[c] \in Connection, Good(conn[c]), Write(c)
    PROVE  Changes(c)
<1>. DEFINE s == conn[c]
            b == (s.sounding \/ Due(s) = "start") /\ Due(s) \notin {"end", "audio.cut"}
            t == [s EXCEPT !.written = TRUE, !.sounding = b]
<1>1. /\ s.queue # <<>> /\ ~s.written /\ ~s.gone
      /\ Head(s.queue) = Turn => ~s.turn.cancelled
      /\ Set(c, t)
  BY DEF Write, Holds
<1>2. b \in BOOLEAN
  BY DEF Connection
<1>. HIDE DEF b
<1>3. /\ t \in Connection /\ t.written /\ t.sounding = b
      /\ t.pc = s.pc /\ t.todo = s.todo /\ t.gone = s.gone /\ t.playing = s.playing
      /\ t.turn = s.turn /\ t.queue = s.queue
  BY <1>2 DEF Connection
<1>. HIDE DEF t
<1>4. \A e : First(t, e) <=> First(s, e)
  BY <1>3 DEF First
<1>5. ~Wrote(s, Turn) /\ ~Wrote(s, Handler) /\ (\A p : Wrote(t, p) <=> Head(s.queue) = p)
  BY <1>1, <1>3 DEF Wrote
<1>6. Announces(t)
  BY <1>3, <1>4 DEF Good, Announces, TurnRuns
<1>7. Queues(t) /\ HandlerQueues(t)
  BY <1>1, <1>3, <1>4 DEF Good, Queues, HandlerQueues
<1>8. /\ t.turn.cancelled => t.turn.at \in Playing
      /\ t.playing => t.turn.at \in Playing /\ ~t.turn.cancelled
  BY <1>1, <1>3 DEF Good, Plays
<1>9. /\ Audible(t) => b
      /\ b => Audible(t) \/ (First(t, "audio.cut") /\ ~Wrote(t, Handler))
      /\ Due(s) = "start" => ~s.sounding
      /\ Due(s) \in {"chunk", "end"} => s.sounding
      /\ Due(s) = "ended.client" => ~TurnRuns(s)
  <2>1. CASE Head(s.queue) = Handler
    <3>1. Due(s) = Head(s.todo) /\ Head(s.todo) \in Event /\ s.todo # <<>>
      BY <1>1, <2>1, FirstInQueue DEF Due
    <3>2. /\ Due(s) \notin {"start", "chunk", "end"}
          /\ b <=> s.sounding /\ ~First(s, "audio.cut")
      BY <3>1 DEF Event, First, b
    <3>3. Due(s) = "ended.client" => ~TurnRuns(s)
      BY <3>1 DEF Good, Announces, First
    <3>4. Audible(t) <=> Audible(s)
      BY <1>3, <1>5, <2>1 DEF Audible, Handler, Turn
    <3>5. First(s, "audio.cut") => ~Audible(s)
      BY DEF Good, Announces, Audible, TurnRuns, Finished
    <3>. QED  BY <1>1, <3>2, <3>3, <3>4, <3>5 DEF Good, Plays, Sounds
  <2>2. CASE Head(s.queue) = Turn
    <3>1. Due(s) = s.turn.at /\ s.turn.at \in Sending /\ TurnRuns(s) /\ ~s.turn.cancelled
      BY <1>1, <2>2, FirstInQueue DEF Due, Handler, Turn
    <3>2. ~First(s, "audio.cut")
      BY <3>1 DEF Good, Announces
    <3>3. s.sounding <=> Audible(s)
      BY <1>1, <3>2 DEF Good, Plays, Sounds
    <3>4. /\ Audible(s) <=> s.turn.at \in {"chunk", "end"}
          /\ Audible(t) <=> s.turn.at \in {"start", "chunk"}
      BY <1>3, <1>5, <2>2, <3>1 DEF Audible, Sending
    <3>5. b <=> s.turn.at \in {"start", "chunk"}
      BY <3>1, <3>3, <3>4 DEF b, Sending
    <3>. QED  BY <3>1, <3>3, <3>4, <3>5 DEF Sending
  <2>. QED  BY <1>1, <2>1, <2>2, FirstInQueue
<1>10. Plays(t) /\ Sounds(t)
  BY <1>3, <1>8, <1>9 DEF Plays, Sounds
<1>11. Good(t)
  BY <1>6, <1>7, <1>10 DEF Good
<1>. QED  BY <1>1, <1>3, <1>9, <1>11 DEF Changes, Set, Becomes, Fine

\* The lock is given up.
LEMMA ReleasedIs ==
    ASSUME NEW s \in Connection, Good(s), s.queue # <<>>, NEW t, t = Released(s)
    PROVE  /\ t \in Connection /\ ~t.written /\ Once(t.queue)
           /\ \A p : In(t.queue, p) <=> In(s.queue, p) /\ p # Head(s.queue)
           /\ t.pc = s.pc /\ t.todo = s.todo /\ t.gone = s.gone /\ t.sounding = s.sounding
           /\ t.turn = s.turn /\ t.playing = s.playing
<1>1. s.queue \in Seq({Handler, Turn}) /\ Once(s.queue)
  BY DEF Connection, Good, Queues
<1>. DEFINE q == Tail(s.queue)
<1>2. /\ q \in Seq({Handler, Turn}) /\ Once(q)
      /\ \A p : In(q, p) <=> In(s.queue, p) /\ p # Head(s.queue)
  BY <1>1, Leaves
<1>3. t = [s EXCEPT !.queue = q, !.written = FALSE]
  BY DEF Released
<1>. HIDE DEF q
<1>. QED  BY <1>2, <1>3 DEF Connection

\* The handler sent an event: a session that ended closes, an utterance that was announced
\* gets its turn, and what is left is done.
LEMMA HandlerSentStep ==
    ASSUME NEW c \in Client, conn[c] \in Connection, Good(conn[c]), HandlerSent(c)
    PROVE  Changes(c)
<1>. DEFINE s    == conn[c]
            r    == Released(s)
            w    == [NoTurn EXCEPT !.at = "listen"]
            u    == [r EXCEPT !.turn = w]
            rest == Tail(s.todo)
<1>1. s.queue # <<>> /\ Head(s.queue) = Handler /\ s.written
  BY DEF HandlerSent, Holds
<1>2. s.todo # <<>> /\ Tame(rest)
  BY <1>1, FirstInQueue
<1>3. rest \in Seq(Task) /\ (rest # <<>> => Head(rest) \notin Special /\ Tame(Tail(rest)))
  <2>1. s.todo \in Seq(Task)
    BY DEF Connection, Task
  <2>2. rest \in Seq(Task)
    BY <1>2, <2>1
  <2>. HIDE DEF rest
  <2>. QED  BY <1>2, <2>2, FirstAndRest DEF Tame
<1>4. /\ r \in Connection /\ ~r.written /\ Once(r.queue)
      /\ \A p : In(r.queue, p) <=> In(s.queue, p) /\ p # Head(s.queue)
      /\ r.pc = s.pc /\ r.todo = s.todo /\ r.gone = s.gone /\ r.sounding = s.sounding
      /\ r.turn = s.turn /\ r.playing = s.playing
  BY <1>1, ReleasedIs
<1>5. ~In(r.queue, Handler) /\ (In(r.queue, Turn) <=> s.turn.at \in Sending)
  BY <1>1, <1>4 DEF Good, Queues, Handler, Turn
<1>6. Plays(s) /\ (~s.gone /\ s.sounding => Audible(s))
  BY <1>1 DEF Good, Sounds, Wrote
<1>. HIDE DEF rest, r
<1>7. ASSUME Head(s.todo) # "speech.ended", Set(c, Doing(r, rest))
      PROVE  Changes(c)
  <2>1. Queues(r)
    BY <1>4, <1>5 DEF Queues
  <2>2. Audible(r) <=> Audible(s)
    BY <1>1, <1>4 DEF Audible, Wrote, Handler, Turn
  <2>3. Plays(r) /\ (~r.gone /\ r.sounding => Audible(r))
    BY <1>4, <1>6, <2>2 DEF Plays
  <2>4. LET t == Doing(r, rest) IN
        t \in Connection /\ Good(t) /\ t.turn = r.turn /\ t.written = r.written
    BY <1>3, <1>4, <1>5, <2>1, <2>3, DoingGood DEF Special
  <2>. QED  BY <1>4, <1>7, <2>4 DEF Changes, Set, Becomes, Fine
<1>8. ASSUME Head(s.todo) = "speech.ended", Set(c, Doing(u, rest))
      PROVE  Changes(c)
  <2>1. ~TurnRuns(s)
    BY <1>2, <1>8 DEF Good, Announces, First
  <2>2. s.turn.at \notin Sending /\ ~Audible(s) /\ s.turn.at \notin Playing
    BY <2>1 DEF TurnRuns, Finished, Sending, Audible, Playing
  <2>3. w \in TurnState /\ w.at = "listen" /\ ~w.cancelled /\ "listen" \notin Sending
    BY FreshTurn
  <2>. HIDE DEF w
  <2>4. /\ u \in Connection /\ u.turn = w /\ u.queue = r.queue /\ u.written = r.written
        /\ u.gone = r.gone /\ u.sounding = r.sounding /\ u.playing = r.playing
    BY <1>4, <2>3 DEF Connection
  <2>. HIDE DEF u
  <2>5. Queues(u) /\ ~In(u.queue, Handler)
    BY <1>4, <1>5, <2>2, <2>3, <2>4 DEF Queues
  <2>6. ~Audible(u)
    BY <2>3, <2>4 DEF Audible
  <2>7. Plays(u) /\ (~u.gone => ~u.sounding)
    BY <1>4, <1>6, <2>2, <2>3, <2>4, <2>6 DEF Plays
  <2>8. LET t == Doing(u, rest) IN
        t \in Connection /\ Good(t) /\ t.turn = u.turn /\ t.written = u.written
    BY <1>3, <2>4, <2>5, <2>7, DoingGood DEF Special
  <2>. QED  BY <1>4, <1>8, <2>1, <2>4, <2>8 DEF Changes, Set, Becomes, Fine
<1>9. \/ Finish(c)
      \/ Head(s.todo) # "speech.ended" /\ Set(c, Doing(r, rest))
      \/ Head(s.todo) = "speech.ended" /\ Set(c, Doing(u, rest))
  BY DEF HandlerSent, r, rest
<1>. QED  BY <1>7, <1>8, <1>9, Closes DEF Finish

\* The turn sent an event.
LEMMA TurnSentStep ==
    ASSUME NEW c \in Client, conn[c] \in Connection, Good(conn[c]), TurnSent(c)
    PROVE  Changes(c)
<1>. DEFINE s == conn[c]
            r == Released(s)
<1>1. /\ s.queue # <<>> /\ Head(s.queue) = Turn /\ s.written /\ ~s.turn.cancelled
      /\ \E t \in After(r) : Set(c, t)
  BY DEF TurnSent, Holds
<1>2. s.turn.at \in Sending /\ TurnRuns(s)
  BY <1>1, FirstInQueue
<1>3. /\ r \in Connection /\ ~r.written /\ Once(r.queue)
      /\ \A p : In(r.queue, p) <=> In(s.queue, p) /\ p # Head(s.queue)
      /\ r.pc = s.pc /\ r.todo = s.todo /\ r.gone = s.gone /\ r.sounding = s.sounding
      /\ r.turn = s.turn /\ r.playing = s.playing
  BY <1>1, ReleasedIs
<1>4. ~In(r.queue, Turn) /\ (In(r.queue, Handler) <=> In(s.queue, Handler))
  BY <1>1, <1>3 DEF Handler, Turn
<1>5. Plays(s)
  BY DEF Good
<1>6. r.turn \in TurnState
  BY <1>3 DEF Connection
<1>7. PICK t \in After(r) : Set(c, t)
  BY <1>1
<1>. HIDE DEF r
<1>8. Audible(s) <=> s.turn.at \in {"start", "chunk"}
  BY <1>1, <1>2 DEF Audible, Wrote, Sending
<1>9. ASSUME t \in Connection, Queues(t), In(t.queue, Handler) <=> In(s.queue, Handler),
             t.pc = s.pc, t.todo = s.todo, t.gone = s.gone, t.sounding = s.sounding,
             ~t.turn.cancelled, t.turn.at # "listen",
             ~s.gone /\ t.playing => t.turn.at \in Playing,
             Audible(t) <=> Audible(s)
      PROVE  Changes(c)
  <2>1. Good(t)
    BY <1>1, <1>2, <1>9, TurnGoesOn
  <2>. QED  BY <1>1, <1>7, <1>9, <2>1 DEF Changes, Set, Becomes, Fine
<1>10. ASSUME NEW v \in Connection, NEW a \in Sending, t = Saying(v, a),
              v.queue = r.queue, v.written = r.written, ~v.turn.cancelled,
              v.pc = r.pc, v.todo = r.todo, v.gone = r.gone, v.sounding = r.sounding,
              s.turn.at \notin {"start", "chunk"}, a \notin {"chunk", "end"},
              ~s.gone /\ v.playing => a = "start"
       PROVE  Changes(c)
  <2>1. /\ t \in Connection /\ Queues(t) /\ ~Wrote(t, Turn)
        /\ In(t.queue, Handler) <=> In(v.queue, Handler)
        /\ t.turn.at = a /\ t.turn.cancelled = v.turn.cancelled
        /\ t.pc = v.pc /\ t.todo = v.todo /\ t.gone = v.gone /\ t.sounding = v.sounding
        /\ t.playing = v.playing /\ t.written = v.written
    BY <1>3, <1>4, <1>10, SayingIs
  <2>2. ~Audible(t) /\ ~Audible(s)
    BY <1>8, <1>10, <2>1 DEF Audible, Sending
  <2>. QED  BY <1>3, <1>4, <1>9, <1>10, <2>1, <2>2 DEF Playing, Sending
<1>11. CASE s.turn.at = "transcript"
  <2>1. t = Saying(r, "text") /\ (~s.gone => ~s.playing)
    BY <1>3, <1>5, <1>7, <1>11 DEF After, Plays, Playing
  <2>. QED  BY <1>1, <1>3, <1>10, <1>11, <2>1 DEF Sending
<1>12. CASE s.turn.at = "text"
  <2>1. /\ ~s.gone => ~s.playing
        /\ \/ t = Saying(r, "error")
           \/ \E n \in 0..MaxChunks :
                 t = Saying([r EXCEPT !.playing = TRUE, !.turn.chunks = n], "start")
    BY <1>3, <1>5, <1>7, <1>12 DEF After, Plays, Playing
  <2>2. CASE t = Saying(r, "error")
    BY <1>1, <1>3, <1>10, <1>12, <2>1, <2>2 DEF Sending
  <2>3. ASSUME NEW n \in 0..MaxChunks,
               t = Saying([r EXCEPT !.playing = TRUE, !.turn.chunks = n], "start")
        PROVE  Changes(c)
    <3>. DEFINE w == [r.turn EXCEPT !.chunks = n]
                v == [r EXCEPT !.playing = TRUE, !.turn = w]
    <3>1. w \in TurnState /\ w.cancelled = r.turn.cancelled
      BY <1>6 DEF TurnState
    <3>2. t = Saying(v, "start")
      BY <1>3, <1>6, <2>3 DEF Connection
    <3>. HIDE DEF w
    <3>3. /\ v \in Connection /\ v.turn = w /\ v.queue = r.queue /\ v.written = r.written
          /\ v.pc = r.pc /\ v.todo = r.todo /\ v.gone = r.gone /\ v.sounding = r.sounding
      BY <1>3, <3>1 DEF Connection
    <3>. HIDE DEF v
    <3>. QED  BY <1>1, <1>3, <1>10, <1>12, <3>1, <3>2, <3>3 DEF Sending
  <2>. QED  BY <2>1, <2>2, <2>3
<1>13. CASE s.turn.at = "start"
  <2>1. t = Play(r)
    BY <1>3, <1>7, <1>13 DEF After
  <2>2. /\ t \in Connection /\ Queues(t) /\ Audible(t)
        /\ In(t.queue, Handler) <=> In(r.queue, Handler)
        /\ t.playing => t.turn.at \in Playing
        /\ ~t.turn.cancelled /\ t.turn.at # "listen"
        /\ t.pc = r.pc /\ t.todo = r.todo /\ t.gone = r.gone /\ t.sounding = r.sounding
        /\ t.written = r.written
    BY <1>1, <1>3, <1>4, <2>1, PlayIs
  <2>. QED  BY <1>3, <1>4, <1>8, <1>9, <1>13, <2>2
<1>14. CASE s.turn.at = "chunk"
  <2>. DEFINE w == [r.turn EXCEPT !.at = "pause"]
              v == [r EXCEPT !.turn = w]
  <2>1. w \in TurnState /\ w.at = "pause" /\ ~w.cancelled
    BY <1>1, <1>3, <1>6 DEF TurnState, Working
  <2>2. t = v
    BY <1>3, <1>6, <1>7, <1>14 DEF After, Connection
  <2>. HIDE DEF w
  <2>3. /\ v \in Connection /\ v.turn = w /\ v.queue = r.queue /\ v.written = r.written
        /\ v.pc = r.pc /\ v.todo = r.todo /\ v.gone = r.gone /\ v.sounding = r.sounding
    BY <1>3, <2>1 DEF Connection
  <2>. HIDE DEF v
  <2>4. Queues(t) /\ Audible(t) /\ t.turn.at \in Playing
    BY <1>3, <1>4, <2>1, <2>2, <2>3 DEF Queues, Audible, Sending, Playing
  <2>. QED  BY <1>3, <1>4, <1>8, <1>9, <1>14, <2>1, <2>2, <2>3, <2>4
<1>15. CASE s.turn.at \in {"end", "error"}
  <2>. DEFINE w == [NoTurn EXCEPT !.at = "done"]
              v == [r EXCEPT !.turn = w]
  <2>1. w \in TurnState /\ w.at = "done" /\ ~w.cancelled /\ "done" \notin Sending
    BY FreshTurn
  <2>2. t = v
    BY <1>3, <1>7, <1>15 DEF After
  <2>. HIDE DEF w
  <2>3. /\ v \in Connection /\ v.turn = w /\ v.queue = r.queue /\ v.written = r.written
        /\ v.pc = r.pc /\ v.todo = r.todo /\ v.gone = r.gone /\ v.sounding = r.sounding
        /\ v.playing = r.playing
    BY <1>3, <2>1 DEF Connection
  <2>. HIDE DEF v
  <2>4. Queues(t) /\ ~Audible(t)
    BY <1>3, <1>4, <2>1, <2>2, <2>3 DEF Queues, Audible
  <2>5. ~s.gone => ~t.playing
    BY <1>3, <1>5, <1>15, <2>2, <2>3 DEF Plays, Playing
  <2>. QED  BY <1>3, <1>4, <1>8, <1>9, <1>15, <2>1, <2>2, <2>3, <2>4, <2>5
<1>. QED  BY <1>2, <1>11, <1>12, <1>13, <1>14, <1>15 DEF Sending

\* A send that fails: the handler ends, or the turn does.
LEMMA SendFailsStep ==
    ASSUME NEW c \in Client, conn[c] \in Connection, Good(conn[c]), SendFails(c)
    PROVE  Changes(c)
<1>. DEFINE s == conn[c]
            r == Released(s)
            w == [NoTurn EXCEPT !.at = "raised"]
            t == [r EXCEPT !.turn = w]
<1>1. CASE Finish(c)
  BY <1>1, Closes DEF Finish
<1>2. CASE Holds(c, Turn) /\ ~s.turn.cancelled /\ Set(c, t)
  <2>1. s.gone /\ s.queue # <<>> /\ Head(s.queue) = Turn
    BY <1>2 DEF SendFails, Holds
  <2>2. /\ r \in Connection /\ ~r.written /\ Once(r.queue)
        /\ \A p : In(r.queue, p) <=> In(s.queue, p) /\ p # Head(s.queue)
        /\ r.pc = s.pc /\ r.todo = s.todo /\ r.gone = s.gone /\ r.sounding = s.sounding
        /\ r.turn = s.turn /\ r.playing = s.playing
    BY <2>1, ReleasedIs
  <2>3. w \in TurnState /\ w.at = "raised" /\ ~w.cancelled /\ "raised" \notin Sending
    BY FreshTurn
  <2>. HIDE DEF r, w
  <2>4. /\ t \in Connection /\ t.turn = w /\ t.queue = r.queue /\ t.written = r.written
        /\ t.pc = r.pc /\ t.todo = r.todo /\ t.gone = r.gone /\ t.sounding = r.sounding
    BY <2>2, <2>3 DEF Connection
  <2>. HIDE DEF t
  <2>5. \A e : First(t, e) <=> First(s, e)
    BY <2>2, <2>4 DEF First
  <2>6. Announces(t)
    BY <2>2, <2>3, <2>4, <2>5 DEF Good, Announces, TurnRuns, Finished
  <2>7. Queues(t) /\ HandlerQueues(t)
    BY <2>1, <2>2, <2>3, <2>4, <2>5 DEF Good, Queues, HandlerQueues, Handler, Turn
  <2>8. Plays(t) /\ Sounds(t)
    BY <2>1, <2>2, <2>3, <2>4 DEF Plays, Sounds
  <2>9. Good(t)
    BY <2>6, <2>7, <2>8 DEF Good
  <2>. QED  BY <1>2, <2>2, <2>3, <2>4, <2>9 DEF Changes, Set, Becomes, Fine
<1>. QED  BY <1>1, <1>2 DEF SendFails
--------------------------------------------------------------------------------
(* The sessions of an identity *)

\* A connection opens when the limiter lets it, or not at all.
LEMMA OpeningSteps ==
    ASSUME NEW c \in Client, conn[c] \in Connection, Good(conn[c]),
           Connect(c) \/ Admit(c) \/ Refuse(c) \/ Disconnect(c)
    PROVE  Changes(c)
<1>1. CASE Connect(c)
  BY <1>1, Moves DEF Connect, At
<1>2. CASE Admit(c)
  BY <1>2, Moves, Closes DEF Admit, At
<1>3. CASE Refuse(c)
  BY <1>3, Closes DEF Refuse
<1>4. CASE Disconnect(c)
  BY <1>4, Closes DEF Disconnect, Finish
<1>. QED  BY <1>1, <1>2, <1>3, <1>4

\* The step of a connection.
Step(c) ==
    \/ Connect(c) \/ Admit(c) \/ Refuse(c) \/ Vanish(c)
    \/ TimeUp(c) \/ TimeOut(c)
    \/ Message(c) \/ HandlerStep(c) \/ TurnStep(c) \/ SendStep(c)

LEMMA StepChanges ==
    ASSUME NEW c \in Client, conn[c] \in Connection, Good(conn[c]), Step(c)
    PROVE  Changes(c)
<1>1. CASE Connect(c) \/ Admit(c) \/ Refuse(c) \/ Disconnect(c)
  BY <1>1, OpeningSteps
<1>2. CASE TimeOut(c) \/ StartSession(c) \/ AudioCommit(c) \/ BadFrame(c) \/ OtherMessage(c)
             \/ ResetEnds(c) \/ Join(c)
  BY <1>2, AnsweringSteps
<1>3. CASE ResetConversation(c) \/ EndSession(c) \/ TimeUp(c) \/ Vanish(c)
  BY <1>3, WaitingSteps
<1>4. CASE Interrupt(c)
  BY <1>4, InterruptStep
<1>5. ASSUME NEW speech \in BOOLEAN, Frame(c, speech) PROVE Changes(c)
  BY <1>5, FrameStep
<1>6. CASE Commit(c)
  BY <1>6, CommitStep
<1>7. CASE Listen(c) \/ Chat(c) \/ Speak(c) \/ Resume(c)
  BY <1>7, WorkingStep
<1>8. CASE Unwind(c)
  BY <1>8, UnwindStep
<1>9. CASE Write(c)
  BY <1>9, WriteStep
<1>10. CASE HandlerSent(c)
  BY <1>10, HandlerSentStep
<1>11. CASE TurnSent(c)
  BY <1>11, TurnSentStep
<1>12. CASE SendFails(c)
  BY <1>12, SendFailsStep
<1>. QED
  BY <1>1, <1>2, <1>3, <1>4, <1>5, <1>6, <1>7, <1>8, <1>9, <1>10, <1>11, <1>12
  DEF Step, Message, HandlerStep, TurnStep, SendStep

\* A step of a connection is one of the limiter, or leaves it alone; and places are taken by
\* connections.
LEMMA StepLimited ==
    ASSUME NEW c \in Client, Step(c), sessions \subseteq Client
    PROVE  [RateNext]_rateVars /\ sessions' \subseteq Client
<1>1. CASE Connect(c) \/ Admit(c) \/ Refuse(c)
  <2>1. RateNext
    BY <1>1 DEF Connect, Admit, Refuse, RateNext
  <2>2. sessions' \subseteq Client
    BY <1>1 DEF Connect, Admit, Refuse
  <2>. QED  BY <2>1, <2>2
<1>2. CASE Finish(c)
  BY <1>2 DEF Finish, GivesBack
<1>3. ASSUME NEW t, Set(c, t) PROVE UNCHANGED <<rateVars, sessions>>
  BY <1>3 DEF Set
<1>4. CASE Vanish(c) \/ TimeUp(c) \/ TimeOut(c)
  BY <1>3, <1>4 DEF Vanish, TimeUp, TimeOut
<1>5. CASE Message(c)
  <2>1. ASSUME NEW speech \in BOOLEAN, Frame(c, speech) PROVE UNCHANGED <<rateVars, sessions>>
    BY <1>3, <2>1 DEF Frame
  <2>2. CASE StartSession(c) \/ AudioCommit(c) \/ Interrupt(c) \/ BadFrame(c) \/ OtherMessage(c)
               \/ ResetConversation(c) \/ EndSession(c)
    BY <1>2, <1>3, <2>2 DEF StartSession, AudioCommit, Interrupt, BadFrame, OtherMessage,
                      ResetConversation, EndSession
  <2>. QED  BY <1>5, <2>1, <2>2 DEF Message
<1>6. CASE HandlerStep(c)
  BY <1>2, <1>3, <1>6 DEF HandlerStep, Disconnect, ResetEnds, Join, Commit
<1>7. CASE TurnStep(c)
  BY <1>3, <1>7 DEF TurnStep, Listen, Chat, Speak, Resume, Unwind
<1>8. CASE SendStep(c)
  BY <1>2, <1>3, <1>8 DEF SendStep, Write, HandlerSent, TurnSent, SendFails
<1>. QED  BY <1>1, <1>4, <1>5, <1>6, <1>7, <1>8 DEF Step

LEMMA NextIs == Next <=> (Tick /\ UNCHANGED <<sessions, conn>>) \/ \E c \in Client : Step(c)
  BY DEF Next, Step

LEMMA NextLimited ==
    ASSUME sessions \subseteq Client, [Next]_vars
    PROVE  [RateNext]_rateVars /\ sessions' \subseteq Client
<1>1. CASE Tick /\ UNCHANGED <<sessions, conn>>
  BY <1>1 DEF RateNext
<1>2. ASSUME NEW c \in Client, Step(c) PROVE [RateNext]_rateVars /\ sessions' \subseteq Client
  BY <1>2, StepLimited
<1>3. CASE UNCHANGED vars
  BY <1>3 DEF vars
<1>. QED  BY <1>1, <1>2, <1>3, NextIs

\* Each connection is as it was, or what a step may make of it.
LEMMA NextChanges ==
    ASSUME IInv, [Next]_vars
    PROVE  /\ conn' \in [Client -> Connection]
           /\ \A c \in Client : Good(conn'[c])
           /\ \A c \in Client : conn'[c] = conn[c] \/ Fine(conn[c], conn'[c])
<1>1. conn \in [Client -> Connection] /\ (\A c \in Client : Good(conn[c]))
  BY DEF IInv
<1>2. CASE conn' = conn
  BY <1>1, <1>2
<1>3. ASSUME NEW d \in Client, Step(d)
      PROVE  /\ conn' \in [Client -> Connection]
             /\ \A c \in Client : Good(conn'[c])
             /\ \A c \in Client : conn'[c] = conn[c] \/ Fine(conn[c], conn'[c])
  <2>1. PICK t : conn' = [conn EXCEPT ![d] = t] /\ Fine(conn[d], t)
    BY <1>1, <1>3, StepChanges DEF Changes
  <2>2. t \in Connection /\ Good(t)
    BY <2>1 DEF Fine
  <2>3. conn'[d] = t /\ (\A c \in Client : c # d => conn'[c] = conn[c])
    BY <1>1, <2>1
  <2>4. conn' \in [Client -> Connection]
    BY <1>1, <2>1, <2>2
  <2>. QED  BY <1>1, <2>1, <2>2, <2>3, <2>4
<1>. QED  BY <1>2, <1>3, NextIs DEF vars

LEMMA InitInv == Init => IInv
<1>. SUFFICES ASSUME Init PROVE IInv
  OBVIOUS
<1>1. RateInv
  BY RateInitially DEF Init
<1>2. conn \in [Client -> Connection] /\ (\A c \in Client : Good(conn[c]))
  BY AwayGood DEF Init
<1>. QED  BY <1>1, <1>2 DEF Init, IInv

LEMMA NextInv == IInv /\ [Next]_vars => IInv'
<1>. SUFFICES ASSUME IInv, [Next]_vars PROVE IInv'
  OBVIOUS
<1>1. [RateNext]_rateVars /\ sessions' \subseteq Client
  BY NextLimited DEF IInv
<1>2. RateInv'
  BY <1>1, RateStep DEF IInv
<1>3. conn' \in [Client -> Connection] /\ (\A c \in Client : Good(conn'[c]))
  BY NextChanges
<1>. QED  BY <1>1, <1>2, <1>3 DEF IInv
--------------------------------------------------------------------------------
(* What holds of the sessions *)

\* The invariant holds in every state, whatever the handler and the turn of each
\* connection do between the other's steps.
THEOREM VoiceInvariance == Spec => []IInv
  BY InitInv, NextInv, PTL DEF Spec

\* The sessions' state has the shape the code gives it: in particular an utterance is never
\* longer than its maximum or than what is kept from before the speech, whichever is more.
THEOREM TypeCorrectness == Spec => []TypeOK
<1>1. IInv => TypeOK
  BY DEF IInv, TypeOK, RateInv
<1>. QED  BY <1>1, VoiceInvariance, PTL

\* No utterance outgrows its maximum, provided that what is kept from before the speech fits
\* into it, which the settings do not ask for.
THEOREM UtterancesFit == Spec => [](PreFrames <= MaxFrames => UtteranceBounded)
<1>1. IInv => (PreFrames <= MaxFrames => UtteranceBounded)
  <2>. SUFFICES ASSUME IInv, PreFrames <= MaxFrames PROVE UtteranceBounded
    OBVIOUS
  <2>1. MostFrames = MaxFrames
    BY VoiceAssumption DEF MostFrames
  <2>2. ASSUME NEW c \in Client PROVE conn[c].buffer \in Buffer
    BY DEF IInv, Connection
  <2>3. ASSUME NEW b \in Buffer PROVE b.frames <= MaxFrames
    BY <2>1, VoiceAssumption DEF Buffer
  <2>. QED  BY <2>2, <2>3 DEF UtteranceBounded
<1>. QED  BY <1>1, VoiceInvariance, PTL

\* Opening sessions is a use of the limiter as it is meant: what sessions do to its keys and
\* its clock is a behaviour of RateLimiter.
THEOREM SessionsUseLimiter == Spec => RateSpec
<1>1. Init => RateInit
  BY DEF Init
<1>2. IInv /\ [Next]_vars => [RateNext]_rateVars
  BY NextLimited DEF IInv
<1>. QED  BY <1>1, <1>2, VoiceInvariance, PTL DEF Spec, RateSpec

\* So no window admits more sessions than the limit.
THEOREM SessionsAreLimited == Spec => []WindowLimit
  BY SessionsUseLimiter, LimitHolds, PTL

\* A client that was sent audio and is there is going to be told that it is over.
THEOREM PlaybackEnds == Spec => []PlaybackIsEnded
<1>1. IInv => PlaybackIsEnded
  <2>. SUFFICES ASSUME IInv, NEW c \in Client, conn[c].sounding, ~conn[c].gone
                PROVE  \/ conn[c].turn.at \in {"start", "chunk", "pause", "end"}
                          /\ ~conn[c].turn.cancelled
                       \/ \E i \in DOMAIN conn[c].todo : conn[c].todo[i] = "audio.cut"
    BY DEF PlaybackIsEnded
  <2>. DEFINE s == conn[c]
  <2>1. s \in Connection /\ Good(s)
    BY DEF IInv
  <2>2. CASE Audible(s)
    BY <2>2 DEF Audible
  <2>3. CASE First(s, "audio.cut")
    <3>1. s.todo \in Seq(Task) /\ s.todo # <<>> /\ Head(s.todo) = "audio.cut"
      BY <2>1, <2>3 DEF Connection, Task, First
    <3>. HIDE DEF s
    <3>2. 1 \in DOMAIN s.todo /\ s.todo[1] = "audio.cut"
      BY <3>1, FirstAndRest
    <3>. QED  BY <3>2 DEF s
  <2>. QED  BY <2>1, <2>2, <2>3 DEF Good, Sounds
<1>. QED  BY <1>1, VoiceInvariance, PTL

\* Barge-in cancels a turn that plays its answer, never one that still works on it.
THEOREM InterruptsPlayback == Spec => []InterruptsPlaybackOnly
<1>1. IInv => InterruptsPlaybackOnly
  BY DEF IInv, Good, Plays, Playing, InterruptsPlaybackOnly
<1>. QED  BY <1>1, VoiceInvariance, PTL

\* The audio events a client is sent make a protocol: start, chunks, end or cut.
THEOREM OrderedAudio == Spec => AudioInOrder
<1>. DEFINE InOrder(c) ==
                Writes(c) => LET e == Due(conn[c]) IN
                             /\ e = "start" => ~conn[c].sounding
                             /\ e \in {"chunk", "end"} => conn[c].sounding
<1>1. IInv /\ [Next]_vars => [\A c \in Client : InOrder(c)]_vars
  BY NextChanges DEF Writes, Fine
<1>. QED  BY <1>1, VoiceInvariance, PTL DEF Spec, AudioInOrder

\* A turn is over before the connection's next one starts.
THEOREM TurnsFollow == Spec => TurnsAreNotLost
<1>. DEFINE Follows(c) ==
                conn'[c].turn.at = "listen" /\ conn[c].turn.at # "listen" => ~TurnRuns(conn[c])
<1>1. IInv /\ [Next]_vars => [\A c \in Client : Follows(c)]_vars
  BY NextChanges DEF Fine
<1>. QED  BY <1>1, VoiceInvariance, PTL DEF Spec, TurnsAreNotLost

\* A client that ends the session is told so after the turn of its last accepted utterance is
\* over.
THEOREM AnsweredBeforeEnd == Spec => AnswerBeforeEnd
<1>. DEFINE Answered(c) ==
                Writes(c) /\ Due(conn[c]) = "ended.client" => ~TurnRuns(conn[c])
<1>1. IInv /\ [Next]_vars => [\A c \in Client : Answered(c)]_vars
  BY NextChanges DEF Writes, Fine
<1>. QED  BY <1>1, VoiceInvariance, PTL DEF Spec, AnswerBeforeEnd
================================================================================
