------------------------------ MODULE VoiceSession ------------------------------
(***************************************************************************)
(* voice/websocket.py, service.py, session_manager.py, audio.py, vad.py    *)
(* and the route in api/routes/voice.py: browser voice sessions of one     *)
(* identity.  A connection passes the rate limiter and takes one of the    *)
(* places of the process.  Two tasks then share it: the handler, which     *)
(* reads the client's messages one at a time, and the turn it starts for   *)
(* an utterance.  Both write to the socket under one lock; the handler may *)
(* cancel the turn while it plays.                                         *)
(***************************************************************************)
EXTENDS RateLimiter, Sequences, FiniteSets

CONSTANTS
    MaxSessions,  \* places
    MinSpeech,    \* frames of speech an utterance needs
    EndSilence,   \* frames of silence that end it
    MaxFrames,    \* frames it may have: the byte limit, in frames of one size
    PreFrames,    \* frames kept from before the speech
    MaxChunks     \* chunks of audio an answer may have

ASSUME VoiceAssumption ==
    /\ MaxSessions \in Nat \ {0}
    /\ MinSpeech \in Nat \ {0}
    /\ EndSilence \in Nat \ {0}
    /\ MaxFrames \in Nat
    /\ PreFrames \in Nat
    /\ MaxChunks \in Nat

VARIABLES
    sessions,  \* the session manager's registry
    conn       \* the connections, see Connection

vars == <<rateVars, sessions, conn>>
--------------------------------------------------------------------------------
Handler == "handler"
Turn    == "turn"

\* The events of the handler the properties tell apart. "reply" is any other
\* single answer: an error, session.ready, pong, conversation.reset.
Event == {"reply", "speech.started", "speech.ended", "audio.cut", "ended.client", "ended.time"}

\* A turn task is finished, is sending an event, or works on the answer.
Finished == {"none", "done", "cancelled", "raised"}
Sending  == {"transcript", "text", "start", "chunk", "end", "error"}
Working  == {"listen", "chat", "speak", "pause"}

TurnState == [at: Finished \cup Sending \cup Working, chunks: 0..MaxChunks, cancelled: BOOLEAN]

\* The frames that were kept from before the speech are not checked against the limit.
MostFrames == IF PreFrames > MaxFrames THEN PreFrames ELSE MaxFrames

Buffer ==
    [frames: 0..MostFrames, pre: 0..PreFrames, speech: 0..MinSpeech, silence: 0..EndSilence]

Connection ==
    [pc: {"away", "check", "receive", "send", "reset", "join"},  \* the handler
     todo: Seq(Event \cup {"commit"}),  \* what it has still to do for the message it read
     ready: BOOLEAN,          \* the client has started the session
     vad: BOOLEAN,            \* the detector last heard speech
     speaking: BOOLEAN,       \* speech_state
     buffer: Buffer,
     turn: TurnState,
     playing: BOOLEAN,        \* assistant_playing
     queue: Seq({Handler, Turn}),  \* the send lock: its holder, then who waits for it
     written: BOOLEAN,        \* the holder's event is on the wire, its send is not over
     overtime: BOOLEAN,       \* older than voice_max_session_seconds
     gone: BOOLEAN,           \* the connection is lost
     sounding: BOOLEAN]       \* history: the audio on the wire has started, and not ended

NoTurn == [at |-> "none", chunks |-> 0, cancelled |-> FALSE]
Empty  == [frames |-> 0, pre |-> 0, speech |-> 0, silence |-> 0]

Away == [pc |-> "away", todo |-> <<>>, ready |-> FALSE, vad |-> FALSE, speaking |-> FALSE,
         buffer |-> Empty, turn |-> NoTurn, playing |-> FALSE, queue |-> <<>>,
         written |-> FALSE, overtime |-> FALSE, gone |-> FALSE, sounding |-> FALSE]

TypeOK ==
    /\ RateTypeOK
    /\ sessions \subseteq Client
    /\ conn \in [Client -> Connection]

Init ==
    /\ RateInit
    /\ sessions = {}
    /\ conn = [c \in Client |-> Away]
--------------------------------------------------------------------------------
(* Helpers: a connection s as it is after a step of its handler or its turn *)

At(c, p)     == conn[c].pc = p
Becomes(c, s) == conn' = [conn EXCEPT ![c] = s]
Set(c, s)    == Becomes(c, s) /\ UNCHANGED <<rateVars, sessions>>

\* The top of the loop: a session that is too old is ended, or the next message
\* awaited.
\* Seeded defect: only the wait for a message looks at the session's age.
MutTop(s) == <<>>
Top(s)    == IF s.overtime THEN <<"ended.time">> ELSE <<>>

\* The handler goes on with e, then with the next message. For an event it queues
\* for the send lock.
Doing(s, e) ==
    LET do == IF e = <<>> THEN Top(s) ELSE e IN
    [s EXCEPT !.pc = IF do = <<>> THEN "receive" ELSE "send",
              !.todo = do,
              !.queue = IF do # <<>> /\ Head(do) # "commit" THEN Append(@, Handler) ELSE @]

\* The turn goes on with the event at a, for which it queues.
Saying(s, a) == [s EXCEPT !.turn.at = a, !.queue = Append(@, Turn)]

GivesBack(c) == sessions' = sessions \ {c}

\* finally: the turn is cancelled and the place given back. What is left of the
\* turn is not followed.
Finish(c) ==
    /\ Becomes(c, Away)
    /\ GivesBack(c)
    /\ UNCHANGED rateVars

TurnRuns(s) == s.turn.at \notin Finished

\* p holds the send lock, or waits for it.
Waits(s, p) == \E i \in DOMAIN s.queue : s.queue[i] = p

\* Seeded defect: barge-in stops any turn that has not answered.
MutInterruptible(s) == TurnRuns(s) /\ ~s.turn.cancelled
Interruptible(s)    == TurnRuns(s) /\ s.playing

\* interrupt(): the turn is cancelled, the client is told the audio is over.
\* Seeded defect: the task is not cancelled.
MutCut(s) == IF Interruptible(s) THEN [s EXCEPT !.playing = FALSE] ELSE s
Cut(s)    == IF Interruptible(s) THEN [s EXCEPT !.playing = FALSE, !.turn.cancelled = TRUE] ELSE s
\* Seeded defect: the client is not told.
MutCutEvents(s) == <<>>
CutEvents(s)    == IF Interruptible(s) THEN <<"audio.cut">> ELSE <<>>
--------------------------------------------------------------------------------
(* Opening a connection *)

Connect(c) ==
    /\ At(c, "away")
    /\ Label(c)
    /\ Becomes(c, [conn[c] EXCEPT !.pc = "check"])
    /\ UNCHANGED sessions

\* Admitted by the limiter. It takes a place if one is left.
Admit(c) ==
    /\ At(c, "check")
    /\ Pass(c)
    /\ IF Cardinality(sessions) < MaxSessions
       THEN sessions' = sessions \cup {c} /\ Becomes(c, [conn[c] EXCEPT !.pc = "receive"])
       ELSE UNCHANGED sessions /\ Becomes(c, Away)

\* Over the limit, the limiter failed, or, admitted, its origin or language is
\* not, or it was lost before it was accepted.
Refuse(c) ==
    /\ At(c, "check")
    /\ Pass(c) \/ Exceed(c) \/ CheckFails(c)
    /\ Becomes(c, Away)
    /\ UNCHANGED sessions

\* The client leaves, or the network does.
Vanish(c) ==
    /\ c \in sessions
    /\ ~conn[c].gone
    /\ Set(c, [conn[c] EXCEPT !.gone = TRUE])

TimeUp(c) ==
    /\ c \in sessions
    /\ ~conn[c].overtime
    /\ Set(c, [conn[c] EXCEPT !.overtime = TRUE])
--------------------------------------------------------------------------------
(* The handler reads messages *)

\* No message within the idle timeout, or within what is left of the session.
TimeOut(c) ==
    /\ At(c, "receive")
    /\ Set(c, Doing(conn[c], <<"ended.time">>))

Disconnect(c) ==
    /\ At(c, "receive")
    /\ conn[c].gone
    /\ Finish(c)

Reads(c) == At(c, "receive") /\ ~conn[c].gone

\* validate_audio_frame and UtteranceBuffer.append against the maximum.
\* Seeded defect: the buffer is not bounded.
MutFull(b) == FALSE
Full(b)    == b.frames + 1 > MaxFrames

AtMost(n, max) == IF n > max THEN max ELSE n

\* Speech and silence are counted up to the lengths they are compared with.
Heard(b, speech) ==
    [frames  |-> b.frames + 1,
     pre     |-> b.pre,
     speech  |-> IF speech THEN AtMost(b.speech + 1, MinSpeech) ELSE b.speech,
     silence |-> IF speech THEN 0 ELSE AtMost(b.silence + 1, EndSilence)]

\* start_speech(): the frames from before the speech begin the utterance.
Opened(b) == [b EXCEPT !.frames = IF @ = 0 THEN b.pre ELSE @, !.pre = 0]

\* add_pre_speech(): the latest are kept.
Kept(b) == [b EXCEPT !.pre = AtMost(@ + 1, PreFrames)]

Enough(b) == b.speech >= MinSpeech /\ b.silence >= EndSilence

\* The detector: speech after silence.
Started(s, speech) == speech /\ ~s.vad

\* A valid frame of audio. Speech after silence starts an utterance and cuts the
\* assistant short; the frames of an utterance are kept until it is full.
Frame(c, speech) ==
    /\ Reads(c)
    /\ conn[c].ready
    /\ LET s       == conn[c]
           started == Started(s, speech)
           spoken  == s.speaking \/ started
           opened  == IF started THEN Opened(s.buffer) ELSE s.buffer
           full    == spoken /\ Full(opened)
           buffer  == IF ~spoken THEN Kept(opened)
                      ELSE IF full THEN opened ELSE Heard(opened, speech)
           rest    == IF full THEN <<"reply">> ELSE IF Enough(buffer) THEN <<"commit">> ELSE <<>>
           heard   == [s EXCEPT !.vad = speech, !.speaking = spoken, !.buffer = buffer]
       IN  Set(c, IF started THEN Doing(Cut(heard), CutEvents(s) \o <<"speech.started">> \o rest)
                             ELSE Doing(heard, rest))

StartSession(c) ==
    /\ Reads(c)
    /\ Set(c, Doing([conn[c] EXCEPT !.ready = TRUE], <<"reply">>))

AudioCommit(c) ==
    /\ Reads(c)
    /\ Set(c, Doing(conn[c], <<"commit">>))

Interrupt(c) ==
    /\ Reads(c)
    /\ Set(c, Doing(Cut(conn[c]), CutEvents(conn[c])))

\* A frame that is empty, too large or cut in the middle of a sample.
BadFrame(c) ==
    /\ Reads(c)
    /\ conn[c].ready
    /\ Set(c, Doing(conn[c], <<"reply">>))

\* ping, audio before the start, and control messages that are not valid. JSON that is
\* not an object raises in the handler.
OtherMessage(c) ==
    /\ Reads(c)
    /\ Set(c, Doing(conn[c], <<"reply">>)) \/ Finish(c)

ResetConversation(c) ==
    /\ Reads(c)
    /\ Set(c, [conn[c] EXCEPT !.pc = "reset"])

\* The conversation is reset, its lock could not be had in time, or it failed.
ResetEnds(c) ==
    /\ At(c, "reset")
    /\ \/ Set(c, Doing(conn[c], <<"reply">>))
       \/ Set(c, Doing(conn[c], <<"ended.time">>))
       \/ Finish(c)

\* session.end waits for the latest turn, if there was one.
\* Seeded defect: it does not.
MutEndSession(c) ==
    /\ Reads(c)
    /\ Set(c, Doing(conn[c], <<"ended.client">>))

EndSession(c) ==
    /\ Reads(c)
    /\ Set(c, IF conn[c].turn.at = "none" THEN Doing(conn[c], <<"ended.client">>)
                                          ELSE [conn[c] EXCEPT !.pc = "join"])

\* A turn that was cancelled or failed raises in the handler that awaits it.
Join(c) ==
    /\ At(c, "join")
    /\ \/ conn[c].turn.at = "done" /\ Set(c, Doing(conn[c], <<"ended.client">>))
       \/ conn[c].turn.at \in {"cancelled", "raised"} /\ Finish(c)

\* commit(): too little speech, a turn still running, or an utterance.
\* Seeded defect: commit does not look at the turn that is running.
MutRefused(s) == s.buffer.speech < MinSpeech
Refused(s)    == s.buffer.speech < MinSpeech \/ TurnRuns(s)

Commit(c) ==
    /\ At(c, "send")
    /\ Head(conn[c].todo) = "commit"
    /\ LET s == [conn[c] EXCEPT !.buffer = Empty] IN
       Set(c, IF Refused(conn[c])
              THEN Doing(s, <<"reply">>)
              ELSE Doing([s EXCEPT !.vad = FALSE, !.speaking = FALSE], <<"speech.ended">>))
--------------------------------------------------------------------------------
(* The turn *)

TurnAt(c, a) == conn[c].turn.at = a /\ ~conn[c].turn.cancelled

\* Speech to text: a valid transcript, or an error.
Listen(c) ==
    /\ TurnAt(c, "listen")
    /\ \/ Set(c, [conn[c] EXCEPT !.turn.at = "chat"])
       \/ Set(c, Saying(conn[c], "error"))

\* The conversation's turn: an answer, or an error.
Chat(c) ==
    /\ TurnAt(c, "chat")
    /\ \/ Set(c, [conn[c] EXCEPT !.turn.at = "speak"])
       \/ Set(c, Saying(conn[c], "error"))

\* Text to speech. Whether there is audio shows once the text is sent.
Speak(c) ==
    /\ TurnAt(c, "speak")
    /\ Set(c, Saying(conn[c], "transcript"))

\* The next chunk, or after the last the end of the audio.
Play(s) ==
    IF s.turn.chunks > 0 THEN Saying([s EXCEPT !.turn.chunks = @ - 1], "chunk")
                         ELSE Saying([s EXCEPT !.playing = FALSE], "end")

\* asyncio.sleep(0) between chunks
Resume(c) ==
    /\ TurnAt(c, "pause")
    /\ Set(c, Play(conn[c]))

\* CancelledError: a turn that waited for the lock, or held it, gives it up.
Unwind(c) ==
    LET s == conn[c] IN
    /\ TurnRuns(s)
    /\ s.turn.cancelled
    /\ Set(c, [s EXCEPT !.turn = [NoTurn EXCEPT !.at = "cancelled"],
                        !.queue = IF Waits(s, Handler) THEN <<Handler>> ELSE <<>>,
                        !.written = @ /\ Head(s.queue) = Handler])
--------------------------------------------------------------------------------
(* Sending: under the lock an event is written, then the send returns *)

Holds(c, p) == conn[c].queue # <<>> /\ Head(conn[c].queue) = p

\* What the holder of the lock is to write.
Due(s) == IF Head(s.queue) = Handler THEN Head(s.todo) ELSE s.turn.at

Write(c) ==
    LET s == conn[c] IN
    /\ s.queue # <<>>
    /\ ~s.written /\ ~s.gone
    /\ Holds(c, Turn) => ~s.turn.cancelled
    /\ Set(c, [s EXCEPT !.written = TRUE,
                        !.sounding = (@ \/ Due(s) = "start") /\ Due(s) \notin {"end", "audio.cut"}])

Released(s) == [s EXCEPT !.queue = Tail(@), !.written = FALSE]

\* The handler's send returns. It goes on with what is left to do; an utterance
\* that is announced is given to a new turn; an ended session is closed, before
\* the turn that waits for the lock can write.
HandlerSent(c) ==
    LET s    == conn[c]
        next == IF Head(s.todo) = "speech.ended"
                THEN [Released(s) EXCEPT !.turn = [NoTurn EXCEPT !.at = "listen"]]
                ELSE Released(s)
    IN
    /\ Holds(c, Handler)
    /\ s.written
    /\ IF Head(s.todo) \in {"ended.client", "ended.time"}
       THEN Finish(c)
       ELSE Set(c, Doing(next, Tail(s.todo)))

\* What the turn may do after the event it sent. No audio is an error.
After(s) ==
    CASE s.turn.at = "transcript" -> {Saying(s, "text")}
      [] s.turn.at = "text" -> {Saying(s, "error")} \cup
            {Saying([s EXCEPT !.playing = TRUE, !.turn.chunks = n], "start") : n \in 0..MaxChunks}
      [] s.turn.at = "start" -> {Play(s)}
      [] s.turn.at = "chunk" -> {[s EXCEPT !.turn.at = "pause"]}
      [] OTHER -> {[s EXCEPT !.turn = [NoTurn EXCEPT !.at = "done"]]}

\* The turn's send returns.
TurnSent(c) ==
    /\ Holds(c, Turn)
    /\ conn[c].written
    /\ ~conn[c].turn.cancelled
    /\ \E s \in After(Released(conn[c])) : Set(c, s)

\* A send on a lost connection raises: it ends the handler; it ends the turn,
\* whose attempt to report the error raises too.
SendFails(c) ==
    LET s == conn[c] IN
    /\ s.gone
    /\ \/ Holds(c, Handler) /\ Finish(c)
       \/ /\ Holds(c, Turn)
          /\ ~s.turn.cancelled
          /\ Set(c, [Released(s) EXCEPT !.turn = [NoTurn EXCEPT !.at = "raised"]])
--------------------------------------------------------------------------------
Message(c) ==
    \/ \E speech \in BOOLEAN : Frame(c, speech)
    \/ StartSession(c) \/ AudioCommit(c) \/ Interrupt(c) \/ BadFrame(c) \/ OtherMessage(c)
    \/ ResetConversation(c) \/ EndSession(c)

HandlerStep(c) ==
    \/ Disconnect(c) \/ ResetEnds(c) \/ Join(c) \/ Commit(c)

TurnStep(c) == Listen(c) \/ Chat(c) \/ Speak(c) \/ Resume(c) \/ Unwind(c)

SendStep(c) == Write(c) \/ HandlerSent(c) \/ TurnSent(c) \/ SendFails(c)

Next ==
    \/ Tick /\ UNCHANGED <<sessions, conn>>
    \/ \E c \in Client :
        \/ Connect(c) \/ Admit(c) \/ Refuse(c) \/ Vanish(c)
        \/ TimeUp(c) \/ TimeOut(c)
        \/ Message(c) \/ HandlerStep(c) \/ TurnStep(c) \/ SendStep(c)

Progress(c) ==
    \/ HandlerStep(c) \/ TurnStep(c) \/ SendStep(c)
    \/ conn[c].overtime /\ TimeOut(c)

\* Something that can go on does, and time passes: that the handler and the turn
\* share one event loop needs no more. Clients need do nothing, and may send
\* messages forever.
Spec ==
    /\ Init /\ [][Next]_vars
    /\ \A c \in Client : WF_vars(Progress(c)) /\ WF_vars(TimeUp(c))
--------------------------------------------------------------------------------
(* Properties *)

Writes(c) == ~conn[c].written /\ conn'[c].written

\* The audio events on the wire make a protocol: an answer starts when no audio
\* is playing, chunks belong to an answer that started and has not ended or been
\* cut, and an answer that was not cut ends after its last chunk. One task
\* cannot announce the end while the other is still sending.
AudioInOrder ==
    [][\A c \in Client : Writes(c) =>
         LET e == Due(conn[c]) IN
         /\ e = "start" => ~conn[c].sounding
         /\ e \in {"chunk", "end"} => conn[c].sounding]_vars

\* stage-7-voice-pipeline.md: "Playing --> Ready: audio end", "Playing -->
\* Speaking: barge-in". A client that was sent audio and is still there is going
\* to be told it is over: the turn that plays goes on, or the handler has
\* announced its end.
PlaybackIsEnded ==
    \A c \in Client :
        LET s == conn[c] IN
        s.sounding /\ ~s.gone =>
            \/ s.turn.at \in {"start", "chunk", "pause", "end"} /\ ~s.turn.cancelled
            \/ \E i \in DOMAIN s.todo : s.todo[i] = "audio.cut"

\* "A response generation ID prevents a new turn from adopting old playback
\* state": a turn that an interruption cancels is playing its answer; a turn that
\* is still listening or in the middle of a conversation's operation is not cut
\* off for audio it has not sent, whatever earlier turns left behind.
InterruptsPlaybackOnly ==
    \A c \in Client : conn[c].turn.cancelled => conn[c].turn.at \in {"start", "chunk", "pause"}

\* "The handler deterministically returns session_busy if a second utterance is
\* committed while processing": however turns, cuts and commits interleave, a
\* turn is never replaced by the next before it is over.
TurnsAreNotLost ==
    [][\A c \in Client :
         conn'[c].turn.at = "listen" /\ conn[c].turn.at # "listen" => ~TurnRuns(conn[c])]_vars

\* A client that asks to end the session is told that it ended only after the turn of the
\* last utterance that was accepted is over: its answer was given to the end, unless it
\* was cut. An utterance that was refused, or not committed, is not answered.
AnswerBeforeEnd ==
    [][\A c \in Client :
         Writes(c) /\ Due(conn[c]) = "ended.client" => ~TurnRuns(conn[c])]_vars

\* "Disconnect ... enforces connection limits, and clears buffers/tasks on
\* disconnect": a place is always given back, also when the client never stops
\* talking.
PlacesGivenBack == \A c \in Client : c \in sessions ~> c \notin sessions

\* stage-7-voice-pipeline.md: "minimum speech prevents noise commits, trailing silence ends
\* an utterance, and maximum bytes cap duration". That is so where what is kept from before
\* the speech fits into an utterance, as VoiceSessionProofs shows.  The defaults do not see to
\* it: start_speech() puts those frames into the buffer without a look at max_bytes, and 15
\* frames of 65536 bytes are more than 960000.
UtteranceBounded == \A c \in Client : conn[c].buffer.frames <= MaxFrames
================================================================================
