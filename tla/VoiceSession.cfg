\* Two clients of one identity and one place, one request to a window of two seconds, of which the clock shows one.
SPECIFICATION Spec
CONSTANTS
    Client = {a, b}
    NoWindow = NoWindow
    Limit = 1
    WindowSeconds = 2
    MaxTime = 1
    MaxChecks = 2
    MaxSessions = 1
    MinSpeech = 1
    EndSilence = 1
    MaxFrames = 2
    PreFrames = 3
    MaxChunks = 1
\* Clients stop connecting, and no step is left.
CHECK_DEADLOCK FALSE
INVARIANTS
    TypeOK
    WindowLimit
    PlaybackIsEnded
    InterruptsPlaybackOnly
PROPERTIES
    AudioInOrder
    TurnsAreNotLost
    AnswerBeforeEnd
    PlacesGivenBack
