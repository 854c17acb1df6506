SPECIFICATION FairSpec
CONSTANTS
    Session = {p1}
    Client = {c1, c2}
    Audio = {a1, a2, a3}
    Portal = {p1}
    AudioSupported = TRUE
    None = None
INVARIANTS
    RegistryMatchesStreams
    OneSoundPerSession
    NoOrphanAudio
PROPERTIES ClosedSessionGoesQuiet TasksAreAudioTasks
