--------------------------- MODULE ScreenSessions ---------------------------
(***************************************************************************)
(* The registry of screen stream sessions (ScreenManager in src/screen.rs) *)
(* and the tasks it owns: one video producer per attached session and the  *)
(* desktop audio producers (DesktopAudioStream in src/audio.rs) that share *)
(* its socket.  Several control connections call the manager at once; the  *)
(* only lock is the tokio mutex around the registry.                       *)
(*                                                                         *)
(* Between two awaits a task is atomic, so an action is one lock section   *)
(* or one step of a producer task.  The socket is reduced to the fact that *)
(* the handshake line was written; StreamWire models what crosses it.      *)
(***************************************************************************)
EXTENDS Naturals, FiniteSets

CONSTANTS
    Session,         \* session ids, one per start_stream (fresh UUIDs)
    Client,          \* control connections, each with one call in progress
    Audio,           \* ids of spawned audio producers; bounds how many
    Portal,          \* the sessions whose source is the ScreenCast portal
    AudioSupported,  \* capabilities.audio_capture.supported
    None

ASSUME PortalAssumption == Portal \subseteq Session
ASSUME SupportAssumption == AudioSupported \in BOOLEAN
ASSUME NoneAssumption == None \notin Session /\ None \notin Audio

VARIABLES
    entry,        \* what `sessions` holds under an id
    wantAudio,    \* PendingStream.audio
    attach,       \* progress of attach_stream_client for the session's token
    video,        \* where the video producer task is
    opened,       \* StreamSocket.magic_sent: the handshake line is out
    stopTx,       \* the oneshot of RunningStream.stop
    portalError,  \* last_portal_error is set (shared by all sessions)
    audioHandle,  \* RunningStream.audio
    audioOf,      \* the session a producer was spawned for
    audioPc,      \* where an audio task is
    audioStop,    \* its stop signal was sent
    audioMuted,   \* its mute flag
    call,         \* the call each control connection waits in
    stopReplied,  \* history: stop_stream answered ok for this id
    muteReplied,  \* history: the mute last acknowledged for this id
    portalBroke   \* history: the portal pipeline of this session failed

registryVars == <<entry, wantAudio, attach, audioHandle>>
videoVars == <<video, opened, stopTx, portalError, portalBroke>>
audioVars == <<audioOf, audioPc, audioStop, audioMuted>>
clientVars == <<call, stopReplied, muteReplied>>
vars == <<registryVars, videoVars, audioVars, clientVars>>

EntryState == {"unborn", "pending", "running", "closed"}
Finished == {"gone", "aborted", "panicked"}
VideoState == {"none", "approving", "pumping", "capturing", "leaving"} \cup Finished
Live == {"waiting", "capturing"}
AudioState == {"unused", "ended"} \cup Live

IdleCall == [op |-> "idle", session |-> None, audio |-> None]
CallType == [op : {"idle", "stopping", "audio_stopping"},
             session : Session \cup {None},
             audio : Audio \cup {None}]

Idle(c) == call[c].op = "idle"

TypeOK ==
    /\ entry \in [Session -> EntryState]
    /\ wantAudio \in [Session -> BOOLEAN]
    /\ attach \in [Session -> {"no", "claimed", "attached"}]
    /\ video \in [Session -> VideoState]
    /\ opened \in [Session -> BOOLEAN]
    /\ stopTx \in [Session -> {"open", "sent", "taken"}]
    /\ portalError \in BOOLEAN
    /\ audioHandle \in [Session -> Audio \cup {None}]
    /\ audioOf \in [Audio -> Session \cup {None}]
    /\ audioPc \in [Audio -> AudioState]
    /\ audioStop \in [Audio -> BOOLEAN]
    /\ audioMuted \in [Audio -> BOOLEAN]
    /\ call \in [Client -> CallType]
    /\ stopReplied \in [Session -> BOOLEAN]
    /\ muteReplied \in [Session -> BOOLEAN]
    /\ portalBroke \in [Session -> BOOLEAN]
    /\ \A h \in Audio : audioPc[h] # "unused" => audioOf[h] \in Session
    /\ \A c \in Client : ~Idle(c) => call[c].session \in Session

Init ==
    /\ entry = [s \in Session |-> "unborn"]
    /\ wantAudio = [s \in Session |-> FALSE]
    /\ attach = [s \in Session |-> "no"]
    /\ video = [s \in Session |-> "none"]
    /\ opened = [s \in Session |-> FALSE]
    /\ stopTx = [s \in Session |-> "open"]
    /\ portalError = FALSE
    /\ audioHandle = [s \in Session |-> None]
    /\ audioOf = [h \in Audio |-> None]
    /\ audioPc = [h \in Audio |-> "unused"]
    /\ audioStop = [h \in Audio |-> FALSE]
    /\ audioMuted = [h \in Audio |-> FALSE]
    /\ call = [c \in Client |-> IdleCall]
    /\ stopReplied = [s \in Session |-> FALSE]
    /\ muteReplied = [s \in Session |-> FALSE]
    /\ portalBroke = [s \in Session |-> FALSE]

(***************************************************************************)
(* The registry mutex is held across an await in one place only: stop_audio *)
(* waits for the audio task under it.                                      *)
(***************************************************************************)
RegistryFree == \A c \in Client : call[c].op # "audio_stopping"

\* Mutant of Spawn: the producer is not bound to its session's socket.
SpawnUnbound(h, s) ==
    /\ audioPc[h] = "unused"
    /\ audioPc' = [audioPc EXCEPT ![h] = "waiting"]
    /\ audioMuted' = [audioMuted EXCEPT ![h] = FALSE]
    /\ UNCHANGED audioOf

\* DesktopAudioStream::spawn: a producer starts unmuted, waiting for the handshake.
Spawn(h, s) ==
    /\ audioPc[h] = "unused"
    /\ audioOf' = [audioOf EXCEPT ![h] = s]
    /\ audioPc' = [audioPc EXCEPT ![h] = "waiting"]
    /\ audioMuted' = [audioMuted EXCEPT ![h] = FALSE]

\* Drop and stop() of a handle send the signal; there may be no handle to drop.
Signalled(h) == [a \in Audio |-> audioStop[a] \/ a = h]

-----------------------------------------------------------------------------
(* Calls of the control connections *)

StartStream(s, audio) ==
    /\ RegistryFree
    /\ entry[s] = "unborn"
    /\ entry' = [entry EXCEPT ![s] = "pending"]
    /\ wantAudio' = [wantAudio EXCEPT ![s] = audio /\ AudioSupported]
    /\ UNCHANGED <<attach, audioHandle, videoVars, audioVars, clientVars>>

\* First lock section of attach_stream_client: the token consumes the pending entry.
AttachClaim(s) ==
    /\ RegistryFree
    /\ entry[s] = "pending"
    /\ entry' = [entry EXCEPT ![s] = "closed"]
    /\ attach' = [attach EXCEPT ![s] = "claimed"]
    /\ UNCHANGED <<wantAudio, audioHandle, videoVars, audioVars, clientVars>>

\* Mutant of AttachRegister: the registry lock is only taken for the insertion,
\* so the producer runs before its session is registered.
AttachSpawnUnlocked(s) ==
    /\ attach[s] = "claimed"
    /\ \/ /\ video[s] = "none"
          /\ video' = [video EXCEPT ![s] = IF s \in Portal THEN "approving" ELSE "capturing"]
          /\ UNCHANGED <<entry, attach>>
       \/ /\ video[s] # "none"
          /\ RegistryFree
          /\ attach' = [attach EXCEPT ![s] = "attached"]
          /\ entry' = [entry EXCEPT ![s] = "running"]
          /\ UNCHANGED video
    /\ UNCHANGED <<wantAudio, audioHandle, opened, stopTx, portalError, portalBroke,
                   audioVars, clientVars>>

\* Second lock section: spawn the producers and register the session.
AttachRegister(s) ==
    /\ RegistryFree
    /\ attach[s] = "claimed"
    /\ attach' = [attach EXCEPT ![s] = "attached"]
    /\ entry' = [entry EXCEPT ![s] = "running"]
    /\ video' = [video EXCEPT ![s] = IF s \in Portal THEN "approving" ELSE "capturing"]
    /\ \/ /\ wantAudio[s]
          /\ \E h \in Audio : /\ Spawn(h, s)
                              /\ audioHandle' = [audioHandle EXCEPT ![s] = h]
       \/ /\ ~wantAudio[s]
          /\ UNCHANGED <<audioHandle, audioOf, audioPc, audioMuted>>
    /\ UNCHANGED <<wantAudio, opened, stopTx, portalError, portalBroke, audioStop, clientVars>>

\* stop_stream of an id that is not in the registry still answers ok.
StopUnknown(c, s) ==
    /\ RegistryFree
    /\ Idle(c)
    /\ entry[s] \in {"unborn", "closed"}
    /\ stopReplied' = [stopReplied EXCEPT ![s] = entry[s] = "closed" \/ @]
    /\ UNCHANGED <<registryVars, videoVars, audioVars, call, muteReplied>>

StopPending(c, s) ==
    /\ RegistryFree
    /\ Idle(c)
    /\ entry[s] = "pending"
    /\ entry' = [entry EXCEPT ![s] = "closed"]
    /\ stopReplied' = [stopReplied EXCEPT ![s] = TRUE]
    /\ UNCHANGED <<wantAudio, attach, audioHandle, videoVars, audioVars, call, muteReplied>>

\* The entry leaves the registry first; its audio handle stays with the call.
StopRunning(c, s) ==
    /\ RegistryFree
    /\ Idle(c)
    /\ entry[s] = "running"
    /\ entry' = [entry EXCEPT ![s] = "closed"]
    /\ stopTx' = [stopTx EXCEPT ![s] = "sent"]
    /\ call' = [call EXCEPT ![c] = [op |-> "stopping", session |-> s, audio |-> audioHandle[s]]]
    /\ audioHandle' = [audioHandle EXCEPT ![s] = None]
    /\ UNCHANGED <<wantAudio, attach, video, opened, portalError, portalBroke, audioVars,
                   stopReplied, muteReplied>>

\* Mutant of StopReturns: the task is not aborted after the timeout.
StopReturnsWithoutAbort(c) ==
    /\ call[c].op = "stopping"
    /\ audioStop' = Signalled(call[c].audio)
    /\ call' = [call EXCEPT ![c] = IdleCall]
    /\ stopReplied' = [stopReplied EXCEPT ![call[c].session] = TRUE]
    /\ UNCHANGED <<registryVars, videoVars, audioOf, audioPc, audioMuted, muteReplied>>

\* The producer task is joined, or aborted after two seconds; then the rest of
\* the RunningStream is dropped and with it the audio handle.
StopReturns(c) ==
    LET s == call[c].session IN
    /\ call[c].op = "stopping"
    /\ video' = [video EXCEPT ![s] = IF @ \in Finished THEN @ ELSE "aborted"]
    /\ audioStop' = Signalled(call[c].audio)
    /\ call' = [call EXCEPT ![c] = IdleCall]
    /\ stopReplied' = [stopReplied EXCEPT ![s] = TRUE]
    /\ UNCHANGED <<registryVars, opened, stopTx, portalError, portalBroke,
                   audioOf, audioPc, audioMuted, muteReplied>>

\* Mutant of StartAudioRunning: it spawns without looking at the
\* producer that may still run.
StartAudioAgain(c, s) ==
    /\ RegistryFree
    /\ Idle(c)
    /\ AudioSupported
    /\ entry[s] = "running"
    /\ \E new \in Audio : /\ Spawn(new, s)
                          /\ audioHandle' = [audioHandle EXCEPT ![s] = new]
    /\ muteReplied' = [muteReplied EXCEPT ![s] = FALSE]
    /\ UNCHANGED <<entry, wantAudio, attach, videoVars, audioStop, call, stopReplied>>

\* start_audio on a running session: unmute the live producer or spawn another.
StartAudioRunning(c, s) ==
    LET h == audioHandle[s] IN
    /\ RegistryFree
    /\ Idle(c)
    /\ AudioSupported
    /\ entry[s] = "running"
    /\ \/ /\ h # None
          /\ audioPc[h] # "ended"
          /\ audioMuted' = [audioMuted EXCEPT ![h] = FALSE]
          /\ UNCHANGED <<audioHandle, audioOf, audioPc, audioStop>>
       \/ /\ h # None => audioPc[h] = "ended"
          /\ \E new \in Audio : /\ Spawn(new, s)
                                /\ audioHandle' = [audioHandle EXCEPT ![s] = new]
          /\ audioStop' = Signalled(h)
    /\ muteReplied' = [muteReplied EXCEPT ![s] = FALSE]
    /\ UNCHANGED <<entry, wantAudio, attach, videoVars, call, stopReplied>>

\* start_audio and stop_audio before the attach only set the request.
RequestAudioPending(c, s, audio) ==
    /\ RegistryFree
    /\ Idle(c)
    /\ audio => AudioSupported
    /\ entry[s] = "pending"
    /\ wantAudio' = [wantAudio EXCEPT ![s] = audio]
    /\ muteReplied' = [muteReplied EXCEPT ![s] = FALSE]
    /\ UNCHANGED <<entry, attach, audioHandle, videoVars, audioVars, call, stopReplied>>

StopAudioRunning(c, s) ==
    LET h == audioHandle[s] IN
    /\ RegistryFree
    /\ Idle(c)
    /\ entry[s] = "running"
    /\ h # None
    /\ audioHandle' = [audioHandle EXCEPT ![s] = None]
    /\ audioStop' = Signalled(h)
    /\ call' = [call EXCEPT ![c] = [op |-> "audio_stopping", session |-> s, audio |-> h]]
    /\ UNCHANGED <<entry, wantAudio, attach, videoVars, audioOf, audioPc, audioMuted,
                   stopReplied, muteReplied>>

\* The audio task ended, or two seconds passed and it is left to end by itself.
StopAudioReturns(c) ==
    /\ call[c].op = "audio_stopping"
    /\ call' = [call EXCEPT ![c] = IdleCall]
    /\ UNCHANGED <<registryVars, videoVars, audioVars, stopReplied, muteReplied>>

SetAudioMute(c, s, muted) ==
    /\ RegistryFree
    /\ Idle(c)
    /\ \/ /\ entry[s] = "running"
          /\ audioHandle[s] # None
          /\ audioMuted' = [audioMuted EXCEPT ![audioHandle[s]] = muted]
       \/ /\ entry[s] = "pending"
          /\ UNCHANGED audioMuted
    /\ muteReplied' = [muteReplied EXCEPT ![s] = muted]
    /\ UNCHANGED <<registryVars, videoVars, audioOf, audioPc, audioStop, call, stopReplied>>

-----------------------------------------------------------------------------
(* The video producer task of a session *)

Leave(s) == video' = [video EXCEPT ![s] = "leaving"]
FallBack(s) == video' = [video EXCEPT ![s] = "capturing"]

ApprovePortal(s) ==
    /\ video[s] = "approving"
    /\ video' = [video EXCEPT ![s] = "pumping"]
    /\ UNCHANGED <<registryVars, opened, stopTx, portalError, portalBroke, audioVars, clientVars>>

\* The first frame of whichever producer runs writes the handshake line before
\* it.  A capture polls the stop receiver before its screenshot can be ready,
\* and polling it a second time after it fired panics.
FirstFrame(s) ==
    /\ \/ video[s] = "pumping"
       \/ video[s] = "capturing" /\ stopTx[s] # "taken"
    /\ ~opened[s]
    /\ opened' = [opened EXCEPT ![s] = TRUE]
    /\ UNCHANGED <<registryVars, video, stopTx, portalError, portalBroke, audioVars, clientVars>>

\* A portal approval or pipeline error: fall back to grim while the socket is
\* untouched, unless the client is gone.
PortalFails(s, disconnected) ==
    /\ video[s] \in {"approving", "pumping"}
    /\ disconnected => video[s] = "pumping"
    /\ portalError' = TRUE
    /\ portalBroke' = [portalBroke EXCEPT ![s] = TRUE]
    /\ IF disconnected \/ opened[s] THEN Leave(s) ELSE FallBack(s)
    /\ UNCHANGED <<registryVars, opened, stopTx, audioVars, clientVars>>

\* The encoder closes its pipe after at least one frame: a normal end.
PumpFinishes(s) ==
    /\ video[s] = "pumping"
    /\ opened[s]
    /\ portalError' = FALSE
    /\ Leave(s)
    /\ UNCHANGED <<registryVars, opened, stopTx, portalBroke, audioVars, clientVars>>

\* A stop ends the pump normally, and zero frames are then reported as a
\* pipeline failure whatever ended it.
PumpStops(s) ==
    /\ video[s] = "pumping"
    /\ stopTx[s] = "sent"
    /\ stopTx' = [stopTx EXCEPT ![s] = "taken"]
    /\ portalError' = ~opened[s]
    /\ IF opened[s] THEN Leave(s) ELSE FallBack(s)
    /\ UNCHANGED <<registryVars, opened, portalBroke, audioVars, clientVars>>

\* grim and x11 captures: stop, end, failure or disconnect, and the second poll
\* of the stop receiver, which only a capture that cannot even start may escape.
CaptureStops(s) ==
    /\ video[s] = "capturing"
    /\ stopTx[s] = "sent"
    /\ stopTx' = [stopTx EXCEPT ![s] = "taken"]
    /\ Leave(s)
    /\ UNCHANGED <<registryVars, opened, portalError, portalBroke, audioVars, clientVars>>

CaptureEnds(s) ==
    /\ video[s] = "capturing"
    /\ Leave(s)
    /\ UNCHANGED <<registryVars, opened, stopTx, portalError, portalBroke, audioVars, clientVars>>

CapturePanics(s) ==
    /\ video[s] = "capturing"
    /\ stopTx[s] = "taken"
    /\ video' = [video EXCEPT ![s] = "panicked"]
    /\ UNCHANGED <<registryVars, opened, stopTx, portalError, portalBroke, audioVars, clientVars>>

\* Mutant of Deregister: dropping the audio handle does not signal its task.
DeregisterKeepsAudio(s) ==
    /\ RegistryFree
    /\ video[s] = "leaving"
    /\ video' = [video EXCEPT ![s] = "gone"]
    /\ entry' = [entry EXCEPT ![s] = "closed"]
    /\ audioHandle' = [audioHandle EXCEPT ![s] = None]
    /\ UNCHANGED <<wantAudio, attach, opened, stopTx, portalError, portalBroke,
                   audioVars, clientVars>>

\* The last thing the task does: remove its entry, dropping the audio handle.
Deregister(s) ==
    /\ RegistryFree
    /\ video[s] = "leaving"
    /\ video' = [video EXCEPT ![s] = "gone"]
    /\ entry' = [entry EXCEPT ![s] = "closed"]
    /\ audioStop' = Signalled(audioHandle[s])
    /\ audioHandle' = [audioHandle EXCEPT ![s] = None]
    /\ UNCHANGED <<wantAudio, attach, opened, stopTx, portalError, portalBroke,
                   audioOf, audioPc, audioMuted, clientVars>>

-----------------------------------------------------------------------------
(* The audio producer tasks; AudioProducer models their inside *)

\* Mutant of AudioOpens: the encoder is started without waiting for the handshake line.
AudioOpensEarly(h) ==
    /\ audioPc[h] = "waiting"
    /\ ~audioStop[h]
    /\ audioPc' = [audioPc EXCEPT ![h] = "capturing"]
    /\ UNCHANGED <<registryVars, videoVars, audioOf, audioStop, audioMuted, clientVars>>

AudioOpens(h) ==
    /\ audioPc[h] = "waiting"
    /\ opened[audioOf[h]]
    /\ ~audioStop[h]
    /\ audioPc' = [audioPc EXCEPT ![h] = "capturing"]
    /\ UNCHANGED <<registryVars, videoVars, audioOf, audioStop, audioMuted, clientVars>>

AudioStops(h) ==
    /\ audioPc[h] \in Live
    /\ audioStop[h]
    /\ audioPc' = [audioPc EXCEPT ![h] = "ended"]
    /\ UNCHANGED <<registryVars, videoVars, audioOf, audioStop, audioMuted, clientVars>>

\* The monitor is looked up behind the wait and may not be there.
AudioFails(h) ==
    /\ \/ audioPc[h] = "capturing"
       \/ audioPc[h] = "waiting" /\ opened[audioOf[h]]
    /\ audioPc' = [audioPc EXCEPT ![h] = "ended"]
    /\ UNCHANGED <<registryVars, videoVars, audioOf, audioStop, audioMuted, clientVars>>

-----------------------------------------------------------------------------
StopStream(c, s) == StopUnknown(c, s) \/ StopPending(c, s) \/ StopRunning(c, s)
StopWaiting(s) == PumpStops(s) \/ CaptureStops(s) \/ CapturePanics(s)

ClientNext ==
    \/ \E s \in Session : \/ \E audio \in BOOLEAN : StartStream(s, audio)
                          \/ AttachClaim(s)
                          \/ AttachRegister(s)
    \/ \E c \in Client : \/ StopReturns(c)
                         \/ StopAudioReturns(c)
                         \/ \E s \in Session :
                              \/ StopStream(c, s)
                              \/ StartAudioRunning(c, s)
                              \/ StopAudioRunning(c, s)
                              \/ \E b \in BOOLEAN : \/ RequestAudioPending(c, s, b)
                                                    \/ SetAudioMute(c, s, b)

VideoNext == \E s \in Session :
    \/ ApprovePortal(s) \/ FirstFrame(s) \/ PumpFinishes(s)
    \/ \E disconnected \in BOOLEAN : PortalFails(s, disconnected)
    \/ StopWaiting(s) \/ CaptureEnds(s) \/ Deregister(s)

AudioNext == \E h \in Audio : AudioOpens(h) \/ AudioStops(h) \/ AudioFails(h)

Next == ClientNext \/ VideoNext \/ AudioNext

Spec == Init /\ [][Next]_vars

(***************************************************************************)
(* Fairness.  A task that can run is eventually polled.  stop_stream and   *)
(* stop_audio wait two seconds at most; a pump and a capture select on the *)
(* stop receiver and every write they make between two selects has a       *)
(* deadline.  The registry mutex is FIFO, so a producer queued on it gets  *)
(* it although other calls keep taking it (strong fairness).  Nothing is   *)
(* assumed of clients, of the portal dialog or of frames.                  *)
(***************************************************************************)
Fairness ==
    /\ \A c \in Client : WF_vars(StopReturns(c)) /\ WF_vars(StopAudioReturns(c))
    /\ \A s \in Session : /\ WF_vars(StopWaiting(s))
                          /\ SF_vars(Deregister(s))
    /\ \A h \in Audio : WF_vars(AudioStops(h))

FairSpec == Spec /\ Fairness

-----------------------------------------------------------------------------
(* Properties *)

Streaming(s) == video[s] \in {"approving", "pumping", "capturing"}
Sounding(h) == audioPc[h] \in Live /\ ~audioStop[h]
Owned(h) ==
    \/ entry[audioOf[h]] = "running" /\ audioHandle[audioOf[h]] = h
    \/ \E c \in Client : call[c].op = "stopping" /\ call[c].audio = h

RunningHasProducer ==
    \A s \in Session : entry[s] = "running" => video[s] \notin Finished \cup {"none"}

NoUnstoppableStream ==
    \A s \in Session : Streaming(s) => entry[s] = "running" \/ stopTx[s] # "open"

\* The registry and the video tasks agree.  A registered session has a producer that
\* has not ended: a pipeline that fails at once cannot leave an entry behind it
\* (attach_stream_client holds the registry from before the spawn until the
\* insertion).  And a producer that captures the screen can be reached by
\* stop_stream or was told to stop: no stream outlives its entry unsignalled.
\* (And the state is well typed.)
RegistryMatchesStreams == TypeOK /\ RunningHasProducer /\ NoUnstoppableStream

\* An audio producer that was not told to stop belongs to a registered session
\* or to a stop_stream call that will drop it; it never captures unowned.
NoOrphanAudio == \A h \in Audio : Sounding(h) => Owned(h)

\* start_audio, stop_audio and an attach that also starts audio never leave two
\* producers of one session capturing.
OneSoundPerSession ==
    \A g, h \in Audio :
        Sounding(g) /\ Sounding(h) /\ audioOf[g] = audioOf[h] => g = h

\* Once an attached session left the registry, its video task ends and so does
\* every audio task ever spawned for it, whoever removed the entry.
ClosedSessionGoesQuiet ==
    \A s \in Session :
        entry[s] = "closed" /\ attach[s] = "attached"
            ~> /\ video[s] \in Finished
               /\ \A h \in Audio : audioOf[h] = s => audioPc[h] \notin Live

\* "stop_screen_stream stops a running screen stream session"
\* (docs/PROTOCOL.md): after an ok no producer runs that was not told to stop.
StopEndsTheStream ==
    \A s \in Session : stopReplied[s] => ~(Streaming(s) /\ stopTx[s] = "open")

\* run_portal_stream reads zero frames as "GStreamer pipeline failed before
\* producing any frames": grim takes over a portal session only then.
FallbackOnlyAfterFailure ==
    \A s \in Portal : video[s] = "capturing" => portalBroke[s]

\* "Muting acts on the host: the encoder keeps running but no envelope is sent"
\* (docs/PROTOCOL.md), for the mute last acknowledged.
MuteIsHonoured ==
    \A s \in Session, h \in Audio :
        muteReplied[s] /\ audioHandle[s] = h /\ Sounding(h) => audioMuted[h]

\* One of the audio tasks as the registry sees it.
Task(h) == INSTANCE AudioTask WITH
    phase <- audioPc[h], signalled <- audioStop[h],
    opened <- audioOf[h] # None /\ opened[audioOf[h]]

\* Whatever the calls, the video producer and the other audio tasks do, each audio
\* task does only what AudioTask allows: no call signals one that was not spawned, revives
\* one, takes a signal back or hands it to a session that has not opened its stream.
TasksAreAudioTasks ==
    /\ \A h \in Audio : Task(h)!Init
    /\ [][\A h \in Audio : [Task(h)!Next]_(Task(h)!vars)]_vars
=============================================================================
