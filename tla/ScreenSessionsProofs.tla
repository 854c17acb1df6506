------------------------ MODULE ScreenSessionsProofs ------------------------
(***************************************************************************)
(* Proofs about ScreenSessions for every set of sessions, connections and  *)
(* audio producers, and about the inside of an audio task, AudioProducer,  *)
(* for every number of packets, attempts and batches.                      *)
(***************************************************************************)
EXTENDS ScreenSessions, AudioProducer, SequenceTheorems, WellFoundedInduction, TLAPS

(* The inductive invariant, one part per thing an action relies on. *)

\* How far the token got decides whether a producer exists.
AttachOrder ==
    \A s \in Session :
        /\ attach[s] = "attached" <=> video[s] # "none"
        /\ attach[s] = "claimed" => entry[s] = "closed"
        /\ entry[s] \in {"unborn", "pending"} => attach[s] = "no"
        /\ entry[s] = "running" => attach[s] = "attached"

\* The entry that left the registry took the stop sender with it.
StopOrder ==
    \A s \in Session :
        stopTx[s] # "open" => entry[s] = "closed" /\ attach[s] = "attached"

\* Only a registered session holds an audio handle, and one of its own.
HandleOwner ==
    \A s \in Session : audioHandle[s] # None =>
        /\ entry[s] = "running"
        /\ audioOf[audioHandle[s]] = s
        /\ audioPc[audioHandle[s]] # "unused"

\* A stop_stream call owns the handle of a session that left the registry.
CallOwner ==
    \A c \in Client : call[c].op = "stopping" =>
        /\ entry[call[c].session] = "closed"
        /\ attach[call[c].session] = "attached"
        /\ call[c].audio # None => /\ audioOf[call[c].audio] = call[c].session
                                   /\ audioPc[call[c].audio] # "unused"

\* One stop_stream call at most removes a given session from the registry.
OneStopper ==
    \A c, d \in Client :
        /\ call[c].op = "stopping"
        /\ call[d].op = "stopping"
        /\ call[c].session = call[d].session
        => c = d

\* Producers that were not spawned carry no signal.
FreshAudio == \A h \in Audio : audioPc[h] = "unused" => ~audioStop[h]

Lifecycle == AttachOrder /\ StopOrder /\ RunningHasProducer /\ NoUnstoppableStream
Ownership == HandleOwner /\ CallOwner /\ OneStopper /\ FreshAudio

SessionInv == TypeOK /\ Lifecycle /\ Ownership /\ NoOrphanAudio

-----------------------------------------------------------------------------
\* A manager without sessions satisfies every part of the invariant.
LEMMA InitInv == Init => SessionInv
<1> SUFFICES ASSUME Init PROVE SessionInv
  OBVIOUS
<1>1. TypeOK
  BY DEF Init, TypeOK, IdleCall, CallType, Idle, EntryState, VideoState,
     AudioState
<1>2. Lifecycle
  BY DEF Init, Lifecycle, AttachOrder, StopOrder, RunningHasProducer,
     NoUnstoppableStream, Streaming
<1>3. Ownership
  BY DEF Init, IdleCall, Ownership, HandleOwner, CallOwner, OneStopper,
     FreshAudio
<1>4. NoOrphanAudio
  BY DEF Init, NoOrphanAudio, Owned, Sounding, Live
<1>5. QED BY <1>1, <1>2, <1>3, <1>4 DEF SessionInv

\* Every action keeps every variable in its set.
LEMMA TypeStep ==
    ASSUME TypeOK, [Next]_vars
    PROVE  TypeOK'
<1>1. ASSUME NEW s \in Session, NEW b \in BOOLEAN, StartStream(s, b) PROVE
            TypeOK'
  BY <1>1 DEF StartStream, videoVars, audioVars, clientVars, TypeOK, Idle,
     EntryState
<1>2. ASSUME NEW s \in Session, AttachClaim(s) PROVE TypeOK'
  BY <1>2 DEF AttachClaim, videoVars, audioVars, clientVars, TypeOK, Idle,
     EntryState
<1>3. ASSUME NEW s \in Session, AttachRegister(s) PROVE TypeOK'
  <2>1. CASE wantAudio[s]
    <3>1. PICK h \in Audio : Spawn(h, s) /\ audioHandle' = [audioHandle EXCEPT ![s] = h]
      BY <1>3, <2>1 DEF AttachRegister
    <3>2. \A g \in Audio : audioPc'[g] # "unused" => audioOf'[g] \in Session
      BY <3>1 DEF Spawn, TypeOK
    <3>3. /\ audioHandle' \in [Session -> Audio \cup {None}]
          /\ audioOf' \in [Audio -> Session \cup {None}]
          /\ audioPc' \in [Audio -> AudioState]
          /\ audioMuted' \in [Audio -> BOOLEAN]
      BY <3>1 DEF Spawn, TypeOK, AudioState, Live
    <3>4. QED
      BY <1>3, <3>2, <3>3 DEF AttachRegister, Idle, TypeOK, EntryState,
         VideoState, clientVars
  <2>2. CASE ~wantAudio[s]
    BY <1>3, <2>2 DEF AttachRegister, Idle, TypeOK, EntryState, VideoState,
       clientVars
  <2>3. QED BY <2>1, <2>2
<1>4. ASSUME NEW c \in Client, NEW s \in Session, StopUnknown(c, s) PROVE
            TypeOK'
  BY <1>4 DEF StopUnknown, registryVars, videoVars, audioVars, TypeOK, Idle
<1>5. ASSUME NEW c \in Client, NEW s \in Session, StopPending(c, s) PROVE
            TypeOK'
  BY <1>5 DEF StopPending, videoVars, audioVars, TypeOK, Idle, EntryState
<1>6. ASSUME NEW c \in Client, NEW s \in Session, StopRunning(c, s) PROVE
            TypeOK'
  BY <1>6 DEF StopRunning, audioVars, TypeOK, CallType, Idle, EntryState
<1>7. ASSUME NEW c \in Client, StopReturns(c) PROVE TypeOK'
  BY <1>7 DEF StopReturns, Signalled, IdleCall, registryVars, TypeOK, CallType,
     Idle, VideoState, Finished
<1>8. ASSUME NEW c \in Client, NEW s \in Session, StartAudioRunning(c, s)
            PROVE TypeOK'
  <2>1. CASE audioHandle[s] # None /\ audioPc[audioHandle[s]] # "ended"
    BY <1>8, <2>1 DEF StartAudioRunning, Idle, TypeOK, videoVars
  <2>2. CASE ~(audioHandle[s] # None /\ audioPc[audioHandle[s]] # "ended")
    <3>1. PICK h \in Audio : Spawn(h, s) /\ audioHandle' = [audioHandle EXCEPT ![s] = h]
      BY <1>8, <2>2 DEF StartAudioRunning
    <3>2. audioStop' = Signalled(audioHandle[s])
      BY <1>8, <2>2 DEF StartAudioRunning
    <3>3. \A g \in Audio : audioPc'[g] # "unused" => audioOf'[g] \in Session
      BY <3>1 DEF Spawn, TypeOK
    <3>4. /\ audioHandle' \in [Session -> Audio \cup {None}]
          /\ audioOf' \in [Audio -> Session \cup {None}]
          /\ audioPc' \in [Audio -> AudioState]
          /\ audioStop' \in [Audio -> BOOLEAN]
          /\ audioMuted' \in [Audio -> BOOLEAN]
      BY <3>1, <3>2 DEF Spawn, Signalled, TypeOK, AudioState, Live
    <3>5. QED
      BY <1>8, <3>3, <3>4 DEF StartAudioRunning, Idle, TypeOK, videoVars
  <2>3. QED BY <2>1, <2>2
<1>9. ASSUME NEW c \in Client, NEW s \in Session, NEW b \in BOOLEAN,
            RequestAudioPending(c, s, b) PROVE TypeOK'
  BY <1>9 DEF RequestAudioPending, videoVars, audioVars, TypeOK, Idle
<1>10. ASSUME NEW c \in Client, NEW s \in Session, StopAudioRunning(c, s)
            PROVE TypeOK'
  BY <1>10 DEF StopAudioRunning, Signalled, videoVars, TypeOK, CallType, Idle
<1>11. ASSUME NEW c \in Client, StopAudioReturns(c) PROVE TypeOK'
  BY <1>11 DEF StopAudioReturns, IdleCall, registryVars, videoVars, audioVars,
     TypeOK, CallType, Idle
<1>12. ASSUME NEW c \in Client, NEW s \in Session, NEW b \in BOOLEAN,
            SetAudioMute(c, s, b) PROVE TypeOK'
  BY <1>12 DEF SetAudioMute, registryVars, videoVars, TypeOK, Idle
<1>13. ASSUME NEW s \in Session, ApprovePortal(s) PROVE TypeOK'
  BY <1>13 DEF ApprovePortal, registryVars, audioVars, clientVars, TypeOK, Idle,
     VideoState
<1>14. ASSUME NEW s \in Session, FirstFrame(s) PROVE TypeOK'
  BY <1>14 DEF FirstFrame, registryVars, audioVars, clientVars, TypeOK, Idle
<1>15. ASSUME NEW s \in Session, NEW b \in BOOLEAN, PortalFails(s, b) PROVE
            TypeOK'
  BY <1>15 DEF PortalFails, Leave, FallBack, registryVars, audioVars,
     clientVars, TypeOK, Idle, VideoState
<1>16. ASSUME NEW s \in Session, PumpFinishes(s) PROVE TypeOK'
  BY <1>16 DEF PumpFinishes, Leave, registryVars, audioVars, clientVars, TypeOK,
     Idle, VideoState
<1>17. ASSUME NEW s \in Session, PumpStops(s) PROVE TypeOK'
  BY <1>17 DEF PumpStops, Leave, FallBack, registryVars, audioVars, clientVars,
     TypeOK, Idle, VideoState
<1>18. ASSUME NEW s \in Session, CaptureStops(s) PROVE TypeOK'
  BY <1>18 DEF CaptureStops, Leave, registryVars, audioVars, clientVars, TypeOK,
     Idle, VideoState
<1>19. ASSUME NEW s \in Session, CaptureEnds(s) PROVE TypeOK'
  BY <1>19 DEF CaptureEnds, Leave, registryVars, audioVars, clientVars, TypeOK,
     Idle, VideoState
<1>20. ASSUME NEW s \in Session, CapturePanics(s) PROVE TypeOK'
  BY <1>20 DEF CapturePanics, registryVars, audioVars, clientVars, TypeOK, Idle,
     VideoState, Finished
<1>21. ASSUME NEW s \in Session, Deregister(s) PROVE TypeOK'
  BY <1>21 DEF Deregister, Signalled, clientVars, TypeOK, Idle, EntryState,
     VideoState, Finished
<1>22. ASSUME NEW h \in Audio, AudioOpens(h) PROVE TypeOK'
  BY <1>22 DEF AudioOpens, registryVars, videoVars, clientVars, TypeOK, Idle,
     AudioState, Live
<1>23. ASSUME NEW h \in Audio, AudioStops(h) PROVE TypeOK'
  BY <1>23 DEF AudioStops, registryVars, videoVars, clientVars, TypeOK, Idle,
     AudioState, Live
<1>24. ASSUME NEW h \in Audio, AudioFails(h) PROVE TypeOK'
  BY <1>24 DEF AudioFails, registryVars, videoVars, clientVars, TypeOK, Idle,
     AudioState
<1>25. CASE UNCHANGED <<entry, wantAudio, attach, video, opened, stopTx, portalError, audioHandle, audioOf, audioPc, audioStop, audioMuted, call, stopReplied, muteReplied, portalBroke>>
  BY <1>25 DEF TypeOK, Idle
<1>26. QED
  BY <1>1, <1>2, <1>3, <1>4, <1>5, <1>6, <1>7, <1>8, <1>9, <1>10, <1>11, <1>12,
     <1>13, <1>14, <1>15, <1>16, <1>17, <1>18, <1>19, <1>20, <1>21, <1>22, <1>23,
     <1>24, <1>25 DEF vars, registryVars, videoVars, audioVars, clientVars, Next,
     ClientNext, VideoNext, AudioNext, StopStream, StopWaiting

\* stop_stream aborts only what CallOwner says it took; the rest is the order in
\* which the token, the entry and the task move.
LEMMA LifecycleStep ==
    ASSUME TypeOK, Lifecycle, CallOwner, [Next]_vars
    PROVE  Lifecycle'
<1>1. ASSUME NEW s \in Session, NEW b \in BOOLEAN, StartStream(s, b) PROVE
            Lifecycle'
  BY <1>1 DEF StartStream, videoVars, Lifecycle, AttachOrder, StopOrder,
     RunningHasProducer, NoUnstoppableStream, Streaming, TypeOK
<1>2. ASSUME NEW s \in Session, AttachClaim(s) PROVE Lifecycle'
  BY <1>2 DEF AttachClaim, videoVars, Lifecycle, AttachOrder, StopOrder,
     RunningHasProducer, NoUnstoppableStream, Streaming, TypeOK
<1>3. ASSUME NEW s \in Session, AttachRegister(s) PROVE Lifecycle'
  BY <1>3 DEF AttachRegister, Spawn, Lifecycle, AttachOrder, StopOrder,
     RunningHasProducer, NoUnstoppableStream, Streaming, TypeOK, Finished
<1>4. ASSUME NEW c \in Client, NEW s \in Session, StopPending(c, s) PROVE
            Lifecycle'
  BY <1>4 DEF StopPending, videoVars, Lifecycle, AttachOrder, StopOrder,
     RunningHasProducer, NoUnstoppableStream, Streaming, TypeOK
<1>5. ASSUME NEW c \in Client, NEW s \in Session, StopRunning(c, s) PROVE
            Lifecycle'
  BY <1>5 DEF StopRunning, Lifecycle, AttachOrder, StopOrder,
     RunningHasProducer, NoUnstoppableStream, Streaming, TypeOK
<1>6. ASSUME NEW c \in Client, StopReturns(c) PROVE Lifecycle'
  BY <1>6 DEF StopReturns, registryVars, Lifecycle, AttachOrder, StopOrder,
     RunningHasProducer, NoUnstoppableStream, Streaming, CallOwner, TypeOK
<1>7. ASSUME NEW s \in Session, ApprovePortal(s) PROVE Lifecycle'
  BY <1>7 DEF ApprovePortal, registryVars, Lifecycle, AttachOrder, StopOrder,
     RunningHasProducer, NoUnstoppableStream, Streaming, TypeOK, Finished
<1>8. ASSUME NEW s \in Session, NEW b \in BOOLEAN, PortalFails(s, b) PROVE
            Lifecycle'
  BY <1>8 DEF PortalFails, Leave, FallBack, registryVars, Lifecycle,
     AttachOrder, StopOrder, RunningHasProducer, NoUnstoppableStream, Streaming,
     TypeOK, Finished
<1>9. ASSUME NEW s \in Session, PumpFinishes(s) PROVE Lifecycle'
  BY <1>9 DEF PumpFinishes, Leave, registryVars, Lifecycle, AttachOrder,
     StopOrder, RunningHasProducer, NoUnstoppableStream, Streaming, TypeOK,
     Finished
<1>10. ASSUME NEW s \in Session, PumpStops(s) PROVE Lifecycle'
  BY <1>10 DEF PumpStops, Leave, FallBack, registryVars, Lifecycle, AttachOrder,
     StopOrder, RunningHasProducer, NoUnstoppableStream, Streaming, TypeOK
<1>11. ASSUME NEW s \in Session, CaptureStops(s) PROVE Lifecycle'
  BY <1>11 DEF CaptureStops, Leave, registryVars, Lifecycle, AttachOrder,
     StopOrder, RunningHasProducer, NoUnstoppableStream, Streaming, TypeOK
<1>12. ASSUME NEW s \in Session, CaptureEnds(s) PROVE Lifecycle'
  BY <1>12 DEF CaptureEnds, Leave, registryVars, Lifecycle, AttachOrder,
     StopOrder, RunningHasProducer, NoUnstoppableStream, Streaming, TypeOK,
     Finished
<1>13. ASSUME NEW s \in Session, CapturePanics(s) PROVE Lifecycle'
  BY <1>13 DEF CapturePanics, registryVars, Lifecycle, AttachOrder, StopOrder,
     RunningHasProducer, NoUnstoppableStream, Streaming, TypeOK
<1>14. ASSUME NEW s \in Session, Deregister(s) PROVE Lifecycle'
  BY <1>14 DEF Deregister, Lifecycle, AttachOrder, StopOrder,
     RunningHasProducer, NoUnstoppableStream, Streaming, TypeOK
<1>15. CASE UNCHANGED <<entry, attach, video, stopTx>>
  BY <1>15 DEF Lifecycle, AttachOrder, StopOrder, RunningHasProducer,
     NoUnstoppableStream, Streaming, TypeOK
<1>16. QED
  BY <1>1, <1>2, <1>3, <1>4, <1>5, <1>6, <1>7, <1>8, <1>9, <1>10, <1>11, <1>12,
     <1>13, <1>14, <1>15 DEF vars, registryVars, videoVars, Next, ClientNext,
     VideoNext, AudioNext, StopStream, StopWaiting, StopUnknown, StartAudioRunning,
     RequestAudioPending, StopAudioRunning, StopAudioReturns, SetAudioMute,
     FirstFrame, AudioOpens, AudioStops, AudioFails

\* An audio handle moves from the registry to a stop_stream call and no further.
LEMMA OwnershipStep ==
    ASSUME TypeOK, Lifecycle, Ownership, [Next]_vars
    PROVE  Ownership'
<1>1. ASSUME NEW s \in Session, NEW b \in BOOLEAN, StartStream(s, b) PROVE
            Ownership'
  BY <1>1 DEF StartStream, audioVars, clientVars, Ownership, HandleOwner,
     CallOwner, OneStopper, FreshAudio, Lifecycle, TypeOK
<1>2. ASSUME NEW s \in Session, AttachClaim(s) PROVE Ownership'
  BY <1>2 DEF AttachClaim, audioVars, clientVars, Ownership, HandleOwner,
     CallOwner, OneStopper, FreshAudio, Lifecycle, TypeOK
<1>3. ASSUME NEW s \in Session, AttachRegister(s) PROVE Ownership'
  BY <1>3 DEF AttachRegister, Spawn, clientVars, Ownership, HandleOwner,
     CallOwner, OneStopper, FreshAudio, Lifecycle, TypeOK, CallType
<1>4. ASSUME NEW c \in Client, NEW s \in Session, StopPending(c, s) PROVE
            Ownership'
  BY <1>4 DEF StopPending, audioVars, Ownership, HandleOwner, CallOwner,
     OneStopper, FreshAudio, Lifecycle, TypeOK
<1>5. ASSUME NEW c \in Client, NEW s \in Session, StopRunning(c, s) PROVE
            Ownership'
  BY <1>5 DEF StopRunning, audioVars, Ownership, HandleOwner, CallOwner,
     OneStopper, FreshAudio, Lifecycle, AttachOrder, TypeOK
<1>6. ASSUME NEW c \in Client, StopReturns(c) PROVE Ownership'
  BY NoneAssumption, <1>6 DEF StopReturns, Signalled, IdleCall, registryVars,
     Ownership, HandleOwner, CallOwner, OneStopper, FreshAudio, Lifecycle, TypeOK
<1>7. ASSUME NEW c \in Client, NEW s \in Session, StartAudioRunning(c, s)
            PROVE Ownership'
  BY NoneAssumption, <1>7 DEF StartAudioRunning, Spawn, Signalled, Ownership,
     HandleOwner, CallOwner, OneStopper, FreshAudio, Lifecycle, TypeOK, CallType
<1>8. ASSUME NEW c \in Client, NEW s \in Session, StopAudioRunning(c, s) PROVE
            Ownership'
  BY <1>8 DEF StopAudioRunning, Signalled, Ownership, HandleOwner, CallOwner,
     OneStopper, FreshAudio, Lifecycle, TypeOK
<1>9. ASSUME NEW c \in Client, StopAudioReturns(c) PROVE Ownership'
  BY <1>9 DEF StopAudioReturns, IdleCall, registryVars, audioVars, Ownership,
     HandleOwner, CallOwner, OneStopper, FreshAudio, Lifecycle, TypeOK
<1>10. ASSUME NEW s \in Session, Deregister(s) PROVE Ownership'
  BY NoneAssumption, <1>10 DEF Deregister, Signalled, clientVars, Ownership,
     HandleOwner, CallOwner, OneStopper, FreshAudio, Lifecycle, TypeOK
<1>11. ASSUME NEW h \in Audio, AudioOpens(h) PROVE Ownership'
  BY <1>11 DEF AudioOpens, registryVars, clientVars, Ownership, HandleOwner,
     CallOwner, OneStopper, FreshAudio, Lifecycle, TypeOK
<1>12. ASSUME NEW h \in Audio, AudioStops(h) PROVE Ownership'
  BY <1>12 DEF AudioStops, registryVars, clientVars, Ownership, HandleOwner,
     CallOwner, OneStopper, FreshAudio, Lifecycle, TypeOK
<1>13. ASSUME NEW h \in Audio, AudioFails(h) PROVE Ownership'
  BY <1>13 DEF AudioFails, registryVars, clientVars, Ownership, HandleOwner,
     CallOwner, OneStopper, FreshAudio, Lifecycle, TypeOK
<1>14. CASE UNCHANGED <<entry, attach, audioHandle, audioOf, audioPc, audioStop, call>>
  BY <1>14 DEF Ownership, HandleOwner, CallOwner, OneStopper, FreshAudio,
     Lifecycle, TypeOK
<1>15. QED
  BY <1>1, <1>2, <1>3, <1>4, <1>5, <1>6, <1>7, <1>8, <1>9, <1>10, <1>11, <1>12,
     <1>13, <1>14 DEF vars, registryVars, audioVars, clientVars, Next, ClientNext,
     VideoNext, AudioNext, StopStream, StopWaiting, StopUnknown,
     RequestAudioPending, SetAudioMute, ApprovePortal, FirstFrame, PortalFails,
     PumpFinishes, PumpStops, CaptureStops, CaptureEnds, CapturePanics

\* A handle leaves its owner only with its signal.
LEMMA OrphanStep ==
    ASSUME TypeOK, Lifecycle, Ownership, NoOrphanAudio, [Next]_vars
    PROVE  NoOrphanAudio'
<1>1. ASSUME NEW s \in Session, NEW b \in BOOLEAN, StartStream(s, b) PROVE
            NoOrphanAudio'
  BY <1>1 DEF StartStream, audioVars, clientVars, NoOrphanAudio, Owned,
     Sounding, Ownership, TypeOK
<1>2. ASSUME NEW s \in Session, AttachClaim(s) PROVE NoOrphanAudio'
  BY <1>2 DEF AttachClaim, audioVars, clientVars, NoOrphanAudio, Owned,
     Sounding, Ownership, TypeOK
<1>3. ASSUME NEW s \in Session, AttachRegister(s) PROVE NoOrphanAudio'
  <2> SUFFICES ASSUME NEW g \in Audio, Sounding(g)' PROVE Owned(g)'
    BY DEF NoOrphanAudio
  <2>1. CASE Sounding(g)
    <3>1. Owned(g) /\ audioOf[g] \in Session /\ audioPc[g] # "unused"
      BY <2>1 DEF NoOrphanAudio, Sounding, TypeOK, Live
    <3>2. entry[s] = "closed"
      BY <1>3 DEF AttachRegister, Lifecycle, AttachOrder
    <3>3. audioOf'[g] = audioOf[g]
      BY <1>3, <3>1 DEF AttachRegister, Spawn, TypeOK
    <3>4. QED BY <1>3, <3>1, <3>2, <3>3 DEF AttachRegister, Owned, clientVars,
                 TypeOK
  <2>2. CASE ~Sounding(g)
    <3>1. wantAudio[s] /\ Spawn(g, s) /\ audioHandle' = [audioHandle EXCEPT ![s] = g]
      BY <1>3, <2>2 DEF AttachRegister, Spawn, Sounding, TypeOK
    <3>2. QED BY <1>3, <3>1 DEF AttachRegister, Spawn, Owned, TypeOK
  <2>3. QED BY <2>1, <2>2
<1>4. ASSUME NEW c \in Client, NEW s \in Session, StopPending(c, s) PROVE
            NoOrphanAudio'
  BY <1>4 DEF StopPending, audioVars, NoOrphanAudio, Owned, Sounding, Ownership,
     TypeOK
<1>5. ASSUME NEW c \in Client, NEW s \in Session, StopRunning(c, s) PROVE
            NoOrphanAudio'
  BY <1>5 DEF StopRunning, audioVars, NoOrphanAudio, Owned, Sounding, Ownership,
     TypeOK, Idle
<1>6. ASSUME NEW c \in Client, StopReturns(c) PROVE NoOrphanAudio'
  <2> SUFFICES ASSUME NEW g \in Audio, Sounding(g)' PROVE Owned(g)'
    BY DEF NoOrphanAudio
  <2>1. Sounding(g) /\ g # call[c].audio
    BY <1>6 DEF StopReturns, Signalled, Sounding, TypeOK
  <2>2. Owned(g)
    BY <2>1 DEF NoOrphanAudio
  <2>3. QED BY <1>6, <2>1, <2>2 DEF StopReturns, Owned, registryVars, TypeOK
<1>7. ASSUME NEW c \in Client, NEW s \in Session, StartAudioRunning(c, s)
            PROVE NoOrphanAudio'
  BY NoneAssumption, <1>7 DEF StartAudioRunning, Spawn, Signalled,
     NoOrphanAudio, Owned, Sounding, Live, Ownership, TypeOK
<1>8. ASSUME NEW c \in Client, NEW s \in Session, StopAudioRunning(c, s) PROVE
            NoOrphanAudio'
  <2> SUFFICES ASSUME NEW g \in Audio, Sounding(g)' PROVE Owned(g)'
    BY DEF NoOrphanAudio
  <2>1. Sounding(g) /\ g # audioHandle[s]
    BY <1>8 DEF StopAudioRunning, Signalled, Sounding, TypeOK
  <2>2. Owned(g)
    BY <2>1 DEF NoOrphanAudio
  <2>3. QED BY <1>8, <2>1, <2>2 DEF StopAudioRunning, Owned, Idle, TypeOK
<1>9. ASSUME NEW c \in Client, StopAudioReturns(c) PROVE NoOrphanAudio'
  BY <1>9 DEF StopAudioReturns, registryVars, audioVars, NoOrphanAudio, Owned,
     Sounding, Ownership, TypeOK
<1>10. ASSUME NEW s \in Session, Deregister(s) PROVE NoOrphanAudio'
  <2> SUFFICES ASSUME NEW g \in Audio, Sounding(g)' PROVE Owned(g)'
    BY DEF NoOrphanAudio
  <2>1. Sounding(g) /\ g # audioHandle[s]
    BY <1>10 DEF Deregister, Signalled, Sounding, TypeOK
  <2>2. Owned(g) /\ audioOf[g] \in Session
    BY <2>1 DEF NoOrphanAudio, Sounding, TypeOK, Live
  <2>3. audioOf' = audioOf /\ call' = call
    BY <1>10 DEF Deregister, clientVars
  <2>4. QED BY <1>10, <2>1, <2>2, <2>3 DEF Deregister, Owned, TypeOK
<1>11. ASSUME NEW h \in Audio, AudioOpens(h) PROVE NoOrphanAudio'
  BY <1>11 DEF AudioOpens, registryVars, clientVars, NoOrphanAudio, Owned,
     Sounding, Ownership, TypeOK, AudioState
<1>12. ASSUME NEW h \in Audio, AudioStops(h) PROVE NoOrphanAudio'
  BY <1>12 DEF AudioStops, registryVars, clientVars, NoOrphanAudio, Owned,
     Sounding, Ownership, TypeOK
<1>13. ASSUME NEW h \in Audio, AudioFails(h) PROVE NoOrphanAudio'
  BY <1>13 DEF AudioFails, registryVars, clientVars, NoOrphanAudio, Owned,
     Sounding, Ownership, TypeOK, AudioState
<1>14. CASE UNCHANGED <<entry, audioHandle, audioOf, audioPc, audioStop, call>>
  BY <1>14 DEF NoOrphanAudio, Owned, Sounding, Ownership, TypeOK
<1>15. QED
  BY <1>1, <1>2, <1>3, <1>4, <1>5, <1>6, <1>7, <1>8, <1>9, <1>10, <1>11, <1>12,
     <1>13, <1>14 DEF vars, registryVars, audioVars, clientVars, Next, ClientNext,
     VideoNext, AudioNext, StopStream, StopWaiting, StopUnknown,
     RequestAudioPending, SetAudioMute, ApprovePortal, FirstFrame, PortalFails,
     PumpFinishes, PumpStops, CaptureStops, CaptureEnds, CapturePanics

\* Whatever control connections, producers and audio tasks do and in whatever
\* order, the registry, the stop calls and the tasks stay consistent.
THEOREM SessionInvariant == Spec => []SessionInv
<1>1. SessionInv /\ [Next]_vars => SessionInv'
  <2> SUFFICES ASSUME SessionInv, [Next]_vars PROVE SessionInv'
    OBVIOUS
  <2>1. TypeOK'
    BY TypeStep DEF SessionInv
  <2>2. Lifecycle'
    BY LifecycleStep DEF SessionInv, Ownership
  <2>3. Ownership'
    BY OwnershipStep DEF SessionInv
  <2>4. NoOrphanAudio'
    BY OrphanStep DEF SessionInv
  <2>5. QED BY <2>1, <2>2, <2>3, <2>4 DEF SessionInv
<1>2. QED BY InitInv, <1>1, PTL DEF Spec

\* The state is well typed, no session is registered without a producer task
\* (attach_stream_client), and a capturing producer is registered or was told to stop.
THEOREM RegistryIsRight == Spec => []RegistryMatchesStreams
<1>1. SessionInv => RegistryMatchesStreams
  BY DEF SessionInv, Lifecycle, RegistryMatchesStreams
<1>2. QED BY SessionInvariant, <1>1, PTL

\* An audio producer not told to stop has an owner that will drop it.
THEOREM AudioIsOwned == Spec => []NoOrphanAudio
<1>1. SessionInv => NoOrphanAudio
  BY DEF SessionInv
<1>2. QED BY SessionInvariant, <1>1, PTL

\* Two producers of one session are never both capturing: the registry holds one
\* handle, and only one stop_stream call can hold another.
THEOREM OneSound == Spec => []OneSoundPerSession
<1>1. SessionInv => OneSoundPerSession
  <2> SUFFICES ASSUME SessionInv, NEW g \in Audio, NEW h \in Audio,
                      Sounding(g), Sounding(h), audioOf[g] = audioOf[h]
               PROVE  g = h
    BY DEF OneSoundPerSession
  <2>1. Owned(g) /\ Owned(h) /\ audioOf[g] \in Session /\ g # None /\ h # None
    BY NoneAssumption DEF SessionInv, NoOrphanAudio, Sounding, TypeOK, Live
  <2>2. CASE entry[audioOf[g]] = "running"
    <3>1. \A c \in Client : call[c].op = "stopping" => call[c].audio # g /\ call[c].audio # h
      BY <2>1, <2>2 DEF SessionInv, Ownership, CallOwner
    <3>2. QED BY <2>1, <3>1 DEF Owned
  <2>3. CASE entry[audioOf[g]] # "running"
    <3>1. PICK c \in Client : call[c].op = "stopping" /\ call[c].audio = g
      BY <2>1, <2>3 DEF Owned
    <3>2. PICK d \in Client : call[d].op = "stopping" /\ call[d].audio = h
      BY <2>1, <2>3 DEF Owned
    <3>3. call[c].session = audioOf[g] /\ call[d].session = audioOf[g]
      BY <2>1, <3>1, <3>2 DEF SessionInv, Ownership, CallOwner
    <3>4. QED BY <3>1, <3>2, <3>3 DEF SessionInv, Ownership, OneStopper
  <2>4. QED BY <2>2, <2>3
<1>2. QED BY SessionInvariant, <1>1, PTL

-----------------------------------------------------------------------------
(* The audio tasks of the registry are audio tasks *)

\* A step that leaves a task and its socket alone is none of the task's steps.
LEMMA Untouched ==
    ASSUME NEW h \in Audio, audioPc'[h] = audioPc[h], audioStop'[h] = audioStop[h],
           audioOf'[h] = audioOf[h],
           audioOf[h] # None => opened'[audioOf[h]] = opened[audioOf[h]]
    PROVE  [Task(h)!Next]_(Task(h)!vars)
BY DEF Task!vars

\* Dropping a handle is a step of its task and of no other; there may be none.
LEMMA Dropped ==
    ASSUME SessionInv, NEW h \in Audio, NEW g \in Audio \cup {None},
           g # None => audioPc[g] # "unused",
           audioStop' = Signalled(g), audioPc' [h] = audioPc[h], audioOf'[h] = audioOf[h],
           opened' = opened
    PROVE  [Task(h)!Next]_(Task(h)!vars)
<1>1. CASE h = g
  <2>1. audioStop'[h] = TRUE /\ audioPc[h] # "unused"
    BY <1>1, NoneAssumption DEF Signalled
  <2>2. Task(h)!DropHandle
    BY <2>1 DEF Task!DropHandle
  <2>3. QED BY <2>2 DEF Task!Next
<1>2. CASE h # g
  <2>1. audioStop'[h] = audioStop[h]
    BY <1>2 DEF Signalled, SessionInv, TypeOK
  <2>2. QED BY <2>1, Untouched
<1>3. QED BY <1>1, <1>2

\* A task is spawned for a session whose socket may be open already.
LEMMA Spawned ==
    ASSUME SessionInv, NEW h \in Audio, NEW g \in Audio, NEW s \in Session, Spawn(g, s),
           audioStop'[h] = audioStop[h], opened' = opened
    PROVE  [Task(h)!Next]_(Task(h)!vars)
<1>1. CASE h = g
  <2>1. /\ audioPc[h] = "unused" /\ audioPc'[h] = "waiting" /\ audioOf'[h] = s /\ s # None
        /\ opened[s] \in BOOLEAN
    BY <1>1, NoneAssumption DEF Spawn, SessionInv, TypeOK
  <2>2. Task(h)!Spawn
    BY <2>1 DEF Task!Spawn
  <2>3. QED BY <2>2 DEF Task!Next
<1>2. CASE h # g
  <2>1. audioPc'[h] = audioPc[h] /\ audioOf'[h] = audioOf[h]
    BY <1>2 DEF Spawn, SessionInv, TypeOK
  <2>2. QED BY <2>1, Untouched
<1>3. QED BY <1>1, <1>2

\* The connections spawn tasks, hand their handles on and drop them.
LEMMA ClientKeepsTasks ==
    ASSUME SessionInv, ClientNext, NEW h \in Audio
    PROVE  [Task(h)!Next]_(Task(h)!vars)
<1>1. CASE UNCHANGED <<audioPc, audioStop, audioOf, opened>>
  BY <1>1, Untouched
<1>2. ASSUME NEW s \in Session, AttachRegister(s)
      PROVE  [Task(h)!Next]_(Task(h)!vars)
  <2>1. audioStop' = audioStop /\ opened' = opened
    BY <1>2 DEF AttachRegister
  <2>2. CASE wantAudio[s]
    <3>1. PICK g \in Audio : Spawn(g, s)
      BY <1>2, <2>2 DEF AttachRegister
    <3>2. QED BY <2>1, <3>1, Spawned
  <2>3. CASE ~wantAudio[s]
    BY <1>1, <1>2, <2>1, <2>3 DEF AttachRegister
  <2>4. QED BY <2>2, <2>3
<1>3. ASSUME NEW c \in Client, StopReturns(c)
      PROVE  [Task(h)!Next]_(Task(h)!vars)
  <2> DEFINE g == call[c].audio
  <2>1. g \in Audio \cup {None} /\ (g # None => audioPc[g] # "unused")
    BY <1>3 DEF StopReturns, SessionInv, Ownership, CallOwner, TypeOK, CallType
  <2>2. audioStop' = Signalled(g) /\ UNCHANGED <<audioPc, audioOf, opened>>
    BY <1>3 DEF StopReturns
  <2> HIDE DEF g
  <2>3. QED BY <2>1, <2>2, Dropped
<1>4. ASSUME NEW c \in Client, NEW s \in Session, StartAudioRunning(c, s)
      PROVE  [Task(h)!Next]_(Task(h)!vars)
  <2> DEFINE g == audioHandle[s]
  <2>1. g \in Audio \cup {None} /\ (g # None => audioPc[g] # "unused") /\ opened' = opened
    BY <1>4 DEF StartAudioRunning, SessionInv, Ownership, HandleOwner, TypeOK, videoVars
  <2>2. CASE g # None /\ audioPc[g] # "ended"
    BY <1>1, <1>4, <2>1, <2>2 DEF StartAudioRunning
  <2>3. CASE g # None => audioPc[g] = "ended"
    <3>1. PICK new \in Audio : Spawn(new, s) /\ audioStop' = Signalled(g)
      BY <1>4, <2>3 DEF StartAudioRunning
    <3>2. CASE h = g
      <4>1. audioPc'[h] = audioPc[h] /\ audioOf'[h] = audioOf[h]
        BY <2>3, <3>1, NoneAssumption, <3>2 DEF Spawn, SessionInv, TypeOK
      <4> HIDE DEF g
      <4>2. QED BY <2>1, <3>1, <4>1, Dropped
    <3>3. CASE h # g
      <4>1. audioStop'[h] = audioStop[h]
        BY <3>1, <3>3 DEF Signalled, SessionInv, TypeOK
      <4>2. QED BY <2>1, <3>1, <4>1, Spawned
    <3>4. QED BY <3>2, <3>3
  <2>4. QED BY <2>2, <2>3
<1>5. ASSUME NEW c \in Client, NEW s \in Session, StopAudioRunning(c, s)
      PROVE  [Task(h)!Next]_(Task(h)!vars)
  <2> DEFINE g == audioHandle[s]
  <2>1. g \in Audio \cup {None} /\ (g # None => audioPc[g] # "unused")
    BY <1>5 DEF SessionInv, Ownership, HandleOwner, TypeOK
  <2>2. audioStop' = Signalled(g) /\ UNCHANGED <<audioPc, audioOf, opened>>
    BY <1>5 DEF StopAudioRunning, videoVars
  <2> HIDE DEF g
  <2>3. QED BY <2>1, <2>2, Dropped
<1>6. QED
  BY <1>1, <1>2, <1>3, <1>4, <1>5
     DEF ClientNext, StartStream, AttachClaim, StopAudioReturns, StopStream, StopUnknown,
         StopPending, StopRunning, RequestAudioPending, SetAudioMute, videoVars, audioVars

\* The video producers open streams, and drop a handle when they deregister.
LEMMA VideoKeepsTasks ==
    ASSUME SessionInv, VideoNext, NEW h \in Audio
    PROVE  [Task(h)!Next]_(Task(h)!vars)
<1>1. CASE UNCHANGED <<audioPc, audioStop, audioOf, opened>>
  BY <1>1, Untouched
<1>2. ASSUME NEW s \in Session, FirstFrame(s)
      PROVE  [Task(h)!Next]_(Task(h)!vars)
  <2>1. UNCHANGED <<audioPc, audioStop, audioOf>> /\ opened' = [opened EXCEPT ![s] = TRUE]
    BY <1>2 DEF FirstFrame, audioVars
  <2>2. CASE audioOf[h] = s
    <3>1. s # None /\ opened'[s] = TRUE
      BY <2>1, NoneAssumption DEF SessionInv, TypeOK
    <3>2. Task(h)!StreamOpens
      BY <2>1, <2>2, <3>1 DEF Task!StreamOpens
    <3>3. QED BY <3>2 DEF Task!Next
  <2>3. CASE audioOf[h] # s
    <3>1. audioOf[h] # None => opened'[audioOf[h]] = opened[audioOf[h]]
      BY <2>1, <2>3 DEF SessionInv, TypeOK
    <3>2. QED BY <2>1, <3>1, Untouched
  <2>4. QED BY <2>2, <2>3
<1>3. ASSUME NEW s \in Session, Deregister(s)
      PROVE  [Task(h)!Next]_(Task(h)!vars)
  <2> DEFINE g == audioHandle[s]
  <2>1. g \in Audio \cup {None} /\ (g # None => audioPc[g] # "unused")
    BY DEF SessionInv, Ownership, HandleOwner, TypeOK
  <2>2. audioStop' = Signalled(g) /\ UNCHANGED <<audioPc, audioOf, opened>>
    BY <1>3 DEF Deregister
  <2> HIDE DEF g
  <2>3. QED BY <2>1, <2>2, Dropped
<1>4. QED
  BY <1>1, <1>2, <1>3
     DEF VideoNext, ApprovePortal, PumpFinishes, PortalFails, StopWaiting, PumpStops,
         CaptureStops, CapturePanics, CaptureEnds, audioVars

\* What a task does itself.
LEMMA AudioKeepsTasks ==
    ASSUME SessionInv, AudioNext, NEW h \in Audio
    PROVE  [Task(h)!Next]_(Task(h)!vars)
<1>1. PICK g \in Audio : AudioOpens(g) \/ AudioStops(g) \/ AudioFails(g)
  BY DEF AudioNext
<1>2. UNCHANGED <<audioStop, audioOf, opened>>
  BY <1>1 DEF AudioOpens, AudioStops, AudioFails, videoVars
<1>3. CASE h # g
  <2>1. audioPc'[h] = audioPc[h]
    BY <1>1, <1>3 DEF AudioOpens, AudioStops, AudioFails, SessionInv, TypeOK
  <2>2. QED BY <1>2, <2>1, Untouched
<1>4. CASE h = g
  <2>1. audioPc[h] \in Live => audioOf[h] # None
    BY NoneAssumption DEF SessionInv, TypeOK, Live
  <2>2. CASE AudioOpens(h)
    <3>1. Task(h)!Capture
      BY <1>2, <2>1, <2>2 DEF AudioOpens, Task!Capture, SessionInv, TypeOK, Live
    <3>2. QED BY <3>1 DEF Task!Next
  <2>3. CASE AudioStops(h)
    <3>1. Task(h)!Stop
      BY <1>2, <2>1, <2>3 DEF AudioStops, Task!Stop, Task!Live, SessionInv, TypeOK, Live
    <3>2. QED BY <3>1 DEF Task!Next
  <2>4. CASE AudioFails(h)
    <3>1. Task(h)!Fail
      BY <1>2, <2>1, <2>4 DEF AudioFails, Task!Fail, SessionInv, TypeOK, Live
    <3>2. QED BY <3>1 DEF Task!Next
  <2>5. QED BY <1>1, <1>4, <2>2, <2>3, <2>4
<1>5. QED BY <1>3, <1>4

\* Every audio task does what AudioTask allows, seen from the registry: this is what
\* AudioProducer is proved to implement below, so the two models fit together.
THEOREM TasksFit == Spec => TasksAreAudioTasks
<1>1. Init => \A h \in Audio : Task(h)!Init
  BY DEF Init, Task!Init
<1>2. SessionInv /\ [Next]_vars => [\A h \in Audio : [Task(h)!Next]_(Task(h)!vars)]_vars
  <2> SUFFICES ASSUME SessionInv, Next, NEW h \in Audio
               PROVE  [Task(h)!Next]_(Task(h)!vars)
    OBVIOUS
  <2>1. QED BY ClientKeepsTasks, VideoKeepsTasks, AudioKeepsTasks DEF Next
<1>3. QED BY SessionInvariant, <1>1, <1>2, PTL DEF Spec, TasksAreAudioTasks

-----------------------------------------------------------------------------
(* The inside of an audio task: proofs about AudioProducer *)

\* The task is past its wait only for an open stream, tries at least once, runs an
\* encoder only to pump it, and takes the stop signal only to end.
Places ==
    /\ pc \in PcState /\ attempt \in Nat /\ open \in BOOLEAN /\ capturing \in BOOLEAN
    /\ stop \in {"armed", "sent", "taken"}
    /\ pc \notin {"waiting", "ended"} => open /\ attempt >= 1
    /\ stop = "taken" => pc = "ended"
    /\ capturing => pc \in {"pumping", "writing"}

\* While the task is muted, the packet that was waiting when the flag was set has not
\* gone out if one still waits: no other one gets that far.
Muting ==
    /\ late \in {0, 1} /\ muted \in BOOLEAN
    /\ muted /\ pc = "writing" => late = 0

\* A step of the task or of its surroundings keeps the places in order, and it is a step
\* of AudioTask or none.
LEMMA PlacesStep ==
    ASSUME Places, APNext
    PROVE  Places' /\ [View!Next]_(View!vars)
<1> USE DEF Places, env, output, PcState, Phase
<1>1. CASE StreamOpens
  <2>1. View!StreamOpens
    BY <1>1 DEF StreamOpens, View!StreamOpens
  <2>2. QED BY <1>1, <2>1 DEF StreamOpens, View!Next
<1>2. CASE DropHandle
  <2>1. View!DropHandle
    BY <1>2 DEF DropHandle, View!DropHandle
  <2>2. QED BY <1>2, <2>1 DEF DropHandle, View!Next
<1>3. ASSUME Places', UNCHANGED <<Phase, stop, open>>
      PROVE  [View!Next]_(View!vars)
  BY <1>3 DEF View!vars
<1>4. CASE \/ \E value \in BOOLEAN : SetMuted(value)
           \/ EncoderWrites \/ EncoderDies \/ SeeOpen
  <2>1. CASE \/ \E value \in BOOLEAN : SetMuted(value)
             \/ EncoderWrites
    <3>1. UNCHANGED <<pc, attempt, stop, open, capturing>>
      BY <2>1 DEF SetMuted, EncoderWrites
    <3>2. QED BY <1>3, <3>1
  <2>2. CASE EncoderDies
    BY <1>3, <2>2 DEF EncoderDies
  <2>3. CASE SeeOpen
    BY <1>3, <2>3 DEF SeeOpen
  <2>4. QED BY <1>4, <2>1, <2>2, <2>3
<1>5. CASE CancelWaiting \/ StopBeforeAttempt \/ StopInBackoff \/ StopPump
  <2>1. Places' /\ View!Stop
    BY <1>5 DEF CancelWaiting, StopBeforeAttempt, StopInBackoff, StopPump,
       Selecting, TakeStop, End, View!Stop, View!Live
  <2>2. QED BY <2>1 DEF View!Next
<1>6. CASE NoDevice \/ SocketClosed
  <2>1. Places' /\ View!Fail
    BY <1>6 DEF NoDevice, SocketClosed, End, View!Fail
  <2>2. QED BY <2>1 DEF View!Next
<1>7. CASE StartEncoder
  <2>1. Places' /\ (Phase = "waiting" => View!Capture)
        /\ (Phase # "waiting" => UNCHANGED <<Phase, stop, open>>)
    BY <1>7 DEF StartEncoder, View!Capture
  <2>2. QED BY <1>3, <2>1 DEF View!Next
<1>8. ASSUME NEW reason, Give(reason), pc \in {"starting", "pumping"},
             pc = "starting" => stop # "sent"
      PROVE  Places' /\ [View!Next]_(View!vars)
  <2>1. Places' /\ UNCHANGED <<stop, open>>
    BY <1>8 DEF Give
  <2>2. CASE pc' = "ended"
    <3>1. View!Fail
      BY <1>8, <2>1, <2>2 DEF Give, View!Fail
    <3>2. QED BY <2>1, <3>1 DEF View!Next
  <2>3. CASE pc' = "backoff"
    <3>1. Phase' = "capturing" /\ Phase \in {"waiting", "capturing"}
      BY <1>8, <2>3 DEF Give
    <3>2. Phase = "waiting" => View!Capture
      BY <1>8, <2>1, <3>1 DEF View!Capture
    <3>3. QED BY <1>3, <2>1, <3>1, <3>2 DEF View!Next
  <2>4. QED BY <1>8, <2>2, <2>3 DEF Give
<1>9. CASE SpawnFails \/ EndOfPipe \/ ReadFails \/ LosesFraming
  BY <1>8, <1>9 DEF SpawnFails, EndOfPipe, ReadFails, LosesFraming, Selecting
<1>10. CASE \/ Retry \/ Read \/ DropSilenced \/ Offer \/ Written \/ SocketBusy
  <2>1. Places' /\ UNCHANGED <<Phase, stop, open>>
    BY <1>10 DEF Retry, Read, Selecting, DropSilenced, Offer, Written, Deliver,
       SocketBusy
  <2>2. QED BY <1>3, <2>1
<1>11. QED BY <1>1, <1>2, <1>4, <1>5, <1>6, <1>7, <1>9, <1>10 DEF APNext

\* Through all that may interrupt a stream's sound, the task is an AudioTask: what the
\* registry is proved to rely on.
THEOREM TaskImplements == APSpec => ImplementsAudioTask
<1>1. APInit => Places /\ View!Init
  <2> SUFFICES ASSUME APInit PROVE Places /\ View!Init
    OBVIOUS
  <2>1. Places /\ Phase = "waiting" /\ stop = "armed" /\ open \in BOOLEAN
    BY DEF APInit, Places, PcState, Phase
  <2>2. QED BY <2>1 DEF View!Init
<1>2. Places /\ [APNext]_apVars => Places' /\ [View!Next]_(View!vars)
  <2> SUFFICES ASSUME Places, UNCHANGED apVars
               PROVE  Places' /\ UNCHANGED View!vars
    BY PlacesStep
  <2>1. UNCHANGED <<pc, attempt, stop, open, capturing>>
    BY DEF apVars, env
  <2>2. QED BY <2>1 DEF Places, View!vars, Phase
<1>3. QED BY <1>1, <1>2, PTL DEF APSpec, ImplementsAudioTask, View!Spec

\* The flag is looked at for every packet, so muting stops all but the one that waits for
\* the socket.
LEMMA MutingStep ==
    ASSUME Muting, [APNext]_apVars
    PROVE  Muting'
<1> USE DEF Muting, env, output
<1>1. CASE \/ StreamOpens \/ DropHandle \/ EncoderWrites \/ EncoderDies
           \/ SeeOpen \/ StartEncoder \/ Retry \/ Read \/ DropSilenced \/ SocketBusy
  BY <1>1 DEF StreamOpens, DropHandle, EncoderWrites, EncoderDies, SeeOpen,
     StartEncoder, Retry, Read, DropSilenced, SocketBusy
<1>2. CASE \/ CancelWaiting \/ StopBeforeAttempt \/ StopInBackoff \/ StopPump
           \/ NoDevice \/ SocketClosed
  BY <1>2 DEF CancelWaiting, StopBeforeAttempt, StopInBackoff, StopPump, NoDevice,
     SocketClosed, End
<1>3. CASE SpawnFails \/ EndOfPipe \/ ReadFails \/ LosesFraming
  BY <1>3 DEF SpawnFails, EndOfPipe, ReadFails, LosesFraming, Give
<1>4. CASE \E value \in BOOLEAN : SetMuted(value)
  BY <1>4 DEF SetMuted
<1>5. CASE Offer
  BY <1>5 DEF Offer, Silent
<1>6. CASE Written
  BY <1>6 DEF Written, Deliver
<1>7. CASE UNCHANGED apVars
  BY <1>7 DEF apVars
<1>8. QED BY <1>1, <1>2, <1>3, <1>4, <1>5, <1>6, <1>7 DEF APNext

\* One packet at most goes out after the mute flag was set.
THEOREM MuteIsPrompt == APSpec => []MuteStopsNextPacket
<1>1. APInit => Muting
  BY DEF APInit, Muting
<1>2. Muting => MuteStopsNextPacket
  BY DEF Muting, MuteStopsNextPacket
<1>3. QED BY <1>1, <1>2, MutingStep, PTL DEF APSpec

-----------------------------------------------------------------------------
(* Packets in order.  First what the loop of the RTP reader makes of bytes that are *)
(* the frames of some packets, read up to anywhere: the loop is a function of the   *)
(* offsets, so what it yields is argued from the last frame down.                   *)

\* A non-empty set of numbers has a least one.
LEMMA LeastExists ==
    ASSUME NEW S \in SUBSET Nat, S # {}
    PROVE  \E m \in S : \A x \in S : m <= x
<1>1. PICK m \in S : \A x \in S : ~(<<x, m>> \in OpToRel(<, Nat))
  BY NatLessThanWellFounded, WFMin
<1>2. \A x \in S : ~(x < m)
  BY <1>1 DEF OpToRel
<1>3. QED BY <1>2

\* A turn looks only at what later offsets yield.
LEMMA TurnLooksAhead ==
    ASSUME NEW b \in Seq(Nat), NEW f, NEW g, NEW o \in 0..Len(b),
           \A x \in o + 1..Len(b) : f[x] = g[x]
    PROVE  Turn(b, f, o) = Turn(b, g, o)
<1> DEFINE end == o + 2 + BigEndian(b, o)
<1>1. CASE Len(b) - o < 2 \/ ~ValidLength(BigEndian(b, o)) \/ ~Complete(b, o)
  BY <1>1 DEF Turn
<1>2. CASE ~(Len(b) - o < 2) /\ ValidLength(BigEndian(b, o)) /\ Complete(b, o)
  <2>1. Len(b) \in Nat /\ b[o + 1] \in Nat /\ b[o + 2] \in Nat
    BY <1>2, LenProperties, ElementOfSeq
  <2>2. end \in o + 1..Len(b)
    <3>1. BigEndian(b, o) \in Nat
      BY <2>1 DEF BigEndian
    <3>2. o \in Nat /\ Len(b) - o >= 2 + BigEndian(b, o)
      BY <1>2 DEF Complete
    <3>3. \A big, n, k \in Nat : n - k >= 2 + big => k + 2 + big \in k + 1..n
      OBVIOUS
    <3>4. QED BY <2>1, <3>1, <3>2, <3>3
  <2>3. f[end] = g[end]
    BY <2>2
  <2>4. QED BY <1>2, <2>3 DEF Turn
<1>3. QED BY <1>1, <1>2

\* So the turns have a result at every offset.
LEMMA TurnsExist ==
    ASSUME NEW b \in Seq(Nat)
    PROVE  Turns(b) = [offset \in 0..Len(b) |-> Turn(b, Turns(b), offset)]
<1> DEFINE N == Len(b)
           Solves(f, m) == \A x \in m..N : f[x] = Turn(b, f, x)
           S == {m \in 0..N : \E f : Solves(f, m)}
<1>0. N \in Nat
  BY LenProperties
<1> HIDE DEF N
<1>1. N \in S
  <2> DEFINE f == [x \in {N} |-> Turn(b, <<>>, N)]
  <2>1. Turn(b, <<>>, N) = Turn(b, f, N)
    <3>1. N \in 0..Len(b) /\ \A x \in N + 1..Len(b) : <<>>[x] = f[x]
      BY <1>0 DEF N
    <3> HIDE DEF f
    <3>2. QED BY <3>1, TurnLooksAhead
  <2>2. f[N] = Turn(b, f, N)
    BY <2>1
  <2>3. Solves(f, N)
    <3> HIDE DEF f
    <3>1. \A x \in N..N : x = N
      BY <1>0
    <3>2. QED BY <2>2, <3>1
  <2>4. QED BY <1>0, <2>3
<1>2. PICK m \in S : \A x \in S : m <= x
  <2>1. S \in SUBSET Nat
    BY <1>0
  <2> HIDE DEF S
  <2>2. QED BY <1>1, <2>1, LeastExists
<1>3. PICK f : Solves(f, m)
  OBVIOUS
<1>4. m = 0
  <2> SUFFICES ASSUME m # 0 PROVE m - 1 \in S
    <3>1. m \in 0..N /\ (m - 1 \in S => m <= m - 1)
      BY <1>2
    <3> HIDE DEF S
    <3>2. QED BY <1>0, <3>1
  <2>0. m \in 1..N
    BY <1>0
  <2> DEFINE g == [x \in m - 1..N |-> IF x = m - 1 THEN Turn(b, f, x) ELSE f[x]]
  <2>1. ASSUME NEW x \in m - 1..N PROVE Turn(b, f, x) = Turn(b, g, x)
    <3>1. \A y \in x + 1..Len(b) : f[y] = g[y]
      BY <1>0, <2>0 DEF N
    <3>2. x \in 0..Len(b)
      BY <1>0, <2>0 DEF N
    <3> HIDE DEF g
    <3>3. QED BY <3>1, <3>2, TurnLooksAhead
  <2>2. ASSUME NEW x \in m - 1..N PROVE g[x] = Turn(b, f, x)
    <3>1. x # m - 1 => x \in m..N
      BY <1>0, <2>0
    <3>2. QED BY <1>3, <3>1
  <2>3. Solves(g, m - 1)
    BY <2>1, <2>2
  <2>4. m - 1 \in 0..N
    BY <1>0, <2>0
  <2> HIDE DEF Solves, g
  <2>5. QED BY <2>3, <2>4
<1>5. DEFINE h == [x \in 0..N |-> f[x]]
<1>6. h = [x \in 0..N |-> Turn(b, h, x)]
  <2>1. ASSUME NEW x \in 0..N PROVE f[x] = Turn(b, h, x)
    <3>1. f[x] = Turn(b, f, x)
      BY <1>3, <1>4
    <3>2. \A y \in x + 1..Len(b) : f[y] = h[y]
      BY <1>0 DEF N
    <3>3. x \in 0..Len(b)
      BY DEF N
    <3> HIDE DEF h
    <3>4. QED BY <3>1, <3>2, <3>3, TurnLooksAhead
  <2>2. QED BY <2>1
<1> HIDE DEF h
<1>7. \E from : from = [offset \in 0..Len(b) |-> Turn(b, from, offset)]
  BY <1>6 DEF N
<1>8. QED BY <1>7 DEF Turns

\* What a sequence of bytes is when another is put behind it.
LEMMA Joined ==
    ASSUME NEW s \in Seq(Nat), NEW t \in Seq(Nat)
    PROVE  /\ s \o t \in Seq(Nat) /\ Len(s \o t) = Len(s) + Len(t)
           /\ Len(s) \in Nat /\ Len(t) \in Nat
           /\ \A i \in 1..Len(s) : (s \o t)[i] = s[i]
           /\ \A i \in 1..Len(t) : (s \o t)[Len(s) + i] = t[i]
<1>1. Len(s) \in Nat /\ Len(t) \in Nat
  BY LenProperties
<1>2. /\ s \o t \in Seq(Nat) /\ Len(s \o t) = Len(s) + Len(t)
      /\ \A i \in 1..Len(s) + Len(t) : (s \o t)[i] = IF i <= Len(s) THEN s[i] ELSE t[i - Len(s)]
  BY ConcatProperties
<1>3. \A m, n \in Nat : /\ \A i \in 1..m : i \in 1..m + n /\ i <= m
                        /\ \A i \in 1..n : m + i \in 1..m + n /\ ~(m + i <= m) /\ (m + i) - m = i
  OBVIOUS
<1>4. QED BY <1>1, <1>2, <1>3

\* Two bytes of a sequence.
LEMMA TwoOf ==
    ASSUME NEW s \in Seq(Nat), NEW k \in Nat, k + 2 <= Len(s)
    PROVE  SubSeq(s, k + 1, k + 2) = <<s[k + 1], s[k + 2]>>
<1>1. Len(s) \in Nat /\ \A i \in 1..Len(s) : s[i] \in Nat
  BY LenProperties, ElementOfSeq
<1> DEFINE t == SubSeq(s, k + 1, k + 2)
<1>2. \A i \in k + 1..k + 2 : i \in 1..Len(s)
  BY <1>1
<1>3. t \in Seq(Nat) /\ Len(t) = 2 /\ \A i \in 1..2 : t[i] = s[k + i]
  <2>1. /\ t \in Seq(Nat)
        /\ Len(t) = IF k + 1 <= k + 2 THEN (k + 2) - (k + 1) + 1 ELSE 0
        /\ \A i \in 1..(k + 2) - (k + 1) + 1 : t[i] = s[(k + 1) + i - 1]
    BY <1>1, <1>2, SubSeqProperties
  <2> HIDE DEF t
  <2>2. QED BY <2>1
<1> HIDE DEF t
<1>4. t[1] = s[k + 1] /\ t[2] = s[k + 2]
  BY <1>3
<1>5. t = <<t[1], t[2]>>
  BY <1>3
<1>6. QED BY <1>4, <1>5 DEF t

\* The bare header, and the packets with an Opus packet in them.
LEMMA BareHeader ==
    LET p == <<128>> \o Zeros(11) IN p \in Seq(Nat) /\ Len(p) = 12 /\ p[1] = 128
<1> DEFINE a == <<128>>
           z == Zeros(11)
           s == a \o z
<1>1. a \in Seq(Nat) /\ Len(a) = 1 /\ a[1] = 128
  OBVIOUS
<1>2. z \in Seq(Nat) /\ Len(z) = 11
  BY DEF Zeros
<1> HIDE DEF a, z
<1>3. /\ s \in Seq(Nat) /\ Len(s) = 12
      /\ s[1] = 128
  <2>0. a \in Seq(Nat) /\ z \in Seq(Nat)
    BY <1>1, <1>2
  <2>1. /\ s \in Seq(Nat) /\ Len(s) = Len(a) + Len(z)
        /\ \A i \in 1..Len(a) : s[i] = a[i]
    BY <2>0, Joined
  <2>2. 1 \in 1..Len(a)
    BY <1>1, <1>2
  <2>3. s[1] = a[1]
    BY <2>1, <2>2
  <2>4. QED BY <1>1, <1>2, <2>1, <2>3
<1>4. QED BY <1>3 DEF s, a, z

\* One with the payload right behind the header.
LEMMA PlainPacket ==
    ASSUME NEW n \in Nat
    PROVE  LET p == <<128>> \o Zeros(11) \o Opus(n)
           IN  /\ p \in Seq(Nat) /\ Len(p) = 14 /\ p[1] = 128
               /\ p[13] = 252 /\ p[14] = n
<1> DEFINE h == <<128>> \o Zeros(11)
           o == Opus(n)
           s == h \o o
<1>1. h \in Seq(Nat) /\ Len(h) = 12 /\ h[1] = 128
  BY BareHeader
<1>2. o \in Seq(Nat) /\ Len(o) = 2 /\ o[1] = 252 /\ o[2] = n
  BY DEF Opus
<1> HIDE DEF h, o
<1>3. /\ s \in Seq(Nat) /\ Len(s) = 14
      /\ s[1] = 128 /\ s[13] = 252 /\ s[14] = n
  <2>0. h \in Seq(Nat) /\ o \in Seq(Nat)
    BY <1>1, <1>2
  <2>1. /\ s \in Seq(Nat) /\ Len(s) = Len(h) + Len(o)
        /\ \A i \in 1..Len(h) : s[i] = h[i]
        /\ \A i \in 1..Len(o) : s[Len(h) + i] = o[i]
    BY <2>0, Joined
  <2>2. 1 \in 1..Len(h) /\ 1 \in 1..Len(o) /\ 2 \in 1..Len(o)
    BY <1>1, <1>2
  <2>3. s[1] = h[1] /\ s[Len(h) + 1] = o[1] /\ s[Len(h) + 2] = o[2]
    BY <2>1, <2>2
  <2>4. Len(h) + 1 = 13 /\ Len(h) + 2 = 14
    BY <1>1, <1>2
  <2>5. s \in Seq(Nat) /\ Len(s) = 14
    BY <1>1, <1>2, <2>1
  <2>6. s[13] = 252 /\ s[14] = n
    <3>1. o[1] = 252 /\ o[2] = n
      BY <1>1, <1>2
    <3>2. s[Len(h) + 1] = 252 /\ s[Len(h) + 2] = n
      BY <2>3, <3>1
    <3>3. QED BY <2>4, <3>2
  <2>7. QED BY <1>1, <1>2, <2>3, <2>5, <2>6
<1>4. QED BY <1>3 DEF s, h, o

\* The bytes of the packet with everything in it that the reader looks at.
FullBytes(p, n) ==
    /\ p \in Seq(Nat) /\ Len(p) = 28 /\ p[1] = 177 /\ p[19] = 0 /\ p[20] = 1
    /\ p[25] = 252 /\ p[26] = n /\ p[28] = 2

\* One with everything in front of and behind the payload.
LEMMA FullPacket ==
    ASSUME NEW n \in Nat
    PROVE  FullBytes(<<177>> \o Zeros(15) \o <<190, 222, 0, 1>> \o Zeros(4) \o Opus(n) \o <<0, 2>>, n)
<1> DEFINE a == <<177>>
           z == Zeros(15)
           x == <<190, 222, 0, 1>>
           y == Zeros(4)
           o == Opus(n)
           e == <<0, 2>>
           s1 == a \o z
           s2 == s1 \o x
           s3 == s2 \o y
           s4 == s3 \o o
           s5 == s4 \o e
<1>1. a \in Seq(Nat) /\ Len(a) = 1 /\ a[1] = 177
  OBVIOUS
<1>2. z \in Seq(Nat) /\ Len(z) = 15 /\ y \in Seq(Nat) /\ Len(y) = 4
  BY DEF Zeros
<1>3. x \in Seq(Nat) /\ Len(x) = 4 /\ x[3] = 0 /\ x[4] = 1
  OBVIOUS
<1>4. o \in Seq(Nat) /\ Len(o) = 2 /\ o[1] = 252 /\ o[2] = n
  BY DEF Opus
<1>5. e \in Seq(Nat) /\ Len(e) = 2 /\ e[2] = 2
  OBVIOUS
<1> HIDE DEF a, z, x, y, o, e
<1>6. /\ s1 \in Seq(Nat) /\ Len(s1) = 16
      /\ s1[1] = 177
  <2>0. a \in Seq(Nat) /\ z \in Seq(Nat)
    BY <1>1, <1>2
  <2>1. /\ s1 \in Seq(Nat) /\ Len(s1) = Len(a) + Len(z)
        /\ \A i \in 1..Len(a) : s1[i] = a[i]
    BY <2>0, Joined
  <2>2. 1 \in 1..Len(a)
    BY <1>1, <1>2
  <2>3. s1[1] = a[1]
    BY <2>1, <2>2
  <2>4. QED BY <1>1, <1>2, <2>1, <2>3
<1> HIDE DEF s1
<1>7. /\ s2 \in Seq(Nat) /\ Len(s2) = 20
      /\ s2[1] = 177 /\ s2[19] = 0 /\ s2[20] = 1
  <2>0. s1 \in Seq(Nat) /\ x \in Seq(Nat)
    BY <1>3, <1>6
  <2>1. /\ s2 \in Seq(Nat) /\ Len(s2) = Len(s1) + Len(x)
        /\ \A i \in 1..Len(s1) : s2[i] = s1[i]
        /\ \A i \in 1..Len(x) : s2[Len(s1) + i] = x[i]
    BY <2>0, Joined
  <2>2. 1 \in 1..Len(s1) /\ 3 \in 1..Len(x) /\ 4 \in 1..Len(x)
    BY <1>3, <1>6
  <2>3. s2[1] = s1[1] /\ s2[Len(s1) + 3] = x[3] /\ s2[Len(s1) + 4] = x[4]
    BY <2>1, <2>2
  <2>4. Len(s1) + 3 = 19 /\ Len(s1) + 4 = 20
    BY <1>3, <1>6
  <2>5. s2 \in Seq(Nat) /\ Len(s2) = 20
    BY <1>3, <1>6, <2>1
  <2>6. s2[19] = 0 /\ s2[20] = 1
    <3>1. x[3] = 0 /\ x[4] = 1
      BY <1>3, <1>6
    <3>2. s2[Len(s1) + 3] = 0 /\ s2[Len(s1) + 4] = 1
      BY <2>3, <3>1
    <3>3. QED BY <2>4, <3>2
  <2>7. QED BY <1>3, <1>6, <2>3, <2>5, <2>6
<1> HIDE DEF s2
<1>8. /\ s3 \in Seq(Nat) /\ Len(s3) = 24
      /\ s3[1] = 177 /\ s3[19] = 0 /\ s3[20] = 1
  <2>0. s2 \in Seq(Nat) /\ y \in Seq(Nat)
    BY <1>2, <1>7
  <2>1. /\ s3 \in Seq(Nat) /\ Len(s3) = Len(s2) + Len(y)
        /\ \A i \in 1..Len(s2) : s3[i] = s2[i]
    BY <2>0, Joined
  <2>2. 1 \in 1..Len(s2) /\ 19 \in 1..Len(s2) /\ 20 \in 1..Len(s2)
    BY <1>2, <1>7
  <2>3. s3[1] = s2[1] /\ s3[19] = s2[19] /\ s3[20] = s2[20]
    BY <2>1, <2>2
  <2>4. QED BY <1>2, <1>7, <2>1, <2>3
<1> HIDE DEF s3
<1>9. /\ s4 \in Seq(Nat) /\ Len(s4) = 26
      /\ s4[1] = 177 /\ s4[19] = 0 /\ s4[20] = 1 /\ s4[25] = 252 /\ s4[26] = n
  <2>0. s3 \in Seq(Nat) /\ o \in Seq(Nat)
    BY <1>4, <1>8
  <2>1. /\ s4 \in Seq(Nat) /\ Len(s4) = Len(s3) + Len(o)
        /\ \A i \in 1..Len(s3) : s4[i] = s3[i]
        /\ \A i \in 1..Len(o) : s4[Len(s3) + i] = o[i]
    BY <2>0, Joined
  <2>2. 1 \in 1..Len(s3) /\ 19 \in 1..Len(s3) /\ 20 \in 1..Len(s3) /\ 1 \in 1..Len(o) /\ 2 \in 1..Len(o)
    BY <1>4, <1>8
  <2>3. s4[1] = s3[1] /\ s4[19] = s3[19] /\ s4[20] = s3[20] /\ s4[Len(s3) + 1] = o[1] /\ s4[Len(s3) + 2] = o[2]
    BY <2>1, <2>2
  <2>4. Len(s3) + 1 = 25 /\ Len(s3) + 2 = 26
    BY <1>4, <1>8
  <2>5. s4 \in Seq(Nat) /\ Len(s4) = 26
    BY <1>4, <1>8, <2>1
  <2>6. s4[25] = 252 /\ s4[26] = n
    <3>1. o[1] = 252 /\ o[2] = n
      BY <1>4, <1>8
    <3>2. s4[Len(s3) + 1] = 252 /\ s4[Len(s3) + 2] = n
      BY <2>3, <3>1
    <3>3. QED BY <2>4, <3>2, Zenon
  <2>7. QED BY <1>4, <1>8, <2>3, <2>5, <2>6
<1> HIDE DEF s4
<1>10. /\ s5 \in Seq(Nat) /\ Len(s5) = 28
      /\ s5[1] = 177 /\ s5[19] = 0 /\ s5[20] = 1 /\ s5[25] = 252 /\ s5[26] = n /\ s5[28] = 2
  <2>0. s4 \in Seq(Nat) /\ e \in Seq(Nat)
    BY <1>5, <1>9
  <2>1. /\ s5 \in Seq(Nat) /\ Len(s5) = Len(s4) + Len(e)
        /\ \A i \in 1..Len(s4) : s5[i] = s4[i]
        /\ \A i \in 1..Len(e) : s5[Len(s4) + i] = e[i]
    BY <2>0, Joined
  <2>2. 1 \in 1..Len(s4) /\ 19 \in 1..Len(s4) /\ 20 \in 1..Len(s4) /\ 25 \in 1..Len(s4) /\ 26 \in 1..Len(s4) /\ 2 \in 1..Len(e)
    BY <1>5, <1>9
  <2>3. s5[1] = s4[1] /\ s5[19] = s4[19] /\ s5[20] = s4[20] /\ s5[25] = s4[25] /\ s5[26] = s4[26] /\ s5[Len(s4) + 2] = e[2]
    BY <2>1, <2>2
  <2>4. Len(s4) + 2 = 28
    BY <1>5, <1>9
  <2>5. s5 \in Seq(Nat) /\ Len(s5) = 28
    BY <1>5, <1>9, <2>1
  <2>6. s5[28] = 2
    <3>1. e[2] = 2
      BY <1>5, <1>9
    <3>2. s5[Len(s4) + 2] = 2
      BY <2>3, <3>1
    <3>3. QED BY <2>4, <3>2
  <2>7. QED BY <1>5, <1>9, <2>3, <2>5, <2>6
<1> HIDE DEF s5
<1>11. FullBytes(s5, n)
  BY <1>10 DEF FullBytes
<1>12. QED BY <1>11 DEF s5, s4, s3, s2, s1, a, z, x, y, o, e

\* Of a packet the reader keeps the Opus packet in it, and nothing if there is none.
LEMMA PayloadIsOpus ==
    ASSUME NEW shape \in Shape, NEW n \in Nat
    PROVE  LET p == Rtp(shape, n)
           IN  /\ p \in Seq(Nat) /\ Len(p) \in Nat
               /\ Len(p) > 0 => RtpPayload(p) \in {<<>>, Opus(n)}
<1> DEFINE p == Rtp(shape, n)
<1>0. Opus(n) = <<252, n>>
  BY DEF Opus
<1>1. CASE shape = "plain"
  <2>1. /\ p \in Seq(Nat) /\ Len(p) = 14 /\ p[1] = 128
        /\ p[13] = 252 /\ p[14] = n
    BY <1>1, PlainPacket DEF Rtp
  <2> HIDE DEF p
  <2>2. ~Padded(p) /\ ~Extended(p) /\ CsrcCount(p) = 0 /\ Version(p) = 2
    BY <2>1 DEF Padded, Extended, CsrcCount, Version
  <2>3. PayloadStart(p) = 12 /\ UnpaddedLength(p) = 14
    BY <2>1, <2>2 DEF PayloadStart, UnpaddedLength, FixedHeader
  <2>4. RtpPayload(p) = SubSeq(p, 13, 14) \/ RtpPayload(p) = <<>>
    BY <2>3 DEF RtpPayload
  <2>5. SubSeq(p, 13, 14) = <<252, n>>
    <3>1. p \in Seq(Nat) /\ 12 \in Nat /\ 12 + 2 <= Len(p)
      BY <2>1
    <3>2. SubSeq(p, 12 + 1, 12 + 2) = <<p[12 + 1], p[12 + 2]>>
      BY <3>1, TwoOf
    <3>3. QED BY <2>1, <3>2
  <2>6. p \in Seq(Nat) /\ Len(p) \in Nat
    BY <2>1
  <2>7. QED BY <1>0, <2>4, <2>5, <2>6 DEF p
<1>2. CASE shape = "full"
  <2>1. /\ p \in Seq(Nat) /\ Len(p) = 28 /\ p[1] = 177 /\ p[19] = 0 /\ p[20] = 1
        /\ p[25] = 252 /\ p[26] = n /\ p[28] = 2
    <3>1. p = <<177>> \o Zeros(15) \o <<190, 222, 0, 1>> \o Zeros(4) \o Opus(n) \o <<0, 2>>
      BY <1>2 DEF Rtp
    <3> HIDE DEF p
    <3>2. FullBytes(p, n)
      BY <3>1, FullPacket
    <3>3. QED BY <3>2 DEF FullBytes
  <2> HIDE DEF p
  <2>2. Padded(p) /\ Extended(p) /\ CsrcCount(p) = 1 /\ Version(p) = 2
    BY <2>1 DEF Padded, Extended, CsrcCount, Version
  <2>3. PayloadStart(p) = 24 /\ UnpaddedLength(p) = 26
    BY <2>1, <2>2 DEF PayloadStart, UnpaddedLength, FixedHeader, BigEndian
  <2>4. RtpPayload(p) = SubSeq(p, 25, 26) \/ RtpPayload(p) = <<>>
    BY <2>3 DEF RtpPayload
  <2>5. SubSeq(p, 25, 26) = <<252, n>>
    <3>1. p \in Seq(Nat) /\ 24 \in Nat /\ 24 + 2 <= Len(p)
      BY <2>1
    <3>2. SubSeq(p, 24 + 1, 24 + 2) = <<p[24 + 1], p[24 + 2]>>
      BY <3>1, TwoOf
    <3>3. QED BY <2>1, <3>2
  <2>6. p \in Seq(Nat) /\ Len(p) \in Nat
    BY <2>1
  <2>7. QED BY <1>0, <2>4, <2>5, <2>6 DEF p
<1>3. CASE shape = "control"
  <2>3. p \in Seq(Nat) /\ Len(p) = 12 /\ p[1] = 128
    BY <1>3, BareHeader DEF Rtp
  <2> HIDE DEF p
  <2>4. ~Padded(p) /\ ~Extended(p) /\ CsrcCount(p) = 0 /\ Version(p) = 2
    BY <2>3 DEF Padded, Extended, CsrcCount, Version
  <2>5. PayloadStart(p) = 12 /\ UnpaddedLength(p) = 12
    BY <2>3, <2>4 DEF PayloadStart, UnpaddedLength, FixedHeader
  <2>6. RtpPayload(p) = SubSeq(p, 13, 12) \/ RtpPayload(p) = <<>>
    BY <2>5 DEF RtpPayload
  <2>7. SubSeq(p, 13, 12) = <<>>
    BY <2>3, SubSeqProperties
  <2>8. QED BY <2>3, <2>6, <2>7 DEF p
<1>4. CASE shape = "broken"
  <2>1. p = <<>>
    BY <1>4 DEF Rtp
  <2>2. QED BY <2>1
<1>5. QED BY <1>1, <1>2, <1>3, <1>4 DEF Shape


\* A frame is two bytes of length and the packet.
LEMMA FrameBytes ==
    ASSUME NEW p \in Seq(Nat)
    PROVE  /\ Framed(p) \in Seq(Nat) /\ Len(Framed(p)) = 2 + Len(p) /\ Len(p) \in Nat
           /\ Framed(p)[1] = 0 /\ Framed(p)[2] = Len(p)
           /\ \A x \in 1..Len(p) : Framed(p)[2 + x] = p[x]
<1> DEFINE h == <<0, Len(p)>>
<1>0. Len(p) \in Nat
  BY LenProperties
<1>1. h \in Seq(Nat)
  BY <1>0
<1>2. Len(h) = 2 /\ h[1] = 0 /\ h[2] = Len(p)
  OBVIOUS
<1> HIDE DEF h
<1>3. /\ h \o p \in Seq(Nat) /\ Len(h \o p) = Len(h) + Len(p)
      /\ \A i \in 1..Len(h) : (h \o p)[i] = h[i]
      /\ \A i \in 1..Len(p) : (h \o p)[Len(h) + i] = p[i]
  BY <1>1, Joined
<1>4. 1 \in 1..Len(h) /\ 2 \in 1..Len(h)
  BY <1>2
<1>5. (h \o p)[1] = h[1] /\ (h \o p)[2] = h[2]
  BY <1>3, <1>4
<1>6. Framed(p) = h \o p
  BY DEF Framed, h
<1> HIDE DEF h
<1>7. QED BY <1>0, <1>2, <1>3, <1>5, <1>6

\* The frame of the j-th packet stands in s from o to e.
FrameAt(s, o, e, j) ==
    \E shape \in Shape :
        LET f == Framed(Rtp(shape, j))
        IN  e = o + Len(f) /\ \A x \in 1..Len(f) : s[o + x] = f[x]

\* The bytes that wait are the frames of the packets behind the k-th up to the n-th.
FramesIn(s, k, n, pos) ==
    /\ s \in Seq(Nat) /\ pos \in [Nat -> Nat]
    /\ pos[k] = 0 /\ pos[n] = Len(s)
    /\ \A i, j \in k..n : i <= j => pos[i] <= pos[j]
    /\ \A j \in k + 1..n : FrameAt(s, pos[j - 1], pos[j], j)

\* Opus packets with ascending numbers behind the low-th up to the high-th.
Ordered(q, low, high) ==
    /\ q \in Seq(Seq(Nat))
    /\ \A x \in 1..Len(q) : q[x] = Opus(q[x][2]) /\ q[x][2] \in low + 1..high
    /\ \A x, y \in 1..Len(q) : x < y => q[x][2] < q[y][2]

\* What has arrived of the frame stands in b from o on.
FrameBegins(b, o, e, j) ==
    \E shape \in Shape :
        LET f == Framed(Rtp(shape, j))
        IN  e = o + Len(f) /\ \A x \in 1..Len(f) : o + x <= Len(b) => b[o + x] = f[x]

\* The turn that yields t ends the loop or goes on behind the frame.
TurnsOut(b, t, later, o, e, j) ==
    \/ t = [rest |-> SubSeq(b, o + 1, Len(b)), packets |-> <<>>, valid |-> TRUE]
    \/ ~t.valid
    \/ e <= Len(b) /\ (t = later[e] \/ t = [later[e] EXCEPT !.packets = <<Opus(j)>> \o @])

\* What one turn finds where a frame begins.
LEMMA TurnAtFrame ==
    ASSUME NEW b \in Seq(Nat), NEW o \in Nat, NEW e \in Nat, NEW j \in Nat, NEW later,
           o <= Len(b),
           FrameBegins(b, o, e, j)
    PROVE  TurnsOut(b, Turn(b, later, o), later, o, e, j)
<1> DEFINE t == Turn(b, later, o)
           N == Len(b)
<1>0. N \in Nat
  BY LenProperties
<1>1. PICK shape \in Shape :
         /\ e = o + Len(Framed(Rtp(shape, j)))
         /\ \A x \in 1..Len(Framed(Rtp(shape, j))) : o + x <= N => b[o + x] = Framed(Rtp(shape, j))[x]
  BY DEF FrameBegins
<1> DEFINE p == Rtp(shape, j)
<1>2. p \in Seq(Nat) /\ Len(p) \in Nat /\ (Len(p) > 0 => RtpPayload(p) \in {<<>>, Opus(j)})
  BY PayloadIsOpus
<1> HIDE DEF p
<1>3. /\ Len(Framed(p)) = 2 + Len(p)
      /\ Framed(p)[1] = 0 /\ Framed(p)[2] = Len(p)
      /\ \A x \in 1..Len(p) : Framed(p)[2 + x] = p[x]
  BY <1>2, FrameBytes
<1>4. e = o + 2 + Len(p)
  BY <1>1, <1>2, <1>3 DEF p
<1>5. CASE N - o < 2
  BY <1>5 DEF Turn, TurnsOut
<1>6. CASE ~(N - o < 2)
  <2>1. b[o + 1] = 0 /\ b[o + 2] = Len(p)
    <3>1. 1 \in 1..Len(Framed(p)) /\ 2 \in 1..Len(Framed(p)) /\ o + 1 <= N /\ o + 2 <= N
      BY <1>0, <1>2, <1>3, <1>6, SMTT(30)
    <3>2. b[o + 1] = Framed(p)[1] /\ b[o + 2] = Framed(p)[2]
      BY <1>1, <3>1 DEF p
    <3>3. QED BY <1>3, <3>2
  <2>2. BigEndian(b, o) = Len(p)
    BY <1>2, <2>1 DEF BigEndian
  <2>3. CASE ~ValidLength(Len(p))
    <3>1. ~ValidLength(BigEndian(b, o))
      BY <2>2, <2>3
    <3>2. t = [rest |-> SubSeq(b, o + 1, Len(b)), packets |-> <<>>, valid |-> FALSE]
      BY <1>6, <3>1 DEF Turn
    <3>3. QED BY <3>2 DEF TurnsOut
  <2>4. CASE ValidLength(Len(p)) /\ ~Complete(b, o)
    BY <1>6, <2>2, <2>4 DEF Turn, TurnsOut
  <2>5. CASE ValidLength(Len(p)) /\ Complete(b, o)
    <3>1. Len(p) > 0
      BY <1>2, <2>5, FrameLimitAssumption DEF ValidLength
    <3>2. e <= N /\ o < e
      BY <1>0, <1>2, <1>4, <2>2, <2>5 DEF Complete
    <3>3. SubSeq(b, o + 3, o + 2 + Len(p)) = p
      <4> DEFINE u == SubSeq(b, o + 3, o + 2 + Len(p))
      <4>1. \A x \in o + 3..o + 2 + Len(p) : x \in 1..N
        BY <1>0, <1>2, <1>4, <3>2
      <4>2. /\ u \in Seq(Nat)
            /\ Len(u) = IF o + 3 <= o + 2 + Len(p) THEN (o + 2 + Len(p)) - (o + 3) + 1 ELSE 0
            /\ \A x \in 1..(o + 2 + Len(p)) - (o + 3) + 1 : u[x] = b[(o + 3) + x - 1]
        <5>1. o + 3 \in Int /\ o + 2 + Len(p) \in Int
          BY <1>2
        <5>2. QED BY <4>1, <5>1, SubSeqProperties
      <4> HIDE DEF u
      <4>3. Len(u) = Len(p) /\ \A x \in 1..Len(p) : u[x] = b[o + (2 + x)]
        <5>1. o + 3 <= o + 2 + Len(p) /\ (o + 2 + Len(p)) - (o + 3) + 1 = Len(p)
          BY <1>2, <3>1
        <5>2. \A x \in 1..Len(p) : (o + 3) + x - 1 = o + (2 + x)
          BY <1>2
        <5>3. QED BY <4>2, <5>1, <5>2
      <4>4. \A x \in 1..Len(p) : b[o + (2 + x)] = Framed(p)[2 + x]
        <5>1. \A x \in 1..Len(p) : 2 + x \in 1..Len(Framed(p)) /\ o + (2 + x) <= N
          BY <1>0, <1>2, <1>3, <1>4, <3>2
        <5>2. QED BY <1>1, <5>1 DEF p
      <4>5. \A x \in 1..Len(p) : u[x] = p[x]
        BY <1>3, <4>3, <4>4
      <4>6. u = p
        BY <1>2, <4>2, <4>3, <4>5, SeqEqual
      <4>7. QED BY <4>6 DEF u
    <3>4. t = IF RtpPayload(p) = <<>> THEN later[e] ELSE [later[e] EXCEPT !.packets = <<RtpPayload(p)>> \o @]
      <4>1. o + 2 + BigEndian(b, o) = e
        BY <1>4, <2>2
      <4>2. ~(N - o < 2) /\ ValidLength(BigEndian(b, o)) /\ Complete(b, o)
        BY <1>6, <2>2, <2>5
      <4>3. SubSeq(b, o + 3, e) = p
        BY <1>4, <3>3
      <4>4. QED BY <4>1, <4>2, <4>3 DEF Turn
    <3>5. RtpPayload(p) \in {<<>>, Opus(j)}
      BY <1>2, <3>1
    <3> HIDE DEF t
    <3>6. t = later[e] \/ t = [later[e] EXCEPT !.packets = <<Opus(j)>> \o @]
      BY <3>4, <3>5
    <3>7. QED BY <3>2, <3>6 DEF t, TurnsOut
  <2>6. QED BY <2>3, <2>4, <2>5
<1>7. QED BY <1>5, <1>6

\* What the loop makes of the bytes that have arrived, from the frame of packet j + 1 on:
\* it stops where the frame of packet i + 1 begins, or finds a length that makes no sense.
Parsed(b, t, j, n, pos) ==
    t.valid => \E i \in j..n :
        /\ pos[i] <= Len(b)
        /\ t.rest = SubSeq(b, pos[i] + 1, Len(b))
        /\ Ordered(t.packets, j, i) /\ Len(t.packets) <= i - j

\* The packet of one frame goes in front of those of the frames behind it.
LEMMA Prepended ==
    ASSUME NEW q, NEW j \in Nat, NEW i \in Nat, Ordered(q, j + 1, i), j + 1 <= i, Len(q) <= i - (j + 1)
    PROVE  LET r == <<Opus(j + 1)>> \o q
           IN  Ordered(r, j, i) /\ Len(r) <= i - j
<1> DEFINE o == Opus(j + 1)
           r == <<o>> \o q
<1>1. o \in Seq(Nat) /\ o[2] = j + 1 /\ Opus(o[2]) = o
  BY DEF Opus
<1> HIDE DEF o
<1>2. q \in Seq(Seq(Nat)) /\ Len(q) \in Nat
  BY LenProperties DEF Ordered
<1>3. /\ r \in Seq(Seq(Nat)) /\ Len(r) = 1 + Len(q)
      /\ \A x \in 1..1 + Len(q) : r[x] = IF x <= 1 THEN <<o>>[x] ELSE q[x - 1]
  <2> DEFINE h == <<o>>
  <2>1. h \in Seq(Seq(Nat)) /\ Len(h) = 1
    BY <1>1
  <2> HIDE DEF h
  <2>2. /\ h \o q \in Seq(Seq(Nat)) /\ Len(h \o q) = Len(h) + Len(q)
        /\ \A x \in 1..Len(h) + Len(q) : (h \o q)[x] = IF x <= Len(h) THEN h[x] ELSE q[x - Len(h)]
    BY <1>2, <2>1, ConcatProperties
  <2>3. /\ h \o q \in Seq(Seq(Nat)) /\ Len(h \o q) = 1 + Len(q)
        /\ \A x \in 1..1 + Len(q) : (h \o q)[x] = IF x <= 1 THEN h[x] ELSE q[x - 1]
    BY <2>1, <2>2
  <2>4. QED BY <2>3 DEF h
<1> HIDE DEF r
<1>4. r[1] = o /\ \A x \in 2..1 + Len(q) : r[x] = q[x - 1] /\ x - 1 \in 1..Len(q)
  <2>1. 1 \in 1..1 + Len(q) /\ <<o>>[1] = o
    BY <1>2
  <2>2. \A x \in 2..1 + Len(q) : x \in 1..1 + Len(q) /\ ~(x <= 1) /\ x - 1 \in 1..Len(q)
    BY <1>2
  <2>3. QED BY <1>3, <2>1, <2>2
<1>5. \A x \in 1..Len(q) : q[x] = Opus(q[x][2]) /\ q[x][2] \in j + 2..i
  BY DEF Ordered
<1>6. ASSUME NEW x \in 1..Len(r) PROVE r[x] = Opus(r[x][2]) /\ r[x][2] \in j + 1..i
  <2>1. CASE x = 1
    BY <1>1, <1>4, <2>1
  <2>2. CASE x # 1
    <3>1. x \in 2..1 + Len(q)
      BY <1>2, <1>3, <2>2
    <3>2. r[x] = q[x - 1] /\ x - 1 \in 1..Len(q)
      BY <1>4, <3>1
    <3>3. q[x - 1] = Opus(q[x - 1][2]) /\ q[x - 1][2] \in j + 2..i
      BY <1>5, <3>2
    <3>4. QED BY <3>2, <3>3
  <2>3. QED BY <2>1, <2>2
<1>7. ASSUME NEW x \in 1..Len(r), NEW y \in 1..Len(r), x < y PROVE r[x][2] < r[y][2]
  <2>1. y \in 2..1 + Len(q)
    BY <1>2, <1>3, <1>7
  <2>2. r[y] = q[y - 1] /\ y - 1 \in 1..Len(q)
    BY <1>4, <2>1
  <2>3. CASE x = 1
    <3>1. r[x][2] = j + 1
      BY <1>1, <1>4, <2>3
    <3>2. q[y - 1][2] \in j + 2..i
      BY <1>5, <2>2
    <3>3. QED BY <2>2, <3>1, <3>2
  <2>4. CASE x # 1
    <3>1. x \in 2..1 + Len(q)
      BY <1>2, <1>3, <2>4
    <3>2. r[x] = q[x - 1] /\ x - 1 \in 1..Len(q) /\ x - 1 < y - 1
      BY <1>4, <1>7, <3>1
    <3>3. q[x - 1][2] < q[y - 1][2]
      BY <2>2, <3>2 DEF Ordered
    <3>4. QED BY <2>2, <3>2, <3>3
  <2>5. QED BY <2>3, <2>4
<1>8. Ordered(r, j, i) /\ Len(r) <= i - j
  BY <1>2, <1>3, <1>6, <1>7 DEF Ordered
<1>9. QED BY <1>8 DEF r, o

\* However the reads cut the frames, the loop releases packets in their order and
\* keeps what belongs to the next ones.
LEMMA Parsing ==
    ASSUME NEW k \in Nat, NEW n \in Nat, k <= n, NEW pos, NEW s, FramesIn(s, k, n, pos),
           NEW b \in Seq(Nat), Len(b) <= Len(s), \A x \in 1..Len(b) : b[x] = s[x]
    PROVE  Parsed(b, Turns(b)[0], k, n, pos)
<1> DEFINE N == Len(b)
           f == Turns(b)
           P(j) == pos[j] <= N => Parsed(b, f[pos[j]], j, n, pos)
<1>0. N \in Nat /\ Len(s) \in Nat /\ s \in Seq(Nat)
  BY LenProperties DEF FramesIn
<1>1. /\ \A j \in k..n : pos[j] \in Nat
      /\ pos[k] = 0 /\ pos[n] = Len(s)
  <2>1. \A j \in k..n : j \in Nat
    OBVIOUS
  <2>2. pos \in [Nat -> Nat] /\ pos[k] = 0 /\ pos[n] = Len(s)
    BY DEF FramesIn
  <2>3. QED BY <2>1, <2>2
<1>2. ASSUME NEW o \in 0..N PROVE f[o] = Turn(b, f, o)
  <2>1. f = [offset \in 0..N |-> Turn(b, f, offset)]
    BY TurnsExist
  <2> HIDE DEF f
  <2>2. QED BY <2>1
<1> HIDE DEF f
<1>3. P(n)
  <2> SUFFICES ASSUME pos[n] <= N PROVE Parsed(b, f[pos[n]], n, n, pos)
    OBVIOUS
  <2>1. pos[n] = N /\ pos[n] \in 0..N
    BY <1>0, <1>1
  <2>2. f[pos[n]] = Turn(b, f, N)
    BY <1>2, <2>1
  <2>3. Turn(b, f, N) = [rest |-> SubSeq(b, N + 1, N), packets |-> <<>>, valid |-> TRUE]
    BY <1>0 DEF Turn
  <2>4. Ordered(<<>>, n, n) /\ Len(<<>>) <= n - n
    BY DEF Ordered
  <2>5. n \in n..n
    OBVIOUS
  <2>6. QED BY <2>1, <2>2, <2>3, <2>4, <2>5 DEF Parsed
<1>4. ASSUME NEW j \in k..n - 1, P(j + 1) PROVE P(j)
  <2> SUFFICES ASSUME pos[j] <= N PROVE Parsed(b, f[pos[j]], j, n, pos)
    OBVIOUS
  <2> DEFINE o == pos[j]
             e == pos[j + 1]
  <2>0. j \in Nat /\ j + 1 \in k + 1..n /\ j \in k..n /\ j + 1 \in k..n /\ (j + 1) - 1 = j /\ j + 1 \in Nat
    OBVIOUS
  <2>1. o \in Nat /\ e \in Nat /\ o <= N /\ o \in 0..N
    BY <1>0, <1>1, <2>0
  <2>2. FrameAt(s, o, e, j + 1)
    BY <2>0 DEF FramesIn
  <2>3. FrameBegins(b, o, e, j + 1)
    <3>1. PICK shape \in Shape :
            /\ e = o + Len(Framed(Rtp(shape, j + 1)))
            /\ \A x \in 1..Len(Framed(Rtp(shape, j + 1))) : s[o + x] = Framed(Rtp(shape, j + 1))[x]
      BY <2>2 DEF FrameAt
    <3> DEFINE g == Framed(Rtp(shape, j + 1))
    <3>a. Len(g) \in Nat
      <4>1. Rtp(shape, j + 1) \in Seq(Nat)
        BY <2>0, PayloadIsOpus
      <4>2. QED BY <4>1, FrameBytes
    <3> HIDE DEF g
    <3>2. \A x \in 1..Len(g) : o + x <= N => o + x \in 1..N
      <4> HIDE DEF o, N
      <4>1. QED BY <1>0, <2>1, <3>a
    <3>3. \A x \in 1..Len(g) : o + x <= N => b[o + x] = g[x]
      BY <3>1, <3>2 DEF g
    <3>4. QED BY <3>1, <3>3 DEF g, FrameBegins
  <2> DEFINE t == Turn(b, f, o)
             halt == [rest |-> SubSeq(b, o + 1, N), packets |-> <<>>, valid |-> TRUE]
  <2>4. \/ t = halt \/ ~t.valid
        \/ e <= N /\ t = f[e]
        \/ e <= N /\ t = [f[e] EXCEPT !.packets = <<Opus(j + 1)>> \o @]
    <3>1. o \in Nat /\ e \in Nat /\ j + 1 \in Nat /\ o <= Len(b)
      BY <2>0, <2>1
    <3> HIDE DEF o, e
    <3>2. TurnsOut(b, Turn(b, f, o), f, o, e, j + 1)
      BY <2>3, <3>1, TurnAtFrame
    <3>3. QED BY <3>2 DEF TurnsOut
  <2>5. f[pos[j]] = t
    BY <1>2, <2>1
  <2>6. CASE t = halt
    <3>1. Ordered(<<>>, j, j) /\ Len(<<>>) <= j - j
      BY <2>0 DEF Ordered
    <3>2. j \in j..n
      BY <2>0
    <3>3. halt.rest = SubSeq(b, pos[j] + 1, N) /\ halt.packets = <<>>
      OBVIOUS
    <3> HIDE DEF t, halt
    <3>4. QED BY <2>5, <2>6, <2>1, <3>1, <3>2, <3>3 DEF Parsed
  <2>7. CASE ~t.valid
    <3> HIDE DEF t
    <3>1. QED BY <2>5, <2>7 DEF Parsed
  <2>8. CASE e <= N /\ t = f[e]
    <3>1. Parsed(b, f[e], j + 1, n, pos)
      BY <1>4, <2>8
    <3> HIDE DEF t
    <3> SUFFICES ASSUME t.valid PROVE Parsed(b, t, j, n, pos)
      BY <2>5 DEF Parsed
    <3>2. PICK i \in j + 1..n :
            /\ pos[i] <= N
            /\ t.rest = SubSeq(b, pos[i] + 1, N)
            /\ Ordered(t.packets, j + 1, i) /\ Len(t.packets) <= i - (j + 1)
      BY <2>8, <3>1 DEF Parsed
    <3>3. i \in j..n
      BY <2>0
    <3>4. Ordered(t.packets, j, i) /\ Len(t.packets) <= i - j
      <4>1. Len(t.packets) \in Nat
        BY <3>2, LenProperties DEF Ordered
      <4>2. \A x : x \in (j + 1) + 1..i => x \in j + 1..i
        BY <2>0
      <4>3. Ordered(t.packets, j, i)
        BY <3>2, <4>2 DEF Ordered
      <4>4. QED BY <2>0, <3>2, <4>1, <4>3
    <3>5. QED BY <3>2, <3>3, <3>4 DEF Parsed
  <2>9. CASE e <= N /\ t = [f[e] EXCEPT !.packets = <<Opus(j + 1)>> \o @]
    <3> SUFFICES ASSUME t.valid PROVE Parsed(b, t, j, n, pos)
      BY <2>5 DEF Parsed
    <3>1. Parsed(b, f[e], j + 1, n, pos)
      BY <1>4, <2>9
    <3>2. PICK i \in j + 1..n :
            /\ pos[i] <= N
            /\ f[e].rest = SubSeq(b, pos[i] + 1, N)
            /\ Ordered(f[e].packets, j + 1, i) /\ Len(f[e].packets) <= i - (j + 1)
      BY <2>9, <3>1 DEF Parsed
    <3>4. i \in j..n /\ i \in Nat /\ j + 1 <= i
      BY <2>0
    <3>5. Ordered(<<Opus(j + 1)>> \o f[e].packets, j, i) /\ Len(<<Opus(j + 1)>> \o f[e].packets) <= i - j
      BY <2>0, <3>2, <3>4, Prepended
    <3>6. QED BY <2>9, <3>2, <3>4, <3>5 DEF Parsed
  <2>10. QED BY <2>4, <2>6, <2>7, <2>8, <2>9
<1>5. \A j \in k..n : P(j)
  <2> SUFFICES ASSUME NEW j0 \in k..n, ~P(j0) PROVE FALSE
    OBVIOUS
  <2> DEFINE S == {d \in 0..n - k : ~P(n - d)}
  <2>1. n - j0 \in S
    <3>1. n - j0 \in 0..n - k /\ n - (n - j0) = j0
      OBVIOUS
    <3> HIDE DEF P
    <3>2. QED BY <3>1
  <2> HIDE DEF P
  <2>2. S \in SUBSET Nat /\ S # {}
    <3>1. \A d \in 0..n - k : d \in Nat
      OBVIOUS
    <3>2. S \in SUBSET Nat
      BY <3>1
    <3> HIDE DEF S
    <3>3. QED BY <2>1, <3>2
  <2>3. PICK d \in S : \A x \in S : d <= x
    <3> HIDE DEF S
    <3>1. QED BY <2>2, LeastExists
  <2>4. d \in 0..n - k /\ ~P(n - d)
    OBVIOUS
  <2>5. d # 0
    <3>1. n - 0 = n
      OBVIOUS
    <3>2. QED BY <1>3, <2>4, <3>1
  <2>6. d - 1 \notin S
    <3>1. d - 1 \in S => d <= d - 1
      BY <2>3
    <3>2. d \in Nat
      BY <2>4
    <3> HIDE DEF S
    <3>3. QED BY <3>1, <3>2
  <2>7. d - 1 \in 0..n - k
    BY <2>4, <2>5
  <2>8. P(n - (d - 1))
    BY <2>6, <2>7
  <2>9. n - d \in k..n - 1 /\ (n - d) + 1 = n - (d - 1)
    BY <2>4, <2>5
  <2>10. QED BY <1>4, <2>4, <2>8, <2>9
<1>6. P(k) /\ pos[k] <= N
  BY <1>0, <1>1, <1>5
<1>7. QED BY <1>1, <1>6 DEF f

-----------------------------------------------------------------------------
(* How the frames that wait change. *)

\* An empty pipe is no frames.
LEMMA NoFrames ==
    ASSUME NEW n \in Nat
    PROVE  FramesIn(<<>>, n, n, [x \in Nat |-> 0])
<1>1. \A j \in n + 1..n : FALSE
  OBVIOUS
<1>2. \A j \in n..n : j \in Nat
  OBVIOUS
<1>3. QED BY <1>1, <1>2 DEF FramesIn

\* The encoder puts a frame behind the others.
LEMMA MoreFrames ==
    ASSUME NEW k \in Nat, NEW n \in Nat, k <= n, NEW pos, NEW s, FramesIn(s, k, n, pos),
           NEW shape \in Shape
    PROVE  \E more : FramesIn(s \o Framed(Rtp(shape, n + 1)), k, n + 1, more)
<1> DEFINE f == Framed(Rtp(shape, n + 1))
           u == s \o f
<1>1. n + 1 \in Nat /\ s \in Seq(Nat) /\ pos \in [Nat -> Nat] /\ pos[k] = 0 /\ pos[n] = Len(s)
  BY DEF FramesIn
<1>2. f \in Seq(Nat)
  <2>1. Rtp(shape, n + 1) \in Seq(Nat)
    BY <1>1, PayloadIsOpus
  <2>2. QED BY <2>1, FrameBytes
<1>3. /\ u \in Seq(Nat) /\ Len(u) = Len(s) + Len(f)
      /\ Len(s) \in Nat /\ Len(f) \in Nat
      /\ \A i \in 1..Len(s) : u[i] = s[i]
      /\ \A i \in 1..Len(f) : u[Len(s) + i] = f[i]
  <2> HIDE DEF f
  <2>1. QED BY <1>1, <1>2, Joined
<1> DEFINE more == [x \in Nat |-> IF x = n + 1 THEN Len(u) ELSE pos[x]]
<1>4. more \in [Nat -> Nat] /\ more[k] = 0 /\ more[n + 1] = Len(u)
  <2> HIDE DEF u
  <2>1. Len(u) \in Nat /\ k # n + 1
    BY <1>3
  <2>2. QED BY <1>1, <2>1
<1>5. \A j \in k..n : more[j] = pos[j] /\ pos[j] \in Nat /\ pos[j] <= Len(s)
  <2>1. \A j \in k..n : j \in Nat /\ j # n + 1 /\ j <= n /\ n \in k..n
    OBVIOUS
  <2>2. \A j \in k..n : pos[j] <= pos[n]
    BY <2>1 DEF FramesIn
  <2> HIDE DEF u
  <2>3. QED BY <1>1, <2>1, <2>2
<1>6. \A i, j \in k..n + 1 : i <= j => more[i] <= more[j]
  <2> SUFFICES ASSUME NEW i \in k..n + 1, NEW j \in k..n + 1, i <= j
               PROVE  more[i] <= more[j]
    OBVIOUS
  <2> HIDE DEF more, u, f
  <2>1. CASE j = n + 1
    <3>1. i = n + 1 \/ i \in k..n
      OBVIOUS
    <3>2. more[j] = Len(s) + Len(f)
      BY <1>3, <1>4, <2>1
    <3>3. CASE i = n + 1
      BY <1>3, <2>1, <3>2, <3>3
    <3>4. CASE i \in k..n
      <4>1. more[i] \in Nat /\ more[i] <= Len(s)
        BY <1>5, <3>4
      <4>2. QED BY <1>3, <3>2, <4>1
    <3>5. QED BY <3>1, <3>3, <3>4
  <2>2. CASE j # n + 1
    <3>1. i \in k..n /\ j \in k..n
      BY <2>2
    <3>2. pos[i] <= pos[j]
      BY <3>1 DEF FramesIn
    <3>3. QED BY <1>5, <3>1, <3>2
  <2>3. QED BY <2>1, <2>2
<1>7. ASSUME NEW j \in k + 1..n + 1 PROVE FrameAt(u, more[j - 1], more[j], j)
  <2>1. CASE j = n + 1
    <3>1. more[j - 1] = Len(s) /\ more[j] = Len(s) + Len(f)
      <4>1. j - 1 = n /\ n \in k..n
        BY <2>1
      <4> HIDE DEF more, u, f
      <4>2. QED BY <1>1, <1>3, <1>4, <1>5, <2>1, <4>1
    <3>2. \A x \in 1..Len(f) : u[Len(s) + x] = f[x]
      BY <1>3
    <3> HIDE DEF more, u
    <3>3. QED BY <2>1, <3>1, <3>2 DEF FrameAt
  <2>2. CASE j # n + 1
    <3>1. j \in k + 1..n /\ j \in k..n /\ j - 1 \in k..n /\ j \in Nat
      BY <2>2
    <3>2. more[j - 1] = pos[j - 1] /\ more[j] = pos[j] /\ pos[j] <= Len(s) /\ pos[j - 1] \in Nat
      BY <1>5, <3>1
    <3>3. PICK sh \in Shape :
            /\ pos[j] = pos[j - 1] + Len(Framed(Rtp(sh, j)))
            /\ \A x \in 1..Len(Framed(Rtp(sh, j))) : s[pos[j - 1] + x] = Framed(Rtp(sh, j))[x]
      BY <3>1 DEF FramesIn, FrameAt
    <3> DEFINE g == Framed(Rtp(sh, j))
    <3>4. Len(g) \in Nat
      <4>1. Rtp(sh, j) \in Seq(Nat)
        BY <3>1, PayloadIsOpus
      <4>2. QED BY <4>1, FrameBytes
    <3> HIDE DEF g, u, f, more
    <3>5. \A x \in 1..Len(g) : pos[j - 1] + x \in 1..Len(s)
      <4>1. pos[j - 1] + Len(g) <= Len(s)
        BY <3>2, <3>3 DEF g
      <4>2. \A a, l, m \in Nat : a + l <= m => \A x \in 1..l : a + x \in 1..m
        OBVIOUS
      <4>3. QED BY <1>3, <3>2, <3>4, <4>1, <4>2
    <3>6. \A x \in 1..Len(g) : u[pos[j - 1] + x] = g[x]
      BY <1>3, <3>3, <3>5 DEF g
    <3>7. QED BY <3>2, <3>3, <3>6 DEF g, FrameAt
  <2>3. QED BY <2>1, <2>2
<1> HIDE DEF more, u, f
<1>8. FramesIn(u, k, n + 1, more)
  BY <1>3, <1>4, <1>6, <1>7 DEF FramesIn
<1>9. QED BY <1>8 DEF u, f

\* u is what s holds behind its first o bytes.
IsBehind(u, s, o) ==
    u \in Seq(Nat) /\ Len(u) = Len(s) - o /\ \A x \in 1..Len(u) : u[x] = s[o + x]

\* A read takes frames away in front.
LEMMA FewerFrames ==
    ASSUME NEW k \in Nat, NEW n \in Nat, k <= n, NEW pos, NEW s, FramesIn(s, k, n, pos),
           NEW i \in k..n, NEW u, IsBehind(u, s, pos[i])
    PROVE  \E fewer : FramesIn(u, i, n, fewer)
<1> DEFINE fewer == [x \in Nat |-> IF x \in i..n THEN pos[x] - pos[i] ELSE 0]
<1>0. u \in Seq(Nat) /\ Len(u) = Len(s) - pos[i] /\ \A x \in 1..Len(u) : u[x] = s[pos[i] + x]
  BY DEF IsBehind
<1>1. n \in Nat /\ s \in Seq(Nat) /\ pos \in [Nat -> Nat] /\ pos[n] = Len(s)
  BY DEF FramesIn
<1>2. \A x \in i..n : x \in Nat /\ x \in k..n
  OBVIOUS
<1>3. \A x, y \in i..n : x <= y => pos[x] <= pos[y]
  BY <1>2 DEF FramesIn
<1>4. \A x \in i..n : pos[x] \in Nat /\ pos[i] \in Nat /\ pos[i] <= pos[x] /\ fewer[x] = pos[x] - pos[i]
  <2>1. \A x \in i..n : i <= x /\ i \in i..n
    OBVIOUS
  <2>2. \A x \in i..n : pos[i] <= pos[x]
    BY <1>3, <2>1
  <2>3. QED BY <1>1, <1>2, <2>1, <2>2
<1>5. fewer \in [Nat -> Nat]
  <2>1. \A x \in i..n : pos[x] - pos[i] \in Nat
    <3>1. \A a, m \in Nat : a <= m => m - a \in Nat
      OBVIOUS
    <3> HIDE DEF fewer
    <3>2. QED BY <1>4, <3>1
  <2>2. QED BY <2>1
<1>6. i \in i..n /\ n \in i..n
  OBVIOUS
<1> HIDE DEF fewer
<1>7. fewer[i] = 0 /\ fewer[n] = Len(u)
  <2>1. fewer[i] = pos[i] - pos[i] /\ pos[i] \in Nat /\ fewer[n] = pos[n] - pos[i]
    BY <1>4, <1>6
  <2>2. fewer[n] = Len(u)
    BY <1>0, <1>1, <2>1
  <2>3. QED BY <2>1, <2>2
<1>8. \A x, y \in i..n : x <= y => fewer[x] <= fewer[y]
  BY <1>3, <1>4, SMTT(30)
<1>9. ASSUME NEW j \in i + 1..n PROVE FrameAt(u, fewer[j - 1], fewer[j], j)
  <2>1. j \in i..n /\ j - 1 \in i..n /\ j \in k + 1..n /\ j \in Nat /\ j <= n
    OBVIOUS
  <2>2. PICK sh \in Shape :
          /\ pos[j] = pos[j - 1] + Len(Framed(Rtp(sh, j)))
          /\ \A x \in 1..Len(Framed(Rtp(sh, j))) : s[pos[j - 1] + x] = Framed(Rtp(sh, j))[x]
    BY <2>1 DEF FramesIn, FrameAt
  <2> DEFINE g == Framed(Rtp(sh, j))
  <2>3. Len(g) \in Nat
    <3>1. Rtp(sh, j) \in Seq(Nat)
      BY <2>1, PayloadIsOpus
    <3>2. QED BY <3>1, FrameBytes
  <2> HIDE DEF g
  <2>4. /\ pos[j] \in Nat /\ pos[j - 1] \in Nat /\ pos[i] \in Nat /\ pos[i] <= pos[j - 1]
        /\ fewer[j] = pos[j] - pos[i] /\ fewer[j - 1] = pos[j - 1] - pos[i]
        /\ pos[j] <= Len(s)
    <3>1. pos[j] <= pos[n]
      BY <1>3, <1>6, <2>1
    <3>2. QED BY <1>1, <1>4, <2>1, <3>1
  <2>5. pos[j] = pos[j - 1] + Len(g)
    BY <2>2 DEF g
  <2>6. \A x \in 1..Len(g) : fewer[j - 1] + x \in 1..Len(u) /\ pos[i] + (fewer[j - 1] + x) = pos[j - 1] + x
    <3>1. Len(s) \in Nat
      BY <1>1, LenProperties
    <3>3. Len(u) = Len(s) - pos[i]
      BY <1>0
    <3>4. \A x \in 1..Len(g) : /\ (pos[j - 1] - pos[i]) + x \in 1..Len(s) - pos[i]
                              /\ pos[i] + ((pos[j - 1] - pos[i]) + x) = pos[j - 1] + x
      <4> SUFFICES ASSUME NEW x \in 1..Len(g)
                   PROVE  /\ (pos[j - 1] - pos[i]) + x \in 1..Len(s) - pos[i]
                          /\ pos[i] + ((pos[j - 1] - pos[i]) + x) = pos[j - 1] + x
        OBVIOUS
      <4>1. x \in Nat /\ 1 <= x /\ x <= Len(g)
        BY <2>3
      <4>2. pos[j - 1] + x <= Len(s)
        BY <2>3, <2>4, <2>5, <4>1, <3>1
      <4>4. pos[i] \in Nat /\ pos[j - 1] \in Nat /\ pos[i] <= pos[j - 1]
        BY <2>4
      <4> DEFINE a == pos[i]
                 c == pos[j - 1]
                 m == Len(s)
      <4>5. a \in Nat /\ c \in Nat /\ m \in Nat /\ x \in Nat /\ a <= c /\ 1 <= x /\ c + x <= m
        BY <3>1, <4>1, <4>2, <4>4
      <4> HIDE DEF a, c, m
      <4>6. (c - a) + x \in 1..m - a /\ a + ((c - a) + x) = c + x
        BY <4>5
      <4>7. QED BY <4>6 DEF a, c, m
    <3>5. QED BY <2>4, <3>3, <3>4
  <2>7. \A x \in 1..Len(g) : u[fewer[j - 1] + x] = s[pos[j - 1] + x]
    BY <1>0, <2>6
  <2>8. \A x \in 1..Len(g) : u[fewer[j - 1] + x] = g[x]
    BY <2>2, <2>7 DEF g
  <2>9. fewer[j] = fewer[j - 1] + Len(g)
    <3>1. \A a, c, d, l \in Nat : d = c + l => d - a = (c - a) + l
      OBVIOUS
    <3>2. QED BY <2>3, <2>4, <2>5, <3>1, SMTT(30)
  <2>10. QED BY <2>8, <2>9 DEF g, FrameAt
<1>10. FramesIn(u, i, n, fewer)
  BY <1>0, <1>1, <1>5, <1>7, <1>8, <1>9 DEF FramesIn
<1>11. QED BY <1>10

\* The bytes of a sequence from one offset on.
LEMMA Behind ==
    ASSUME NEW b \in Seq(Nat), NEW c \in Nat, c <= Len(b)
    PROVE  /\ SubSeq(b, c + 1, Len(b)) \in Seq(Nat)
           /\ Len(SubSeq(b, c + 1, Len(b))) = Len(b) - c
           /\ \A x \in 1..Len(b) - c : SubSeq(b, c + 1, Len(b))[x] = b[c + x]
<1> DEFINE w == SubSeq(b, c + 1, Len(b))
           Q == Len(b)
<1>1. Q \in Nat /\ \A x \in 1..Q : b[x] \in Nat
  BY LenProperties, ElementOfSeq
<1>2. c + 1 \in Int /\ Q \in Int /\ (\A x \in c + 1..Q : b[x] \in Nat)
  BY <1>1
<1>3. /\ w \in Seq(Nat) /\ Len(w) = IF c + 1 <= Q THEN Q - (c + 1) + 1 ELSE 0
      /\ \A x \in 1..Q - (c + 1) + 1 : w[x] = b[(c + 1) + x - 1]
  BY <1>2, SubSeqProperties, SMTT(30)
<1> HIDE DEF w
<1>4. Len(w) = Q - c
  BY <1>1, <1>3
<1>5. \A x \in 1..Q - c : x \in 1..Q - (c + 1) + 1 /\ (c + 1) + x - 1 = c + x
  BY <1>1
<1>6. w \in Seq(Nat) /\ \A x \in 1..Q - c : w[x] = b[c + x]
  BY <1>3, <1>5
<1>7. QED BY <1>4, <1>6 DEF w

\* What a read keeps and what it leaves is the bytes behind the packets it releases.
LEMMA ReadCuts ==
    ASSUME NEW k \in Nat, NEW n \in Nat, k <= n, NEW held \in Seq(Nat), NEW queued \in Seq(Nat),
           NEW pos, FramesIn(held \o queued, k, n, pos),
           NEW c \in 1..Len(queued), NEW t, t = PushRtp(held, SubSeq(queued, 1, c)), t.valid
    PROVE  \E i \in k..n :
               /\ t.rest \in Seq(Nat) /\ SubSeq(queued, c + 1, Len(queued)) \in Seq(Nat)
               /\ \E fewer : FramesIn(t.rest \o SubSeq(queued, c + 1, Len(queued)), i, n, fewer)
               /\ Ordered(t.packets, k, i) /\ Len(t.packets) <= i - k
<1> DEFINE s == held \o queued
           v == SubSeq(queued, 1, c)
           w == SubSeq(queued, c + 1, Len(queued))
           b == held \o v
           Q == Len(queued)
           H == Len(held)
<1>1. Q \in Nat /\ H \in Nat /\ c \in Nat /\ c <= Q /\ \A x \in 1..Q : queued[x] \in Nat
  BY LenProperties, ElementOfSeq
<1>2. v \in Seq(Nat) /\ Len(v) = c /\ \A x \in 1..c : v[x] = queued[x]
  <2>1. 1 \in Int /\ c \in Int /\ (\A x \in 1..c : queued[x] \in Nat)
    BY <1>1
  <2>2. /\ v \in Seq(Nat) /\ Len(v) = IF 1 <= c THEN c - 1 + 1 ELSE 0
        /\ \A x \in 1..c - 1 + 1 : v[x] = queued[1 + x - 1]
    BY <2>1, SubSeqProperties
  <2> HIDE DEF v
  <2>3. QED BY <1>1, <2>2
<1>3. w \in Seq(Nat) /\ Len(w) = Q - c /\ \A x \in 1..Q - c : w[x] = queued[c + x]
  BY <1>1, Behind
<1>4. /\ s \in Seq(Nat) /\ Len(s) = H + Q
      /\ \A x \in 1..H : s[x] = held[x]
      /\ \A x \in 1..Q : s[H + x] = queued[x]
  BY Joined
<1> HIDE DEF v, w
<1>5. /\ b \in Seq(Nat) /\ Len(b) = H + c
      /\ \A x \in 1..H : b[x] = held[x]
      /\ \A x \in 1..c : b[H + x] = v[x]
  BY <1>2, Joined
<1> HIDE DEF b, s, H, Q
<1>6. \A x \in 1..H + c : b[x] = s[x]
  <2> SUFFICES ASSUME NEW x \in 1..H + c PROVE b[x] = s[x]
    OBVIOUS
  <2>1. CASE x <= H
    <3>1. x \in 1..H
      BY <1>1, <2>1
    <3>2. QED BY <1>4, <1>5, <3>1
  <2>2. CASE ~(x <= H)
    <3>1. x - H \in 1..c /\ x - H \in 1..Q /\ H + (x - H) = x
      BY <1>1, <2>2
    <3>2. b[H + (x - H)] = v[x - H] /\ s[H + (x - H)] = queued[x - H]
      BY <1>4, <1>5, <3>1
    <3>3. QED BY <1>2, <3>1, <3>2
  <2>3. QED BY <2>1, <2>2
<1>7. FramesIn(s, k, n, pos)
  BY DEF s
<1>8. Parsed(b, Turns(b)[0], k, n, pos)
  <2>1. Len(b) <= Len(s) /\ \A x \in 1..Len(b) : b[x] = s[x]
    BY <1>1, <1>4, <1>5, <1>6
  <2>2. QED BY <1>5, <1>7, <2>1, Parsing
<1>9. t = Turns(b)[0]
  BY DEF PushRtp, b, v
<1>10. PICK i \in k..n :
         /\ pos[i] <= Len(b)
         /\ t.rest = SubSeq(b, pos[i] + 1, Len(b))
         /\ Ordered(t.packets, k, i) /\ Len(t.packets) <= i - k
  BY <1>8, <1>9 DEF Parsed
<1> DEFINE p == pos[i]
           L == Len(b)
           r == t.rest
<1>11. p \in Nat /\ L \in Nat /\ p <= L
  <2>0. i \in Nat
    OBVIOUS
  <2>1. pos \in [Nat -> Nat]
    BY <1>7 DEF FramesIn
  <2>2. QED BY <1>1, <1>5, <1>10, <2>0, <2>1
<1>12. r \in Seq(Nat) /\ Len(r) = L - p /\ \A x \in 1..L - p : r[x] = b[p + x]
  <2>1. r = SubSeq(b, p + 1, Len(b))
    BY <1>10
  <2>2. b \in Seq(Nat) /\ p \in Nat /\ p <= Len(b)
    BY <1>5, <1>11
  <2> HIDE DEF p, r
  <2>3. /\ SubSeq(b, p + 1, Len(b)) \in Seq(Nat)
        /\ Len(SubSeq(b, p + 1, Len(b))) = Len(b) - p
        /\ \A x \in 1..Len(b) - p : SubSeq(b, p + 1, Len(b))[x] = b[p + x]
    BY <2>2, Behind
  <2>4. QED BY <2>1, <2>3
<1> HIDE DEF r
<1> DEFINE u == r \o w
<1>13. /\ u \in Seq(Nat) /\ Len(u) = Len(r) + Len(w)
       /\ \A x \in 1..Len(r) : u[x] = r[x]
       /\ \A x \in 1..Len(w) : u[Len(r) + x] = w[x]
  BY <1>3, <1>12, Joined
<1> HIDE DEF u
<1>14. Len(u) = Len(s) - p
  <2>1. L = H + c
    BY <1>5
  <2> HIDE DEF p, L
  <2>2. QED BY <1>1, <1>3, <1>4, <1>11, <1>12, <1>13, <2>1
<1>15. \A x \in 1..Len(u) : u[x] = s[p + x]
  <2>0. L = H + c
    BY <1>5
  <2> HIDE DEF p, L
  <2> SUFFICES ASSUME NEW x \in 1..Len(u) PROVE u[x] = s[p + x]
    OBVIOUS
  <2>1. Len(u) = (H + Q) - p /\ x \in Nat /\ 1 <= x /\ x <= (H + Q) - p
    BY <1>1, <1>4, <1>11, <1>14
  <2>2. CASE x <= L - p
    <3>1. x \in 1..L - p
      BY <1>11, <2>1, <2>2
    <3>2. x \in 1..Len(r)
      BY <1>12, <3>1
    <3>3. p + x \in 1..H + c
      BY <1>11, <2>0, <2>1, <2>2
    <3>4. QED BY <1>6, <1>12, <1>13, <3>1, <3>2, <3>3
  <2>3. CASE ~(x <= L - p)
    <3> DEFINE y == x - (L - p)
    <3>1. y \in 1..Q - c /\ (L - p) + y = x /\ c + y \in 1..Q /\ H + (c + y) = p + x
      BY <1>1, <1>11, <2>0, <2>1, <2>3
    <3> HIDE DEF y
    <3>2. u[(L - p) + y] = w[y] /\ w[y] = queued[c + y]
      BY <1>3, <1>12, <1>13, <3>1
    <3>3. s[H + (c + y)] = queued[c + y]
      BY <1>4, <3>1
    <3>4. QED BY <3>1, <3>2, <3>3
  <2>4. QED BY <2>2, <2>3
<1>16. \E fewer : FramesIn(u, i, n, fewer)
  <2>1. IsBehind(u, s, pos[i])
    BY <1>13, <1>14, <1>15 DEF IsBehind
  <2> HIDE DEF p, L
  <2>2. QED BY <1>7, <2>1, FewerFrames
<1>17. t.rest \in Seq(Nat) /\ w \in Seq(Nat)
  BY <1>3, <1>12 DEF r
<1>18. QED BY <1>10, <1>16, <1>17 DEF u, r, w

-----------------------------------------------------------------------------
(* The invariant: where each packet is. *)

\* The packets behind the k-th are still bytes.
Waits(k) == \E pos : FramesIn(buffer \o pipe, k, produced, pos)

\* Of the others some are written and some wait, in their order; the rest was dropped.
Released(k) ==
    /\ \A x \in 1..Len(wire) :
          /\ wire[x].seq = x - 1
          /\ wire[x].packet = Opus(wire[x].packet[2]) /\ wire[x].packet[2] \in 1..k
    /\ \A x, y \in 1..Len(wire) : x < y => wire[x].packet[2] < wire[y].packet[2]
    /\ Ordered(batch, 0, k)
    /\ \A x \in 1..Len(wire), y \in 1..Len(batch) : wire[x].packet[2] < batch[y][2]
    /\ seq = Len(wire) /\ seq + dropped + Len(batch) <= k

\* Every packet written so far is bytes, released in its order, or dropped.
InOrder == \E k \in 0..produced : Waits(k) /\ Released(k)

\* The inductive invariant, with what the numbers of an attempt and of the packets
\* need to stay within their bounds.
APInv ==
    /\ APTypeOK
    /\ pc = "waiting" => attempt = 0
    /\ pc = "backoff" => attempt < RestartAttempts
    /\ pc = "writing" => batch # <<>>
    /\ late <= seq
    /\ InOrder

\* An encoder that ends takes what waits with it.
LEMMA NothingWaits ==
    ASSUME APTypeOK, InOrder,
           buffer' = <<>>, pipe' = <<>>, batch' = <<>>, UNCHANGED <<produced, wire, seq, dropped>>
    PROVE  InOrder'
<1>1. PICK k \in 0..produced : Released(k)
  BY DEF InOrder
<1>2. produced \in Nat /\ k \in Nat /\ k <= produced /\ produced \in 0..produced
  BY LimitAssumption DEF APTypeOK
<1>3. Waits(produced)'
  <2>1. <<>> \o <<>> = <<>>
    OBVIOUS
  <2>2. FramesIn(buffer' \o pipe', produced', produced', [x \in Nat |-> 0])
    BY <1>2, <2>1, NoFrames
  <2>3. QED BY <2>2 DEF Waits
<1>4. Released(produced)'
  <2>1. Ordered(<<>>, 0, produced)
    BY DEF Ordered
  <2>2. \A x \in 1..Len(wire) : wire[x].packet[2] \in 1..produced
    BY <1>1, <1>2 DEF Released
  <2>3. seq + dropped + 0 <= produced
    <3>1. Len(batch) \in Nat /\ seq \in Nat /\ dropped \in Nat
      BY LenProperties, LimitAssumption DEF APTypeOK
    <3>2. seq + dropped + Len(batch) <= k
      BY <1>1 DEF Released
    <3>3. QED BY <1>2, <3>1, <3>2
  <2>4. Len(<<>>) = 0
    OBVIOUS
  <2>5. QED BY <1>1, <2>1, <2>2, <2>3, <2>4 DEF Released
<1>5. QED BY <1>2, <1>3, <1>4 DEF InOrder

\* What a sequence of packets is without its first one.
LEMMA WithoutHead ==
    ASSUME NEW k \in Nat, Ordered(batch, 0, k), batch # <<>>
    PROVE  /\ Ordered(Tail(batch), 0, k) /\ Len(Tail(batch)) = Len(batch) - 1 /\ Len(batch) \in Nat \ {0}
           /\ Head(batch) \in Seq(Nat) /\ Head(batch) = batch[1] /\ 1 \in 1..Len(batch)
           /\ \A x \in 1..Len(Tail(batch)) : Tail(batch)[x] = batch[x + 1] /\ x + 1 \in 1..Len(batch)
<1>1. batch \in Seq(Seq(Nat))
  BY DEF Ordered
<1>2. /\ Head(batch) \in Seq(Nat) /\ Head(batch) = batch[1]
      /\ Tail(batch) \in Seq(Seq(Nat)) /\ Len(Tail(batch)) = Len(batch) - 1
      /\ \A x \in 1..Len(Tail(batch)) : Tail(batch)[x] = batch[x + 1]
  BY <1>1, HeadTailProperties
<1>3. Len(batch) \in Nat /\ Len(Tail(batch)) \in Nat
  BY <1>1, <1>2, LenProperties
<1>4. Len(batch) # 0 /\ 1 \in 1..Len(batch) /\ \A x \in 1..Len(Tail(batch)) : x + 1 \in 1..Len(batch)
  BY <1>2, <1>3
<1>5. Ordered(Tail(batch), 0, k)
  <2> DEFINE q == Tail(batch)
  <2>1. \A x \in 1..Len(q) : q[x] = Opus(q[x][2]) /\ q[x][2] \in 0 + 1..k
    BY <1>2, <1>4 DEF Ordered
  <2>2. \A x, y \in 1..Len(q) : x < y => q[x][2] < q[y][2]
    <3> SUFFICES ASSUME NEW x \in 1..Len(q), NEW y \in 1..Len(q), x < y PROVE q[x][2] < q[y][2]
      OBVIOUS
    <3>1. q[x] = batch[x + 1] /\ q[y] = batch[y + 1] /\ x + 1 \in 1..Len(batch) /\ y + 1 \in 1..Len(batch)
      BY <1>2, <1>4
    <3>2. x + 1 < y + 1
      BY <1>3
    <3>3. batch[x + 1][2] < batch[y + 1][2]
      BY <3>1, <3>2 DEF Ordered
    <3>4. QED BY <3>1, <3>3
  <2> HIDE DEF q
  <2>3. q \in Seq(Seq(Nat))
    BY <1>2 DEF q
  <2>4. Ordered(q, 0, k)
    BY <2>1, <2>2, <2>3 DEF Ordered
  <2>5. QED BY <2>4 DEF q
<1>6. QED BY <1>2, <1>3, <1>4, <1>5

\* A packet that is dropped leaves the others in order.
LEMMA DropsHead ==
    ASSUME APTypeOK, InOrder, batch # <<>>,
           batch' = Tail(batch), dropped' = dropped + 1,
           UNCHANGED <<buffer, pipe, produced, wire, seq>>
    PROVE  InOrder'
<1>1. PICK k \in 0..produced : Waits(k) /\ Released(k)
  BY DEF InOrder
<1>2. produced \in Nat /\ k \in Nat /\ seq \in Nat /\ dropped \in Nat
  BY LimitAssumption DEF APTypeOK
<1>3. Waits(k)'
  BY <1>1 DEF Waits
<1>4. /\ Ordered(batch', 0, k) /\ Len(batch') = Len(batch) - 1 /\ Len(batch) \in Nat \ {0}
      /\ \A x \in 1..Len(batch') : batch'[x] = batch[x + 1] /\ x + 1 \in 1..Len(batch)
  BY <1>1, <1>2, WithoutHead DEF Released
<1>5. \A x \in 1..Len(wire), y \in 1..Len(batch') : wire[x].packet[2] < batch'[y][2]
  BY <1>1, <1>4 DEF Released
<1>6. seq' + dropped' + Len(batch') <= k
  <2>1. seq + dropped + Len(batch) <= k
    BY <1>1 DEF Released
  <2>2. seq' = seq /\ dropped' = dropped + 1
    OBVIOUS
  <2>3. QED BY <1>2, <1>4, <2>1, <2>2
<1>7. Released(k)'
  BY <1>1, <1>4, <1>5, <1>6 DEF Released
<1>8. QED BY <1>1, <1>3, <1>7 DEF InOrder

\* The packet that is written goes behind those on the wire and before the rest.
LEMMA WritesHead ==
    ASSUME APTypeOK, InOrder, batch # <<>>,
           wire' = Append(wire, [seq |-> seq, packet |-> Head(batch)]), seq' = seq + 1,
           batch' = Tail(batch), UNCHANGED <<buffer, pipe, produced, dropped>>
    PROVE  InOrder'
<1>1. PICK k \in 0..produced : Waits(k) /\ Released(k)
  BY DEF InOrder
<1>2. produced \in Nat /\ k \in Nat /\ seq \in Nat /\ dropped \in Nat
  BY LimitAssumption DEF APTypeOK
<1>3. Waits(k)'
  BY <1>1 DEF Waits
<1>4. /\ Ordered(batch', 0, k) /\ Len(batch') = Len(batch) - 1 /\ Len(batch) \in Nat \ {0}
      /\ \A x \in 1..Len(batch') : batch'[x] = batch[x + 1] /\ x + 1 \in 1..Len(batch)
      /\ Head(batch) = batch[1] /\ 1 \in 1..Len(batch)
  BY <1>1, <1>2, WithoutHead DEF Released
<1> DEFINE n == Len(wire)
           m == [seq |-> seq, packet |-> Head(batch)]
<1>5. n \in Nat /\ Len(wire') = n + 1 /\ (\A x \in 1..n : wire'[x] = wire[x]) /\ wire'[n + 1] = m
  <2>1. wire \in Seq([seq : 0..MaxPackets, packet : Seq(Byte)])
    BY DEF APTypeOK
  <2>2. QED BY <2>1, LenProperties
<1>6. n = seq /\ m.seq = seq /\ m.packet = batch[1]
  BY <1>1, <1>4 DEF Released
<1> HIDE DEF n, m
<1>7. /\ batch[1] = Opus(batch[1][2]) /\ batch[1][2] \in 1..k
      /\ \A x \in 1..n : wire[x].packet[2] < batch[1][2]
      /\ \A y \in 1..Len(batch') : batch[1][2] < batch'[y][2]
  <2>1. batch[1] = Opus(batch[1][2]) /\ batch[1][2] \in 1..k
    BY <1>1, <1>4 DEF Released, Ordered
  <2>2. \A x \in 1..n : wire[x].packet[2] < batch[1][2]
    BY <1>1, <1>4 DEF Released, n
  <2>3. ASSUME NEW y \in 1..Len(batch') PROVE batch[1][2] < batch'[y][2]
    <3>1. batch'[y] = batch[y + 1] /\ y + 1 \in 1..Len(batch) /\ 1 < y + 1
      BY <1>4
    <3>2. batch[1][2] < batch[y + 1][2]
      BY <1>1, <1>4, <3>1 DEF Released, Ordered
    <3>3. QED BY <3>1, <3>2
  <2>4. QED BY <2>1, <2>2, <2>3
<1>8. \A x \in 1..Len(wire') : x \in 1..n \/ x = n + 1
  BY <1>5
<1>9. ASSUME NEW x \in 1..Len(wire')
      PROVE  /\ wire'[x].seq = x - 1
             /\ wire'[x].packet = Opus(wire'[x].packet[2]) /\ wire'[x].packet[2] \in 1..k
  <2>1. CASE x \in 1..n
    BY <1>1, <1>5, <2>1 DEF Released, n
  <2>2. CASE x = n + 1
    <3>1. wire'[x].seq = n /\ wire'[x].packet = batch[1] /\ x - 1 = n
      BY <1>5, <1>6, <2>2
    <3>2. QED BY <1>7, <3>1
  <2>3. QED BY <1>8, <2>1, <2>2
<1>10. ASSUME NEW x \in 1..Len(wire'), NEW y \in 1..Len(wire'), x < y
       PROVE  wire'[x].packet[2] < wire'[y].packet[2]
  <2>1. x \in 1..n
    BY <1>5, <1>8, <1>10
  <2>2. CASE y \in 1..n
    BY <1>1, <1>5, <1>10, <2>1, <2>2 DEF Released, n
  <2>3. CASE y = n + 1
    BY <1>5, <1>6, <1>7, <2>1, <2>3
  <2>4. QED BY <1>8, <2>2, <2>3
<1>11. ASSUME NEW x \in 1..Len(wire'), NEW y \in 1..Len(batch')
       PROVE  wire'[x].packet[2] < batch'[y][2]
  <2>1. CASE x \in 1..n
    <3>1. wire[x].packet[2] < batch[y + 1][2]
      BY <1>1, <1>4, <2>1 DEF Released, n
    <3>2. QED BY <1>4, <1>5, <2>1, <3>1
  <2>2. CASE x = n + 1
    BY <1>5, <1>6, <1>7, <2>2
  <2>3. QED BY <1>8, <2>1, <2>2
<1>12. seq' = Len(wire') /\ seq' + dropped' + Len(batch') <= k
  <2>1. seq + dropped + Len(batch) <= k
    BY <1>1 DEF Released
  <2>2. seq' = seq + 1 /\ dropped' = dropped
    OBVIOUS
  <2>3. QED BY <1>2, <1>4, <1>5, <1>6, <2>1, <2>2
<1>13. Released(k)'
  BY <1>4, <1>9, <1>10, <1>11, <1>12 DEF Released
<1>14. QED BY <1>1, <1>3, <1>13 DEF InOrder

\* A frame more is behind all the others.
LEMMA WritesFrame ==
    ASSUME APTypeOK, InOrder, NEW shape \in Shape,
           produced' = produced + 1, pipe' = pipe \o Framed(Rtp(shape, produced')),
           UNCHANGED <<buffer, batch, wire, seq, dropped>>
    PROVE  InOrder' /\ pipe' \in Seq(Nat)
<1>1. PICK k \in 0..produced : Waits(k) /\ Released(k)
  BY DEF InOrder
<1>2. produced \in Nat /\ k \in Nat /\ k <= produced /\ k \in 0..produced' /\ produced' \in Nat
  BY LimitAssumption DEF APTypeOK
<1> DEFINE f == Framed(Rtp(shape, produced + 1))
<1>3. f \in Seq(Nat) /\ buffer \in Seq(Nat) /\ pipe \in Seq(Nat)
  <2>1. produced + 1 \in Nat
    BY <1>2
  <2>2. Rtp(shape, produced + 1) \in Seq(Nat)
    BY <2>1, PayloadIsOpus
  <2>3. f \in Seq(Nat)
    BY <2>2, FrameBytes
  <2> HIDE DEF f
  <2>4. QED BY <2>3 DEF APTypeOK, Byte
<1>4. PICK pos : FramesIn(buffer \o pipe, k, produced, pos)
  BY <1>1 DEF Waits
<1>5. \E more : FramesIn((buffer \o pipe) \o f, k, produced + 1, more)
  BY <1>2, <1>4, MoreFrames
<1> HIDE DEF f
<1>6. (buffer \o pipe) \o f = buffer \o (pipe \o f)
  <2>1. \A a, b, c \in Seq(Nat) : (a \o b) \o c = a \o (b \o c)
    BY SMTT(60)
  <2>2. QED BY <1>3, <2>1
<1>7. pipe' = pipe \o f /\ buffer' = buffer
  BY DEF f
<1>8. Waits(k)'
  <2>1. \E more : FramesIn(buffer' \o pipe', k, produced', more)
    BY <1>5, <1>6, <1>7
  <2>2. QED BY <2>1 DEF Waits
<1>9. Released(k)'
  BY <1>1 DEF Released
<1>10. pipe' \in Seq(Nat)
  BY <1>3, <1>7, ConcatProperties
<1>11. QED BY <1>2, <1>8, <1>9, <1>10 DEF InOrder

\* The freshest of the packets of a read.
LEMMA Freshest ==
    ASSUME NEW q, NEW low \in Nat, NEW high \in Nat, Ordered(q, low, high), NEW d \in Nat, d <= Len(q)
    PROVE  /\ Ordered(SubSeq(q, d + 1, Len(q)), low, high)
           /\ Len(SubSeq(q, d + 1, Len(q))) = Len(q) - d /\ Len(q) \in Nat
<1> DEFINE w == SubSeq(q, d + 1, Len(q))
           Q == Len(q)
<1>0. q \in Seq(Seq(Nat))
  BY DEF Ordered
<1>1. Q \in Nat /\ \A x \in 1..Q : q[x] \in Seq(Nat)
  BY <1>0, LenProperties, ElementOfSeq
<1>2. d + 1 \in Int /\ Q \in Int /\ (\A x \in d + 1..Q : q[x] \in Seq(Nat))
  BY <1>1
<1>3. /\ w \in Seq(Seq(Nat)) /\ Len(w) = IF d + 1 <= Q THEN Q - (d + 1) + 1 ELSE 0
      /\ \A x \in 1..Q - (d + 1) + 1 : w[x] = q[(d + 1) + x - 1]
  BY <1>2, SubSeqProperties
<1> HIDE DEF w
<1>4. Len(w) = Q - d
  BY <1>1, <1>3
<1>5. \A x \in 1..Len(w) : x \in 1..Q - (d + 1) + 1 /\ (d + 1) + x - 1 = d + x /\ d + x \in 1..Q
  BY <1>1, <1>4
<1>6. \A x \in 1..Len(w) : w[x] = q[d + x] /\ d + x \in 1..Q
  BY <1>3, <1>5
<1>7. \A x \in 1..Len(w) : w[x] = Opus(w[x][2]) /\ w[x][2] \in low + 1..high
  BY <1>6 DEF Ordered
<1>8. ASSUME NEW x \in 1..Len(w), NEW y \in 1..Len(w), x < y PROVE w[x][2] < w[y][2]
  <2>1. d + x < d + y
    BY <1>1, <1>4, <1>8
  <2>2. q[d + x][2] < q[d + y][2]
    BY <1>6, <2>1 DEF Ordered
  <2>3. QED BY <1>6, <2>2
<1>9. Ordered(w, low, high)
  BY <1>3, <1>7, <1>8 DEF Ordered
<1>10. QED BY <1>1, <1>4, <1>9 DEF w

\* A read releases packets that are behind all on the wire.
LEMMA ReadsOn ==
    ASSUME APTypeOK, InOrder, Read
    PROVE  /\ InOrder' /\ buffer' \in Seq(Nat) /\ pipe' \in Seq(Nat)
           /\ batch' \in Seq(Seq(Nat)) /\ Len(batch') <= MaxBatch /\ dropped' \in Nat
<1>1. PICK k \in 0..produced : Waits(k) /\ Released(k)
  BY DEF InOrder
<1>2. /\ produced \in Nat /\ k \in Nat /\ k <= produced /\ seq \in Nat /\ dropped \in Nat
      /\ MaxBatch \in Nat /\ buffer \in Seq(Nat) /\ pipe \in Seq(Nat)
  BY LimitAssumption DEF APTypeOK, Byte
<1>3. batch = <<>> /\ UNCHANGED <<produced, seq, wire>>
  BY DEF Read, Selecting
<1>4. PICK n \in 1..Len(pipe) :
        LET pushed == Pushed(n)
            count == Len(pushed.packets)
            stale == IF count > MaxBatch THEN count - MaxBatch ELSE 0
        IN  /\ pushed.valid
            /\ batch' = SubSeq(pushed.packets, stale + 1, count)
            /\ buffer' = pushed.rest
            /\ pipe' = SubSeq(pipe, n + 1, Len(pipe))
            /\ dropped' = dropped + stale
  BY DEF Read
<1> DEFINE t == Pushed(n)
           q == t.packets
           stale == IF Len(q) > MaxBatch THEN Len(q) - MaxBatch ELSE 0
<1>5. /\ t = PushRtp(buffer, SubSeq(pipe, 1, n)) /\ t.valid
      /\ batch' = SubSeq(q, stale + 1, Len(q)) /\ buffer' = t.rest
      /\ pipe' = SubSeq(pipe, n + 1, Len(pipe)) /\ dropped' = dropped + stale
  BY <1>4 DEF Pushed
<1>6. PICK pos : FramesIn(buffer \o pipe, k, produced, pos)
  BY <1>1 DEF Waits
<1> HIDE DEF t
<1>7. PICK i \in k..produced :
        /\ t.rest \in Seq(Nat) /\ SubSeq(pipe, n + 1, Len(pipe)) \in Seq(Nat)
        /\ \E fewer : FramesIn(t.rest \o SubSeq(pipe, n + 1, Len(pipe)), i, produced, fewer)
        /\ Ordered(q, k, i) /\ Len(q) <= i - k
  BY <1>2, <1>5, <1>6, ReadCuts
<1> HIDE DEF q
<1>8. i \in Nat /\ k <= i /\ i \in 0..produced /\ Len(q) \in Nat /\ i \in 0..produced'
  BY <1>2, <1>3, <1>7, LenProperties DEF Ordered
<1>9. stale \in Nat /\ stale <= Len(q) /\ Len(q) - stale <= MaxBatch
  BY <1>2, <1>8
<1> HIDE DEF stale
<1>10. Ordered(batch', k, i) /\ Len(batch') = Len(q) - stale
  BY <1>2, <1>5, <1>7, <1>8, <1>9, Freshest
<1>11. Waits(i)'
  BY <1>3, <1>5, <1>7 DEF Waits
<1>12. Released(i)'
  <2>1. \A x : (x \in 1..k => x \in 1..i) /\ (x \in k + 1..i => x \in 0 + 1..i)
    BY <1>2, <1>8
  <2>2. /\ \A x \in 1..Len(wire) :
              /\ wire[x].seq = x - 1
              /\ wire[x].packet = Opus(wire[x].packet[2]) /\ wire[x].packet[2] \in 1..k
        /\ \A x, y \in 1..Len(wire) : x < y => wire[x].packet[2] < wire[y].packet[2]
        /\ seq = Len(wire)
    BY <1>1 DEF Released
  <2>3. Ordered(batch', 0, i)
    BY <1>10, <2>1 DEF Ordered
  <2>4. ASSUME NEW x \in 1..Len(wire), NEW y \in 1..Len(batch')
        PROVE  wire[x].packet[2] < batch'[y][2]
    <3>1. wire[x].packet[2] \in 1..k /\ batch'[y][2] \in k + 1..i
      BY <1>10, <2>2 DEF Ordered
    <3>2. \A a \in 1..k, c \in k + 1..i : a < c
      BY <1>2, <1>8
    <3>3. QED BY <3>1, <3>2
  <2>5. seq + (dropped + stale) + (Len(q) - stale) <= i
    <3>1. seq + dropped + 0 <= k
      BY <1>1, <1>3 DEF Released
    <3>2. Len(q) <= i - k
      BY <1>7
    <3>3. QED BY <1>2, <1>8, <1>9, <3>1, <3>2
  <2>6. seq' + dropped' + Len(batch') <= i
    BY <1>3, <1>5, <1>10, <2>5
  <2>7. QED BY <1>3, <2>1, <2>2, <2>3, <2>4, <2>6 DEF Released
<1>13. InOrder'
  BY <1>8, <1>11, <1>12 DEF InOrder
<1>14. batch' \in Seq(Seq(Nat)) /\ Len(batch') <= MaxBatch /\ dropped' \in Nat
  BY <1>2, <1>5, <1>9, <1>10 DEF Ordered
<1>15. QED BY <1>5, <1>7, <1>13, <1>14

-----------------------------------------------------------------------------

\* Nothing is there when the task starts.
LEMMA InOrderInit == APInit => APInv
<1> SUFFICES ASSUME APInit PROVE APInv
  OBVIOUS
<1>1. APTypeOK
  <2>1. MaxPackets \in Nat /\ RestartAttempts \in Nat /\ MaxBatch \in Nat
    BY LimitAssumption
  <2>2. <<>> \in Seq(Byte) /\ <<>> \in Seq(Seq(Byte)) /\ Len(<<>>) = 0
        /\ <<>> \in Seq([seq : 0..MaxPackets, packet : Seq(Byte)])
    OBVIOUS
  <2>3. 0 \in 0..MaxPackets /\ 0 \in 0..RestartAttempts /\ 0 <= MaxBatch
    BY <2>1
  <2>4. QED BY <2>2, <2>3 DEF APInit, APTypeOK, PcState
<1>2. Waits(0)
  <2>1. <<>> \o <<>> = <<>>
    OBVIOUS
  <2>2. FramesIn(buffer \o pipe, 0, produced, [x \in Nat |-> 0])
    BY <2>1, NoFrames DEF APInit
  <2>3. QED BY <2>2 DEF Waits
<1>3. Released(0)
  BY DEF Released, Ordered, APInit
<1>4. 0 \in 0..produced
  BY DEF APInit
<1>5. InOrder
  BY <1>2, <1>3, <1>4 DEF InOrder
<1>6. QED BY <1>1, <1>5 DEF APInv, APInit

\* The counters stay within their bound as long as the packets are in order.
LEMMA Counts ==
    ASSUME InOrder, produced \in 0..MaxPackets, seq \in Nat, dropped \in Nat, batch \in Seq(Seq(Nat))
    PROVE  seq \in 0..MaxPackets /\ dropped \in 0..MaxPackets
<1>1. PICK k \in 0..produced : Released(k)
  BY DEF InOrder
<1>2. Len(batch) \in Nat
  BY LenProperties
<1>3. seq + dropped + Len(batch) <= k
  BY <1>1 DEF Released
<1>4. k \in Nat /\ k <= MaxPackets /\ MaxPackets \in Nat
  BY LimitAssumption
<1>5. QED BY <1>2, <1>3, <1>4

\* Every step moves packets along and never past one another.
LEMMA InOrderNext == APInv /\ [APNext]_apVars => APInv'
<1> SUFFICES ASSUME APInv, [APNext]_apVars PROVE APInv'
  OBVIOUS
<1> USE LimitAssumption
<1>0. APTypeOK /\ InOrder /\ late <= seq
  BY DEF APInv
<1>a. /\ produced \in Nat /\ seq \in Nat /\ dropped \in Nat /\ late \in Nat /\ attempt \in Nat
      /\ MaxPackets \in Nat /\ RestartAttempts \in Nat \ {0} /\ attempt <= RestartAttempts
  BY <1>0 DEF APTypeOK
<1> DEFINE kept == <<produced, pipe, buffer, batch, seq, wire, dropped>>
<1>b. ASSUME UNCHANGED kept PROVE InOrder'
  BY <1>0, <1>b DEF InOrder, Waits, Released, Ordered
<1>c. ASSUME buffer' = <<>>, pipe' = <<>>, batch' = <<>>, UNCHANGED <<produced, output>>
      PROVE  InOrder'
  BY <1>0, <1>c, NothingWaits DEF output
<1>1. CASE StreamOpens \/ DropHandle \/ EncoderDies \/ SeeOpen \/ StartEncoder \/ Retry \/ Offer
           \/ UNCHANGED apVars
  <2>1. UNCHANGED kept /\ late' = late
    BY <1>1 DEF StreamOpens, DropHandle, EncoderDies, SeeOpen, StartEncoder, Retry, Offer, apVars, output
  <2>2. APTypeOK'
    <3>1. attempt' \in 0..RestartAttempts
      BY <1>1, <1>a DEF APInv, StreamOpens, DropHandle, EncoderDies, SeeOpen, StartEncoder, Retry, Offer, apVars, env
    <3>2. pc' \in PcState /\ stop' \in {"armed", "sent", "taken"}
      BY <1>1, <1>0 DEF APTypeOK, PcState, StreamOpens, DropHandle, EncoderDies, SeeOpen, StartEncoder,
         Retry, Offer, apVars, env
    <3>3. open' \in BOOLEAN /\ muted' \in BOOLEAN /\ capturing' \in BOOLEAN /\ failure' \in BOOLEAN
      BY <1>1, <1>0 DEF APTypeOK, StreamOpens, DropHandle, EncoderDies, SeeOpen, StartEncoder,
         Retry, Offer, apVars, env
    <3>4. QED BY <1>0, <2>1, <3>1, <3>2, <3>3 DEF APTypeOK
  <2>3. InOrder'
    BY <1>b, <2>1
  <2>4. /\ (pc = "waiting" => attempt = 0)' /\ (pc = "backoff" => attempt < RestartAttempts)'
        /\ (pc = "writing" => batch # <<>>)'
    BY <1>1, <2>1 DEF APInv, StreamOpens, DropHandle, EncoderDies, SeeOpen, StartEncoder, Retry, Offer,
       apVars, env
  <2>5. QED BY <1>0, <2>1, <2>2, <2>3, <2>4 DEF APInv
<1>2. ASSUME NEW value \in BOOLEAN, SetMuted(value) PROVE APInv'
  <2>1. UNCHANGED kept /\ late' \in {0, late} /\ muted' \in BOOLEAN
        /\ UNCHANGED <<pc, attempt, stop, open, capturing, failure>>
    BY <1>2 DEF SetMuted
  <2>2. InOrder'
    BY <1>b, <2>1
  <2>3. APTypeOK' /\ late' <= seq'
    BY <1>0, <1>a, <2>1 DEF APTypeOK
  <2>4. QED BY <2>1, <2>2, <2>3 DEF APInv
<1>3. ASSUME NEW p \in PcState \ {"waiting", "writing"},
             pc' = p, p = "backoff" => attempt < RestartAttempts, attempt' = attempt,
             stop' \in {"armed", "sent", "taken"}, failure' \in BOOLEAN, capturing' = FALSE,
             open' = open, muted' = muted,
             buffer' = <<>>, pipe' = <<>>, batch' = <<>>, UNCHANGED <<produced, output>>
      PROVE  APInv'
  <2>1. InOrder'
    BY <1>c, <1>3
  <2>2. <<>> \in Seq(Byte) /\ <<>> \in Seq(Seq(Byte)) /\ Len(<<>>) = 0 /\ 0 <= MaxBatch
    OBVIOUS
  <2>3. APTypeOK' /\ late' <= seq'
    BY <1>0, <1>3, <2>2 DEF APTypeOK, output
  <2>4. QED BY <1>3, <2>1, <2>3 DEF APInv
<1>4. CASE CancelWaiting \/ StopBeforeAttempt \/ NoDevice \/ StopInBackoff \/ StopPump \/ SocketClosed
  <2>1. /\ pc' = "ended" /\ attempt' = attempt /\ stop' \in {"armed", "sent", "taken"}
        /\ failure' \in BOOLEAN /\ capturing' = FALSE /\ open' = open /\ muted' = muted
        /\ buffer' = <<>> /\ pipe' = <<>> /\ batch' = <<>> /\ UNCHANGED <<produced, output>>
    BY <1>4, <1>0 DEF APTypeOK, CancelWaiting, StopBeforeAttempt, NoDevice, StopInBackoff, StopPump,
       SocketClosed, End, TakeStop
  <2>2. "ended" \in PcState \ {"waiting", "writing"}
    BY DEF PcState
  <2>3. QED BY <1>3, <2>1, <2>2
<1>5. CASE SpawnFails \/ EndOfPipe \/ ReadFails \/ LosesFraming
  <2>1. PICK reason \in {"error", "ended"} : Give(reason)
    BY <1>5 DEF SpawnFails, EndOfPipe, ReadFails, LosesFraming
  <2>2. /\ pc' = IF attempt >= RestartAttempts THEN "ended" ELSE "backoff"
        /\ attempt' = attempt /\ stop' \in {"armed", "sent", "taken"}
        /\ failure' \in BOOLEAN /\ capturing' = FALSE /\ open' = open /\ muted' = muted
        /\ buffer' = <<>> /\ pipe' = <<>> /\ batch' = <<>> /\ UNCHANGED <<produced, output>>
    BY <2>1, <1>0 DEF APTypeOK, Give, env
  <2>3. /\ pc' \in PcState \ {"waiting", "writing"}
        /\ pc' = "backoff" => attempt < RestartAttempts
    BY <1>a, <2>2 DEF PcState
  <2>4. QED BY <1>3, <2>2, <2>3
<1>6. CASE EncoderWrites
  <2>1. PICK shape \in Shapes[produced'] : pipe' = pipe \o Framed(Rtp(shape, produced'))
    BY <1>6 DEF EncoderWrites
  <2>2. /\ produced' = produced + 1 /\ produced < MaxPackets
        /\ UNCHANGED <<pc, attempt, env, capturing, buffer, batch, output, failure>>
    BY <1>6 DEF EncoderWrites
  <2>3. produced' \in 1..MaxPackets
    BY <1>a, <2>2
  <2>4. shape \in Shape
    BY <2>1, <2>3
  <2>5. InOrder' /\ pipe' \in Seq(Nat)
    BY <1>0, <2>1, <2>2, <2>4, WritesFrame DEF output
  <2>6. APTypeOK'
    BY <1>0, <2>2, <2>3, <2>5 DEF APTypeOK, Byte, env, output
  <2>7. QED BY <1>0, <2>2, <2>5, <2>6 DEF APInv, env, output
<1>7. CASE Read
  <2>1. /\ InOrder' /\ buffer' \in Seq(Nat) /\ pipe' \in Seq(Nat)
        /\ batch' \in Seq(Seq(Nat)) /\ Len(batch') <= MaxBatch /\ dropped' \in Nat
    BY <1>0, <1>7, ReadsOn
  <2>2. /\ UNCHANGED <<pc, attempt, env, capturing, produced, seq, wire, late, failure>>
        /\ pc = "pumping"
    BY <1>7 DEF Read, Selecting
  <2>3. dropped' \in 0..MaxPackets
    <3>1. produced' \in 0..MaxPackets /\ seq' \in Nat
      BY <1>0, <1>a, <2>2 DEF APTypeOK
    <3>2. (InOrder /\ produced \in 0..MaxPackets /\ seq \in Nat /\ dropped \in Nat /\ batch \in Seq(Seq(Nat))
             => dropped \in 0..MaxPackets)'
      BY Counts, PTL
    <3>3. QED BY <2>1, <3>1, <3>2
  <2>4. APTypeOK'
    BY <1>0, <2>1, <2>2, <2>3 DEF APTypeOK, Byte, env
  <2>5. QED BY <1>0, <2>1, <2>2, <2>4 DEF APInv
<1>8. CASE DropSilenced \/ SocketBusy
  <2>1. /\ batch # <<>> /\ batch' = Tail(batch) /\ dropped' = dropped + 1 /\ pc' = "pumping"
        /\ UNCHANGED <<attempt, env, capturing, produced, pipe, buffer, seq, wire, late, failure>>
    BY <1>8 DEF APInv, DropSilenced, SocketBusy
  <2>2. InOrder'
    BY <1>0, <2>1, DropsHead
  <2>3. /\ batch' \in Seq(Seq(Nat)) /\ Len(batch') <= MaxBatch /\ dropped' \in 0..MaxPackets
    <3>1. batch \in Seq(Seq(Nat)) /\ Len(batch) <= MaxBatch
      BY <1>0 DEF APTypeOK, Byte
    <3>2. batch' \in Seq(Seq(Nat)) /\ Len(batch') = Len(batch) - 1
      BY <2>1, <3>1, HeadTailProperties
    <3>3. Len(batch) \in Nat /\ MaxBatch \in Nat
      BY <3>1, LenProperties
    <3>4. produced' \in 0..MaxPackets /\ seq' \in Nat /\ dropped' \in Nat
      BY <1>0, <1>a, <2>1 DEF APTypeOK
    <3>5. (InOrder /\ produced \in 0..MaxPackets /\ seq \in Nat /\ dropped \in Nat /\ batch \in Seq(Seq(Nat))
             => dropped \in 0..MaxPackets)'
      BY Counts, PTL
    <3>6. QED BY <2>2, <3>1, <3>2, <3>3, <3>4, <3>5
  <2>4. APTypeOK'
    BY <1>0, <2>1, <2>3 DEF APTypeOK, Byte, PcState, env
  <2>5. QED BY <1>0, <2>1, <2>2, <2>4 DEF APInv
<1>9. CASE Written
  <2>1. /\ batch # <<>> /\ pc' = "pumping" /\ batch' = Tail(batch) /\ seq' = seq + 1
        /\ wire' = Append(wire, [seq |-> seq, packet |-> Head(batch)])
        /\ late' = IF muted THEN late + 1 ELSE late
        /\ UNCHANGED <<attempt, env, capturing, produced, pipe, buffer, dropped, failure>>
    BY <1>9 DEF APInv, Written, Deliver
  <2>2. InOrder'
    BY <1>0, <2>1, WritesHead
  <2>3. batch \in Seq(Seq(Nat)) /\ Len(batch) <= MaxBatch
    BY <1>0 DEF APTypeOK, Byte
  <2>4. /\ batch' \in Seq(Seq(Nat)) /\ Len(batch') <= MaxBatch /\ Head(batch) \in Seq(Nat)
    <3>1. Head(batch) \in Seq(Nat) /\ batch' \in Seq(Seq(Nat)) /\ Len(batch') = Len(batch) - 1
      BY <2>1, <2>3, HeadTailProperties
    <3>2. Len(batch) \in Nat /\ MaxBatch \in Nat
      BY <2>3, LenProperties
    <3>3. QED BY <2>3, <3>1, <3>2
  <2>5. seq' \in 0..MaxPackets
    <3>1. produced' \in 0..MaxPackets /\ seq' \in Nat /\ dropped' \in Nat
      BY <1>0, <1>a, <2>1 DEF APTypeOK
    <3>2. (InOrder /\ produced \in 0..MaxPackets /\ seq \in Nat /\ dropped \in Nat /\ batch \in Seq(Seq(Nat))
             => seq \in 0..MaxPackets)'
      BY Counts, PTL
    <3>3. QED BY <2>2, <2>4, <3>1, <3>2
  <2>6. wire' \in Seq([seq : 0..MaxPackets, packet : Seq(Byte)])
    <3>1. [seq |-> seq, packet |-> Head(batch)] \in [seq : 0..MaxPackets, packet : Seq(Byte)]
      BY <1>0, <2>4 DEF APTypeOK, Byte
    <3>2. wire \in Seq([seq : 0..MaxPackets, packet : Seq(Byte)])
      BY <1>0 DEF APTypeOK
    <3>3. QED BY <2>1, <3>1, <3>2
  <2>7. late' <= seq' /\ late' \in Nat
    BY <1>0, <1>a, <2>1
  <2>8. late' \in 0..MaxPackets
    BY <1>a, <2>5, <2>7
  <2>9. APTypeOK'
    <3>1. pc' \in PcState
      BY <2>1 DEF PcState
    <3>2. UNCHANGED <<attempt, stop, open, muted, capturing, produced, pipe, buffer, dropped, failure>>
      BY <2>1 DEF env
    <3>3. QED BY <1>0, <2>4, <2>5, <2>6, <2>8, <3>1, <3>2 DEF APTypeOK, Byte
  <2>10. QED BY <2>1, <2>2, <2>7, <2>9 DEF APInv
<1>10. QED
  BY <1>1, <1>2, <1>4, <1>5, <1>6, <1>7, <1>8, <1>9 DEF APNext

\* The packets on the wire are those of the monitor, whole and in their order: the
\* inductive invariant says of every packet where it is.
THEOREM PacketsInOrder == APSpec => []NumberedInOrder
<1>1. APInv => NumberedInOrder
  <2> SUFFICES ASSUME APInv PROVE NumberedInOrder
    OBVIOUS
  <2>1. PICK k \in 0..produced : Released(k)
    BY DEF APInv, InOrder
  <2>2. DOMAIN wire = 1..Len(wire)
    BY DEF APInv, APTypeOK
  <2>3. k \in Nat /\ produced \in Nat /\ \A x \in 1..k : x \in 1..produced
    BY LimitAssumption DEF APInv, APTypeOK
  <2> DEFINE which == [x \in DOMAIN wire |-> wire[x].packet[2]]
  <2>4. which \in [DOMAIN wire -> 1..produced]
    BY <2>1, <2>2, <2>3 DEF Released
  <2>5. \A i \in DOMAIN wire : i > 1 => i - 1 \in DOMAIN wire /\ i - 1 < i
    BY <2>2
  <2>6. \A i \in DOMAIN wire :
           wire[i].packet = Opus(which[i]) /\ (i > 1 => which[i - 1] < which[i])
    BY <2>1, <2>2, <2>5 DEF Released
  <2>7. \A i \in DOMAIN wire : wire[i].seq = i - 1
    BY <2>1, <2>2 DEF Released
  <2> HIDE DEF which
  <2>8. QED BY <2>4, <2>6, <2>7 DEF NumberedInOrder, APInv
<1>2. QED BY <1>1, InOrderInit, InOrderNext, PTL DEF APSpec
=============================================================================
