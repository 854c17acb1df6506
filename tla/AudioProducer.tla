--------------------------- MODULE AudioProducer ----------------------------
(***************************************************************************)
(* One desktop audio task (run_audio_stream and pump_audio_stream in       *)
(* src/audio.rs): it waits for the stream to open, runs an encoder, sends  *)
(* its packets, and starts another encoder when one ends.  ScreenSessions  *)
(* sees of it only that it waits, captures or has ended.                   *)
(***************************************************************************)
EXTENDS Naturals, Sequences, SequencesExt, RtpStream

CONSTANTS
    RestartAttempts,  \* RESTART_ATTEMPTS
    MaxBatch,         \* MAX_PACKETS_PER_BATCH
    MaxPackets,       \* bound: packets all encoders write together
    Shapes,           \* bound: the shapes the n-th of these may have
    Cuts              \* bound: how much of a frame a read may leave for the next one

Shape == {"plain", "full", "control", "broken"}

ASSUME LimitAssumption ==
    /\ RestartAttempts \in Nat \ {0}
    /\ MaxBatch \in Nat \ {0}
    /\ MaxPackets \in Nat
    /\ Shapes \in [1..MaxPackets -> SUBSET Shape]
    /\ 0 \in Cuts

VARIABLES
    pc,         \* where the task is
    attempt,    \* encoders tried
    stop,       \* the stop channel: nothing sent, sent, received
    open,       \* the video producer wrote the handshake line
    muted,      \* set_audio_mute and start_audio
    capturing,  \* an encoder process holds the monitor source
    produced,   \* packets written by the encoders so far, numbered from 1
    pipe,       \* bytes in the encoder's pipe
    buffer,     \* the RtpStreamReader: the frame that has not arrived in full
    batch,      \* packets of the last read that are not handled yet
    seq,        \* the next sequence number
    wire,       \* envelopes on the stream socket
    dropped,    \* metrics.dropped
    failure,    \* a reason is recorded for audio_status
    late        \* history: envelopes written since muted was last set

env == <<stop, open, muted>>
output == <<seq, wire, dropped, late>>
apVars == <<pc, attempt, env, capturing, produced, pipe, buffer, batch, output, failure>>

PcState == {"waiting", "starting", "pumping", "writing", "backoff", "ended"}
\* The last byte of an Opus packet stands for all its samples and may be any number.
Byte == Nat

APTypeOK ==
    /\ pc \in PcState
    /\ attempt \in 0..RestartAttempts
    /\ stop \in {"armed", "sent", "taken"}
    /\ open \in BOOLEAN /\ muted \in BOOLEAN /\ capturing \in BOOLEAN /\ failure \in BOOLEAN
    /\ produced \in 0..MaxPackets
    /\ pipe \in Seq(Byte) /\ buffer \in Seq(Byte)
    /\ batch \in Seq(Seq(Byte)) /\ Len(batch) <= MaxBatch
    /\ seq \in 0..MaxPackets /\ dropped \in 0..MaxPackets /\ late \in 0..MaxPackets
    /\ wire \in Seq([seq : 0..MaxPackets, packet : Seq(Byte)])

APInit ==
    /\ pc = "waiting" /\ attempt = 0
    /\ stop = "armed" /\ open = FALSE /\ muted = FALSE
    /\ capturing = FALSE /\ produced = 0 /\ pipe = <<>> /\ buffer = <<>> /\ batch = <<>>
    /\ seq = 0 /\ wire = <<>> /\ dropped = 0 /\ late = 0
    /\ failure = FALSE

-----------------------------------------------------------------------------
(* The session: video, control connections, the owner of the handle *)

StreamOpens ==
    /\ ~open
    /\ open' = TRUE
    /\ UNCHANGED <<pc, attempt, stop, muted, capturing, produced, pipe, buffer, batch, output, failure>>

SetMuted(value) ==
    /\ muted' = value
    /\ late' = IF value /\ ~muted THEN 0 ELSE late
    /\ UNCHANGED <<pc, attempt, stop, open, capturing, produced, pipe, buffer, batch, seq, wire, dropped, failure>>

\* DesktopAudioStream: stop and Drop send the signal, once.
DropHandle ==
    /\ stop = "armed"
    /\ stop' = "sent"
    /\ UNCHANGED <<pc, attempt, open, muted, capturing, produced, pipe, buffer, batch, output, failure>>

-----------------------------------------------------------------------------
(* The encoder (external): RTP frames, now and then without an Opus packet *)

\* The n-th packet, as Opus and in RTP: bare, or with a CSRC entry, a header
\* extension of one word and two bytes of padding.
Opus(n) == <<252, n>>
Zeros(n) == [i \in 1..n |-> 0]
Rtp(shape, n) ==
    CASE shape = "plain" -> <<128>> \o Zeros(11) \o Opus(n)
      [] shape = "full" -> <<177>> \o Zeros(15) \o <<190, 222, 0, 1>> \o Zeros(4) \o Opus(n) \o <<0, 2>>
      [] shape = "control" -> <<128>> \o Zeros(11)
      [] shape = "broken" -> <<>>
Framed(packet) == <<0, Len(packet)>> \o packet

EncoderWrites ==
    /\ capturing /\ produced < MaxPackets
    /\ produced' = produced + 1
    /\ \E shape \in Shapes[produced'] : pipe' = pipe \o Framed(Rtp(shape, produced'))
    /\ UNCHANGED <<pc, attempt, env, capturing, buffer, batch, output, failure>>

EncoderDies ==
    /\ capturing
    /\ capturing' = FALSE
    /\ UNCHANGED <<pc, attempt, env, produced, pipe, buffer, batch, output, failure>>

-----------------------------------------------------------------------------
(* run_audio_stream *)

\* However the task ends, its encoder goes with it (kill, or kill_on_drop).
End ==
    /\ pc' = "ended"
    /\ capturing' = FALSE /\ pipe' = <<>> /\ buffer' = <<>> /\ batch' = <<>>
    /\ UNCHANGED <<attempt, open, muted, produced, output>>

TakeStop == stop = "sent" /\ stop' = "taken"

\* wait_for_stream_open looks at the socket first and then selects.
CancelWaiting == pc = "waiting" /\ TakeStop /\ End /\ UNCHANGED failure

SeeOpen ==
    /\ pc = "waiting" /\ open
    /\ pc' = "starting" /\ attempt' = 1
    /\ UNCHANGED <<env, capturing, produced, pipe, buffer, batch, output, failure>>

StopBeforeAttempt == pc = "starting" /\ TakeStop /\ End /\ UNCHANGED failure

\* resolve_monitor_device fails: no further attempt.
NoDevice ==
    /\ pc = "starting" /\ stop # "sent"
    /\ failure' = TRUE
    /\ End /\ UNCHANGED stop

\* Mutant of StartEncoder: the stop signal is looked at by the selects only.
StartEncoderAnyway ==
    /\ pc = "starting"
    /\ pc' = "pumping"
    /\ capturing' = TRUE
    /\ UNCHANGED <<attempt, env, produced, pipe, buffer, batch, output, failure>>

StartEncoder ==
    /\ pc = "starting" /\ stop # "sent"
    /\ pc' = "pumping"
    /\ capturing' = TRUE
    /\ UNCHANGED <<attempt, env, produced, pipe, buffer, batch, output, failure>>

\* An attempt is over.  The last one is not recorded as a failure, whatever it was.
Give(reason) ==
    /\ capturing' = FALSE /\ pipe' = <<>> /\ buffer' = <<>> /\ batch' = <<>>
    /\ pc' = IF attempt >= RestartAttempts THEN "ended" ELSE "backoff"
    /\ failure' = (failure \/ (reason = "error" /\ attempt < RestartAttempts))
    /\ UNCHANGED <<attempt, env, produced, output>>

SpawnFails == pc = "starting" /\ stop # "sent" /\ Give("error")

\* Mutant of StopInBackoff: the select ends and the loop goes on.
StopOnlyWakes ==
    /\ pc = "backoff" /\ TakeStop
    /\ pc' = "starting" /\ attempt' = attempt + 1
    /\ UNCHANGED <<open, muted, capturing, produced, pipe, buffer, batch, output, failure>>

StopInBackoff == pc = "backoff" /\ TakeStop /\ End /\ UNCHANGED failure

Retry ==
    /\ pc = "backoff"
    /\ pc' = "starting" /\ attempt' = attempt + 1
    /\ UNCHANGED <<env, capturing, produced, pipe, buffer, batch, output, failure>>

-----------------------------------------------------------------------------
(* pump_audio_stream *)

Selecting == pc = "pumping" /\ batch = <<>>

StopPump == Selecting /\ TakeStop /\ End /\ UNCHANGED failure

\* What the reader makes of the next n bytes.
Pushed(n) == PushRtp(buffer, SubSeq(pipe, 1, n))

\* Of a read that completes many packets only the freshest are kept.
Read ==
    /\ Selecting
    /\ \E n \in 1..Len(pipe) :
          LET pushed == Pushed(n)
              count == Len(pushed.packets)
              stale == IF count > MaxBatch THEN count - MaxBatch ELSE 0
          IN  /\ pushed.valid /\ Len(pushed.rest) \in Cuts
              /\ batch' = SubSeq(pushed.packets, stale + 1, count)
              /\ buffer' = pushed.rest
              /\ pipe' = SubSeq(pipe, n + 1, Len(pipe))
              /\ dropped' = dropped + stale
    /\ UNCHANGED <<pc, attempt, env, capturing, produced, seq, wire, late, failure>>

EndOfPipe == Selecting /\ pipe = <<>> /\ ~capturing /\ Give("ended")

\* The pipe breaks, which may happen at any time, or a frame length makes no sense:
\* packets of the same read are lost with it.
ReadFails == Selecting /\ Give("error")

LosesFraming == Selecting /\ (\E n \in 1..Len(pipe) : ~Pushed(n).valid) /\ Give("error")

Silent == muted \/ ~open

DropSilenced ==
    /\ pc = "pumping" /\ batch # <<>> /\ Silent
    /\ batch' = Tail(batch)
    /\ dropped' = dropped + 1
    /\ UNCHANGED <<pc, attempt, env, capturing, produced, pipe, buffer, seq, wire, late, failure>>

\* The packet goes to try_write_envelope, which waits for the socket.
Offer ==
    /\ pc = "pumping" /\ batch # <<>> /\ ~Silent
    /\ pc' = "writing"
    /\ UNCHANGED <<attempt, env, capturing, produced, pipe, buffer, batch, output, failure>>

Deliver ==
    /\ wire' = Append(wire, [seq |-> seq, packet |-> Head(batch)])
    /\ seq' = seq + 1
    /\ late' = IF muted THEN late + 1 ELSE late
    /\ batch' = Tail(batch)
    /\ UNCHANGED <<attempt, env, capturing, produced, pipe, buffer, dropped, failure>>

\* Mutant of Written: the mute flag is looked at once for a batch.
WrittenInARow ==
    /\ pc = "writing"
    /\ pc' = IF Len(batch) > 1 THEN "writing" ELSE "pumping"
    /\ Deliver

Written == pc = "writing" /\ pc' = "pumping" /\ Deliver

\* Mutant of SocketBusy: the packet that was not written keeps its number.
SocketBusyNumbered ==
    /\ pc = "writing"
    /\ pc' = "pumping"
    /\ seq' = seq + 1
    /\ batch' = Tail(batch)
    /\ dropped' = dropped + 1
    /\ UNCHANGED <<attempt, env, capturing, produced, pipe, buffer, wire, late, failure>>

\* The lock is not free within its timeout.
SocketBusy ==
    /\ pc = "writing"
    /\ pc' = "pumping"
    /\ batch' = Tail(batch)
    /\ dropped' = dropped + 1
    /\ UNCHANGED <<attempt, env, capturing, produced, pipe, buffer, seq, wire, late, failure>>

SocketClosed == pc = "writing" /\ End /\ UNCHANGED <<stop, failure>>

-----------------------------------------------------------------------------
APNext ==
    \/ StreamOpens \/ (\E value \in BOOLEAN : SetMuted(value)) \/ DropHandle
    \/ EncoderWrites \/ EncoderDies
    \/ CancelWaiting \/ SeeOpen \/ StopBeforeAttempt \/ NoDevice \/ StartEncoder \/ SpawnFails
    \/ StopInBackoff \/ Retry
    \/ StopPump \/ Read \/ EndOfPipe \/ ReadFails \/ LosesFraming
    \/ DropSilenced \/ Offer \/ Written \/ SocketBusy \/ SocketClosed

APSpec == APInit /\ [][APNext]_apVars

(***************************************************************************)
(* What the task does by itself goes on: writes and pauses have deadlines. *)
(* A select that finds the stop signal ready again and again takes it,     *)
(* since tokio polls the branches in random order.                         *)
(***************************************************************************)
APFairness ==
    /\ WF_apVars(CancelWaiting) /\ WF_apVars(StopBeforeAttempt) /\ WF_apVars(StopInBackoff)
    /\ WF_apVars(Read \/ LosesFraming) /\ WF_apVars(EndOfPipe)
    /\ WF_apVars(DropSilenced \/ Offer)
    /\ WF_apVars(Written \/ SocketBusy \/ SocketClosed)
    /\ SF_apVars(StopPump)

APFairSpec == APSpec /\ APFairness

-----------------------------------------------------------------------------
(* Properties *)

\* The client gets whole Opus packets, however the reads cut the frames, in the order
\* of their capture and numbered without a gap, across encoders, trimmed reads, muted
\* stretches and a busy socket: it can tell what it missed.  (And the state is well
\* typed.)
NumberedInOrder ==
    /\ APTypeOK
    /\ \A i \in DOMAIN wire : wire[i].seq = i - 1
    /\ \E which \in [DOMAIN wire -> 1..produced] : \A i \in DOMAIN wire :
          wire[i].packet = Opus(which[i]) /\ (i > 1 => which[i - 1] < which[i])

\* Muting acts at once: only the packet that was waiting for the socket when the
\* flag was set still goes out.
MuteStopsNextPacket == late <= 1

\* A dropped handle ends the task and its capture, wherever it was.
DroppedHandleEndsCapture == stop # "armed" ~> (pc = "ended" /\ ~capturing)

\* What the registry sees of the task: it holds the monitor from the first encoder on
\* until it ends.
Phase ==
    IF capturing THEN "capturing"
    ELSE IF pc = "ended" THEN "ended"
    ELSE IF pc = "waiting" \/ (pc = "starting" /\ attempt = 1) THEN "waiting"
    ELSE "capturing"

View == INSTANCE AudioTask WITH phase <- Phase, signalled <- stop # "armed", opened <- open

\* ScreenSessions sees of a producer that it waits, captures or has ended, and is
\* right to: through all attempts, pauses and failures it captures nothing before the
\* handshake line, nothing when it was told to stop before that, and nothing again
\* once it has ended.
ImplementsAudioTask == View!Spec
=============================================================================
