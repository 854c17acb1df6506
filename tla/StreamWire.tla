----------------------------- MODULE StreamWire -----------------------------
(***************************************************************************)
(* The stream socket of one session (StreamSocket in src/screen.rs): the   *)
(* video producer and the audio producers spawned for the session write    *)
(* envelopes into one TCP stream under one mutex.                          *)
(*                                                                         *)
(* A write is many steps on a connection in backpressure: an envelope is   *)
(* a head and a tail, and a deadline, a disconnect or an abort may strike  *)
(* between them, which releases the mutex with the tail unwritten.         *)
(***************************************************************************)
EXTENDS Naturals, Sequences, FiniteSets

CONSTANTS
    Audio,        \* audio producers spawned for the session, one after the other
    PortalCodec,  \* what the portal pipeline encodes
    PortalSource, \* the session's source is the ScreenCast portal
    SlowClient,   \* the client may read so slowly that write deadlines pass
    MaxSeq,       \* bound: envelopes of each producer
    None

ASSUME CodecAssumption == PortalCodec \in {"jpeg", "h264"}
ASSUME FlagAssumption == PortalSource \in BOOLEAN /\ SlowClient \in BOOLEAN
ASSUME SeqAssumption == MaxSeq \in Nat
ASSUME NoneAssumption == None \notin Audio \cup {"video"} /\ "video" \notin Audio

VARIABLES
    wire,       \* what the client receives: the handshake line, heads and tails
    magicSent,  \* StreamSocket.magic_sent
    lock,       \* the holder of the socket mutex
    gone,       \* the client closed the connection
    portal,     \* the portal pipeline is the video producer
    pc,         \* where each producer is
    seq         \* its next sequence number

vars == <<wire, magicSent, lock, gone, portal, pc, seq>>

Producer == Audio \cup {"video"}
VideoCodec == IF portal THEN PortalCodec ELSE "jpeg"
CodecOf(p) == IF p = "video" THEN VideoCodec ELSE "opus"

Magic(c) == [part |-> "magic", by |-> "video", seq |-> 0, codec |-> c]
Chunk(part, p) == [part |-> part, by |-> p, seq |-> seq[p], codec |-> CodecOf(p)]
ChunkType == [part : {"magic", "head", "tail"}, by : Producer, seq : 0..MaxSeq,
              codec : {"jpeg", "h264", "opus"}]

PcState == {"off", "waiting", "idle", "opening", "locking", "head", "tail", "ended"}

TypeOK ==
    /\ wire \in Seq(ChunkType)
    /\ magicSent \in BOOLEAN
    /\ lock \in Producer \cup {None}
    /\ gone \in BOOLEAN
    /\ portal \in BOOLEAN
    /\ pc \in [Producer -> PcState]
    /\ seq \in [Producer -> 0..MaxSeq]
    /\ \A p \in Producer : pc[p] \in {"head", "tail"} <=> lock = p

Init ==
    /\ wire = <<>>
    /\ magicSent = FALSE
    /\ lock = None
    /\ gone = FALSE
    /\ portal = PortalSource
    /\ pc = [p \in Producer |-> IF p = "video" THEN "idle" ELSE "off"]
    /\ seq = [p \in Producer |-> 0]

Goto(p, state) == pc' = [pc EXCEPT ![p] = state]

-----------------------------------------------------------------------------
(* Writing one envelope: write_all and try_write_envelope *)

\* Mutant of TakeSocket: the mutex is not waited for.
TakeSocketUnlocked(p) ==
    /\ pc[p] = "locking"
    /\ lock' = p
    /\ Goto(p, "head")
    /\ UNCHANGED <<wire, magicSent, gone, portal, seq>>

TakeSocket(p) ==
    /\ pc[p] = "locking"
    /\ lock = None
    /\ lock' = p
    /\ Goto(p, "head")
    /\ UNCHANGED <<wire, magicSent, gone, portal, seq>>

WriteHead(p) ==
    /\ pc[p] = "head"
    /\ ~gone
    /\ wire' = Append(wire, Chunk("head", p))
    /\ Goto(p, "tail")
    /\ UNCHANGED <<magicSent, lock, gone, portal, seq>>

\* Mutant of WriteTail: the mutex is kept.
WriteTailKeepingLock(p) ==
    /\ pc[p] = "tail"
    /\ ~gone
    /\ wire' = Append(wire, Chunk("tail", p))
    /\ seq' = [seq EXCEPT ![p] = @ + 1]
    /\ Goto(p, "idle")
    /\ UNCHANGED <<magicSent, lock, gone, portal>>

WriteTail(p) ==
    /\ pc[p] = "tail"
    /\ ~gone
    /\ wire' = Append(wire, Chunk("tail", p))
    /\ seq' = [seq EXCEPT ![p] = @ + 1]
    /\ lock' = None
    /\ Goto(p, "idle")
    /\ UNCHANGED <<magicSent, gone, portal>>

\* The peer reset the connection, or the write deadline passed.  Either ends
\* the producer: an audio producer ends alone, video goes on.
WriteFails(p) ==
    /\ pc[p] \in {"head", "tail"}
    /\ gone \/ SlowClient
    /\ lock' = None
    /\ Goto(p, "ended")
    /\ UNCHANGED <<wire, magicSent, gone, portal, seq>>

-----------------------------------------------------------------------------
(* The video producer *)

\* Every frame calls send_magic first, which writes the line once.
VideoFrame ==
    /\ pc["video"] = "idle"
    /\ seq["video"] < MaxSeq
    /\ Goto("video", IF magicSent THEN "locking" ELSE "opening")
    /\ UNCHANGED <<wire, magicSent, lock, gone, portal, seq>>

\* Mutant of SendMagic: the flag is raised before the line is written.
SendMagicFlagFirst ==
    /\ pc["video"] = "opening"
    /\ \/ /\ ~magicSent
          /\ magicSent' = TRUE
          /\ UNCHANGED <<wire, pc>>
       \/ /\ magicSent
          /\ lock = None
          /\ ~gone
          /\ wire' = Append(wire, Magic(VideoCodec))
          /\ Goto("video", "locking")
          /\ UNCHANGED magicSent
    /\ UNCHANGED <<lock, gone, portal, seq>>

SendMagic ==
    /\ pc["video"] = "opening"
    /\ lock = None
    /\ ~gone
    /\ wire' = Append(wire, Magic(VideoCodec))
    /\ magicSent' = TRUE
    /\ Goto("video", "locking")
    /\ UNCHANGED <<lock, gone, portal, seq>>

SendMagicFails ==
    /\ pc["video"] = "opening"
    /\ gone
    /\ Goto("video", "ended")
    /\ UNCHANGED <<wire, magicSent, lock, gone, portal, seq>>

\* Mutant of PortalFails: grim takes over an opened stream.
PortalAlwaysFallsBack ==
    /\ portal
    /\ pc["video"] = "idle"
    /\ portal' = FALSE
    /\ seq' = [seq EXCEPT !["video"] = 0]
    /\ UNCHANGED <<wire, magicSent, lock, gone, pc>>

\* The portal pipeline fails between frames: grim takes over, with a sequence
\* of its own, only while the socket is untouched.
PortalFails ==
    /\ portal
    /\ pc["video"] = "idle"
    /\ IF magicSent
       THEN Goto("video", "ended") /\ UNCHANGED <<portal, seq>>
       ELSE portal' = FALSE /\ seq' = [seq EXCEPT !["video"] = 0] /\ UNCHANGED pc
    /\ UNCHANGED <<wire, magicSent, lock, gone>>

\* Stop signal, end of the producer's pipe, or the abort by stop_stream, which
\* may cut a frame that a slow client holds up for more than two seconds.
VideoEnds ==
    /\ \/ pc["video"] \in {"idle", "opening", "locking"}
       \/ pc["video"] \in {"head", "tail"} /\ SlowClient
    /\ lock' = IF lock = "video" THEN None ELSE lock
    /\ Goto("video", "ended")
    /\ UNCHANGED <<wire, magicSent, gone, portal, seq>>

-----------------------------------------------------------------------------
(* The audio producers *)

AudioSpawn(a) ==
    /\ pc[a] = "off"
    /\ Goto(a, "waiting")
    /\ UNCHANGED <<wire, magicSent, lock, gone, portal, seq>>

AudioOpen(a) ==
    /\ pc[a] = "waiting"
    /\ magicSent
    /\ Goto(a, "idle")
    /\ UNCHANGED <<wire, magicSent, lock, gone, portal, seq>>

AudioPacket(a) ==
    /\ pc[a] = "idle"
    /\ magicSent
    /\ seq[a] < MaxSeq
    /\ Goto(a, "locking")
    /\ UNCHANGED <<wire, magicSent, lock, gone, portal, seq>>

\* Mutant of AudioDrops: a dropped packet uses up a sequence number.
AudioDropsNumbered(a) ==
    /\ pc[a] = "locking"
    /\ lock # None
    /\ Goto(a, "idle")
    /\ seq' = [seq EXCEPT ![a] = @ + 1]
    /\ UNCHANGED <<wire, magicSent, lock, gone, portal>>

\* The mutex was held for AUDIO_LOCK_TIMEOUT: the packet is dropped.
AudioDrops(a) ==
    /\ pc[a] = "locking"
    /\ lock # None
    /\ Goto(a, "idle")
    /\ UNCHANGED <<wire, magicSent, lock, gone, portal, seq>>

\* The stop signal is seen between two packets, or the encoder gave up.
AudioEnds(a) ==
    /\ pc[a] \in {"waiting", "idle"}
    /\ Goto(a, "ended")
    /\ UNCHANGED <<wire, magicSent, lock, gone, portal, seq>>

ClientCloses ==
    /\ ~gone
    /\ gone' = TRUE
    /\ UNCHANGED <<wire, magicSent, lock, portal, pc, seq>>

Write(p) == TakeSocket(p) \/ WriteHead(p) \/ WriteTail(p) \/ WriteFails(p)

Next ==
    \/ \E p \in Producer : Write(p)
    \/ VideoFrame \/ SendMagic \/ SendMagicFails \/ PortalFails \/ VideoEnds
    \/ \E a \in Audio : \/ AudioSpawn(a) \/ AudioOpen(a) \/ AudioPacket(a)
                        \/ AudioDrops(a) \/ AudioEnds(a)
    \/ ClientCloses

Spec == Init /\ [][Next]_vars

(***************************************************************************)
(* Every write has a deadline and the mutex is FIFO: a started write comes *)
(* to an end, and the video producer queued on the mutex gets it although  *)
(* audio producers keep taking it.                                         *)
(***************************************************************************)
Fairness ==
    /\ \A p \in Producer : WF_vars(WriteHead(p) \/ WriteTail(p) \/ WriteFails(p))
    /\ SF_vars(TakeSocket("video"))
    /\ SF_vars(SendMagic \/ SendMagicFails)

FairSpec == Spec /\ Fairness

-----------------------------------------------------------------------------
(* Properties *)

\* The head at position i is not followed by its tail although something is.
Torn(i) ==
    /\ wire[i].part = "head"
    /\ i < Len(wire)
    /\ wire[i + 1] # [wire[i] EXCEPT !.part = "tail"]

\* The mutex keeps the producers apart: neither cuts an envelope of the other.  One
\* that is cut was given up by its own producer, for a client too slow for a deadline
\* or for the abort of stop_stream, and that producer has ended and wrote nothing
\* behind the cut.  (And the state is well typed.)
FramesAreWhole ==
    TypeOK /\ \A i \in DOMAIN wire :
        Torn(i) => /\ SlowClient /\ pc[wire[i].by] = "ended"
                   /\ \A j \in i + 1 .. Len(wire) : wire[j].by # wire[i].by

\* "Envelopes are written whole under one lock" (docs/PROTOCOL.md), for clients of
\* any speed: the producer that missed its deadline releases the lock in the middle of
\* an envelope, and the other one writes behind the cut: TLC finds it violated.
EnvelopesWrittenWhole == \A i \in DOMAIN wire : ~Torn(i)

\* "the frame is dropped and the pipeline continues to the next frame"
\* (docs/TROUBLESHOOTING.md), of a JPEG frame whose deadline passes while the client is
\* there.  TLC finds it violated: the deadline ends the producer.
LateFrameIsDropped == [][WriteFails("video") /\ ~gone => pc'["video"] = "idle"]_vars

\* A video frame that waits for the socket is written or the stream ends: the
\* audio producers cannot hold it off for ever.
VideoIsNotStarved == pc["video"] = "locking" ~> pc["video"] \in {"idle", "ended"}

\* An envelope begins with its length and has no mark to find it by: a client that
\* read into a cut one has lost its place in the stream for good.
InStep(i) == ~\E j \in DOMAIN wire : j < i /\ Torn(j)

\* The client's view: the handshake lines and the envelopes that it received whole,
\* all of them ahead of the first cut.
At(part) == {i \in DOMAIN wire : wire[i].part = part}
Lines == {[at |-> i, codec |-> wire[i].codec] : i \in At("magic")}
Frames == {[at |-> i, by |-> wire[i].by, seq |-> wire[i].seq, codec |-> wire[i].codec] :
             i \in {k \in At("tail") : InStep(k)}}

Framed == INSTANCE FramedStream WITH
    Sound <- Audio, Codec <- {"jpeg", "h264"}, lines <- Lines, frames <- Frames

\* Up to the first cut the socket implements the promise of the protocol: the client
\* can identify what it receives, whichever pipeline ends up producing the first frame,
\* also when grim replaced the portal pipeline.  Behind a cut it receives nothing more.
ImplementsFramedStream == Framed!Spec
=============================================================================
