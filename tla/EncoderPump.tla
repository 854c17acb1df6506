---------------------------- MODULE EncoderPump -----------------------------
(***************************************************************************)
(* The encoded path of a portal stream (src/screen.rs): run_portal_stream  *)
(* spawns an encoder, pump_h264_stream or pump_jpeg_stream forwards its    *)
(* pictures, and for H.264 a request for a key frame is served by starting *)
(* the encoder anew.                                                       *)
(***************************************************************************)
EXTENDS AnnexB, JpegSplitter

CONSTANTS
    MaxRuns,      \* bound: encoders started for the stream
    MaxPictures   \* bound: pictures they write together

ASSUME BoundAssumption == MaxRuns \in Nat \ {0} /\ MaxPictures \in Nat /\ MaxPictures >= MaxRuns

\* The limit is far above a picture: here 24 bytes, and five until its end is known.
ASSUME PictureFits == MaxBuffer >= 29

VARIABLES
    encoder,    \* the encoder this process settled on
    encoded,    \* per encoder started, the kinds of the pictures it wrote
    pipe,       \* bytes the current encoder wrote and the pump has not read
    alive,      \* the current encoder is running
    reader,     \* the pump's AnnexBStreamReader; of a JpegStreamReader only the buffer
    units,      \* pictures released by the reader, not forwarded yet
    waiting,    \* waiting_for_keyframe (H.264)
    recent,     \* the encoder was started less than a second ago
    requests,   \* messages in the key frame channel, which holds one
    frames,     \* counters.seq, which counters.frames always equals
    sent,       \* the frames written to the socket
    outcome     \* how run_portal_stream ended

encoderVars == <<encoder, encoded>>
pumpVars == <<reader, units, waiting>>
epVars == <<encoderVars, pipe, alive, pumpVars, recent, requests, frames, sent, outcome>>

Kind == {"key", "delta"}
Run == Len(encoded)
Running == outcome = "running"

-----------------------------------------------------------------------------
(* The encoder (external): h264parse hands each picture to the pipe in one  *)
(* write, behind SPS and PPS if it is a key frame.  Both encoders are asked *)
(* for delimiters, on which the reader does not rely, and may slice.  Where *)
(* no H.264 encoder is installed jpegenc writes pictures one by one.        *)

Encoder == {"delimiting", "slicing", "jpeg"}

\* PipelineEncoding::H264.
IsH264 == encoder # "jpeg"

\* NAL units behind a start code of four bytes and of three.
Long(header, next) == <<0, 0, 0, 1, header, next>>
Short(header, next, last) == <<0, 0, 1, header, next, last>>
ParameterSets == Long(103, 100) \o Long(104, 235)

\* The n-th picture of an encoder.
Coded(kind, n) ==
    LET sets == IF kind = "key" THEN ParameterSets ELSE <<>>
        header == IF kind = "key" THEN 101 ELSE 65
        first == Short(header, 136, n + 1)
    IN  IF encoder = "jpeg" THEN StartOfImage \o <<255, 0, n>> \o EndOfImage
        ELSE IF encoder = "delimiting" THEN Long(9, 240) \o sets \o first
        ELSE sets \o first \o Short(header, 10, n + 1)

\* The last byte of a picture is its number and stands for what it shows.
Byte == Nat
Unit == [data : Seq(Byte), keyFrame : BOOLEAN, parameterSets : Seq(Byte)]
Frame == [run : 1..MaxRuns, seq : Nat, config : BOOLEAN, keyFrame : BOOLEAN, data : Seq(Byte)]

EPTypeOK ==
    /\ encoder \in Encoder /\ alive \in BOOLEAN /\ waiting \in BOOLEAN
    /\ recent \in BOOLEAN
    /\ encoded \in Seq(Seq(Kind)) /\ Run \in 1..MaxRuns
    /\ pipe \in Seq(Byte)
    /\ reader \in [buffer : Seq(Byte), scanFrom : Nat,
                   nals : Seq([start : Nat, kind : 0..31, firstSlice : BOOLEAN])]
    /\ units \in Seq(Unit)
    /\ requests \in 0..1
    /\ frames \in Nat
    /\ sent \in Seq(Frame)
    /\ outcome \in {"running", "finished", "failed"}

EPInit ==
    /\ encoder \in Encoder
    /\ encoded = <<<<>>>>
    /\ pipe = <<>> /\ alive = TRUE
    /\ reader = NewReader /\ units = <<>> /\ waiting = IsH264
    /\ recent = TRUE
    /\ requests = 0
    /\ frames = 0 /\ sent = <<>>
    /\ outcome = "running"

\* The pictures this encoder may still write, one being kept for each later one.
Room == MaxPictures - Len(FlattenSeq(encoded)) - (IF IsH264 THEN MaxRuns - Run ELSE 0)

\* Pictures come in any order, but not without a key frame for long: encoders
\* insert one every two seconds.
Encode(kind) ==
    /\ Running /\ alive
    /\ Room > 0 /\ (kind = "key" \/ IsH264)
    /\ kind = "key" \/ Room > 1 \/ \E i \in DOMAIN encoded[Run] : encoded[Run][i] = "key"
    /\ encoded' = [encoded EXCEPT ![Run] = Append(@, kind)]
    /\ pipe' = pipe \o Coded(kind, Len(encoded[Run]) + 1)
    /\ UNCHANGED <<encoder, alive, pumpVars, recent, requests, frames, sent, outcome>>

EncoderExits ==
    /\ Running /\ alive
    /\ alive' = FALSE
    /\ UNCHANGED <<encoderVars, pipe, pumpVars, recent, requests, frames, sent, outcome>>

-----------------------------------------------------------------------------
(* Control connections and time *)

\* request_key_frame: a full channel coalesces the request.  (The JPEG pump never
\* looks: all its pictures are key frames.)
RequestKeyFrame ==
    /\ Running
    /\ requests' = 1
    /\ UNCHANGED <<encoderVars, pipe, alive, pumpVars, recent, frames, sent, outcome>>

\* The last encoder an instance has room for stays young.
SecondPasses ==
    /\ Running /\ IsH264 /\ recent /\ Run < MaxRuns
    /\ recent' = FALSE
    /\ UNCHANGED <<encoderVars, pipe, alive, pumpVars, requests, frames, sent, outcome>>

-----------------------------------------------------------------------------
(* The biased select of pump_h264_stream: stop, pipe, request, idle flush.  *)
(* A branch is taken only when those before it are not ready.  The JPEG     *)
(* pump has the first two only.                                             *)

Selecting == Running /\ units = <<>>
PipeSilent == pipe = <<>> /\ alive

\* However the pump ends, its encoder is killed.
End(how) ==
    /\ outcome' = how
    /\ alive' = FALSE
    /\ UNCHANGED <<encoderVars, pipe, pumpVars, recent, requests>>

\* A stream without a single frame is an error, so that grim can take over.
Finish ==
    /\ Selecting
    /\ End(IF frames = 0 THEN "failed" ELSE "finished")
    /\ UNCHANGED <<frames, sent>>

\* The stop signal may be there at any select.
PumpStops == Finish

EndOfPipe == pipe = <<>> /\ ~alive /\ Finish

Take(n) == Selecting /\ pipe' = SubSeq(pipe, n + 1, Len(pipe))

\* A JPEG picture on its way to send_frame.
JpegUnit(data) == [data |-> data, keyFrame |-> FALSE, parameterSets |-> <<>>]

ReadUnits(chunk) ==
    IF IsH264 THEN LET released == Push(reader, chunk)
                   IN  reader' = released.reader /\ units' = released.units
    ELSE LET pushed == PushJpeg(reader.buffer, chunk)
         IN  /\ reader' = [reader EXCEPT !.buffer = pushed.rest]
             /\ units' = [i \in DOMAIN pushed.pictures |-> JpegUnit(pushed.pictures[i])]

\* A read returns any part of what is in the pipe.
Read ==
    /\ \E n \in 1..Len(pipe) : Take(n) /\ ReadUnits(SubSeq(pipe, 1, n))
    /\ UNCHANGED <<encoderVars, alive, waiting, recent, requests, frames, sent, outcome>>

\* Mutant of RestartEncoder: the counters belong to the pump.
RestartCountsAnew ==
    /\ Selecting /\ PipeSilent /\ IsH264
    /\ requests = 1 /\ ~recent
    /\ requests' = 0
    /\ encoded' = Append(encoded, <<>>)
    /\ reader' = NewReader /\ waiting' = TRUE
    /\ recent' = TRUE
    /\ frames' = 0
    /\ UNCHANGED <<encoder, pipe, alive, units, sent, outcome>>

\* The loop of run_portal_stream kills the encoder, starts another and calls the
\* pump again; the frame counters live on.
RestartEncoder ==
    /\ Selecting /\ PipeSilent /\ IsH264
    /\ requests = 1 /\ ~recent
    /\ requests' = 0
    /\ encoded' = Append(encoded, <<>>)
    /\ reader' = NewReader /\ waiting' = TRUE
    /\ recent' = TRUE
    /\ UNCHANGED <<encoder, pipe, alive, units, frames, sent, outcome>>

RestartFails ==
    /\ Selecting /\ PipeSilent /\ IsH264
    /\ requests = 1 /\ ~recent
    /\ End("failed")
    /\ UNCHANGED <<frames, sent>>

\* Mutant of IgnoreRequest: the age of the encoder is not looked at.
IgnoreAnyRequest ==
    /\ Selecting /\ PipeSilent /\ IsH264
    /\ requests = 1
    /\ requests' = 0
    /\ UNCHANGED <<encoderVars, pipe, alive, pumpVars, recent, frames, sent, outcome>>

\* A request within a second of the last start is consumed without effect.
IgnoreRequest ==
    /\ Selecting /\ PipeSilent /\ IsH264
    /\ requests = 1 /\ recent
    /\ requests' = 0
    /\ UNCHANGED <<encoderVars, pipe, alive, pumpVars, recent, frames, sent, outcome>>

\* Mutant of Flush: the select is not biased, the timer may win over the pipe.
FlushEarly ==
    /\ Selecting
    /\ HasPendingPicture(reader)
    /\ LET cut == FlushPending(reader)
       IN  reader' = cut.reader /\ units' = <<cut.unit>>
    /\ UNCHANGED <<encoderVars, pipe, alive, waiting, recent, requests, frames, sent, outcome>>

\* The encoder was silent for half a frame interval.
Flush ==
    /\ Selecting /\ PipeSilent /\ requests = 0
    /\ HasPendingPicture(reader)
    /\ LET cut == FlushPending(reader)
       IN  reader' = cut.reader /\ units' = <<cut.unit>>
    /\ UNCHANGED <<encoderVars, pipe, alive, waiting, recent, requests, frames, sent, outcome>>

-----------------------------------------------------------------------------
(* The loop over the released pictures *)

\* Mutant of FramesOf: parameter sets only ahead of the first picture of an encoder.
FramesSetsOnce(unit) ==
    (IF unit.parameterSets = <<>> \/ ~waiting THEN <<>>
     ELSE <<[run |-> Run, seq |-> frames, config |-> TRUE, keyFrame |-> FALSE,
             data |-> unit.parameterSets]>>) \o
    <<[run |-> Run, seq |-> frames + (IF unit.parameterSets = <<>> \/ ~waiting THEN 0 ELSE 1),
       config |-> FALSE, keyFrame |-> unit.keyFrame, data |-> unit.data]>>

\* What goes out for a picture: its parameter sets first, in a frame of their own.
FramesOf(unit) ==
    (IF unit.parameterSets = <<>> THEN <<>>
     ELSE <<[run |-> Run, seq |-> frames, config |-> TRUE, keyFrame |-> FALSE,
             data |-> unit.parameterSets]>>) \o
    <<[run |-> Run, seq |-> frames + (IF unit.parameterSets = <<>> THEN 0 ELSE 1), config |-> FALSE,
       keyFrame |-> unit.keyFrame, data |-> unit.data]>>

SkipUnit ==
    /\ Running /\ units # <<>>
    /\ waiting /\ ~Head(units).keyFrame
    /\ units' = Tail(units)
    /\ UNCHANGED <<encoderVars, pipe, alive, reader, waiting, recent, requests, frames, sent, outcome>>

ForwardUnit ==
    /\ Running /\ units # <<>>
    /\ waiting => Head(units).keyFrame
    /\ waiting' = FALSE
    /\ sent' = sent \o FramesOf(Head(units))
    /\ frames' = frames + Len(FramesOf(Head(units)))
    /\ units' = Tail(units)
    /\ UNCHANGED <<encoderVars, pipe, alive, reader, recent, requests, outcome>>

\* The client is gone or stalled: the write in progress fails and the stream with
\* it, possibly behind the parameter sets of the picture.
SendFails ==
    /\ Running /\ units # <<>>
    /\ waiting => Head(units).keyFrame
    /\ LET out == FramesOf(Head(units))
       IN  \E n \in 0..Len(out) - 1 : /\ sent' = sent \o SubSeq(out, 1, n)
                                     /\ frames' = frames + n
    /\ End("failed")

EPNext ==
    \/ \E kind \in Kind : Encode(kind)
    \/ EncoderExits
    \/ RequestKeyFrame \/ SecondPasses
    \/ PumpStops \/ EndOfPipe \/ Read \/ RestartEncoder \/ RestartFails \/ IgnoreRequest \/ Flush
    \/ SkipUnit \/ ForwardUnit \/ SendFails

EPSpec == EPInit /\ [][EPNext]_epVars

(***************************************************************************)
(* The pump takes what its select offers, and the encoder writes key       *)
(* frames.  A request is looked at when the pump finds the pipe silent     *)
(* again and again, and so is the flush timer, which requests do not       *)
(* restart for ever: each is a round trip of a client.                     *)
(***************************************************************************)
EPFairness ==
    /\ WF_epVars(EndOfPipe) /\ WF_epVars(SkipUnit) /\ WF_epVars(ForwardUnit)
    /\ WF_pipe(\E n \in 1..Len(pipe) : Take(n))
    /\ WF_epVars(Encode("key"))
    /\ SF_epVars(RestartEncoder) /\ SF_epVars(IgnoreRequest) /\ SF_epVars(Flush)

EPFairSpec == EPSpec /\ EPFairness

-----------------------------------------------------------------------------
(* Properties *)

\* The places in sent of the pictures of one encoder.
Shown(run) == {i \in DOMAIN sent : sent[i].run = run /\ ~sent[i].config}

\* Consecutive, from a key frame on.
H264Shown(run) ==
    \E which \in [Shown(run) -> DOMAIN encoded[run]] : \A i \in Shown(run) :
        LET before == {j \in Shown(run) : j < i}
        IN  /\ sent[i].data = Coded(encoded[run][which[i]], which[i])
            /\ IF before = {} THEN encoded[run][which[i]] = "key"
               ELSE which[i] = which[Max(before)] + 1

\* JPEG pictures stand alone: some may be missing.
JpegShown ==
    \E which \in [DOMAIN sent -> DOMAIN encoded[1]] : \A i \in DOMAIN sent :
        sent[i].data = Coded("key", which[i]) /\ (i > 1 => which[i - 1] < which[i])

\* What a decoder needs: of every H.264 encoder the client gets consecutive pictures,
\* whole and from a key frame on, however the reads cut the byte stream and
\* whenever the reader was flushed early; JPEG pictures are whole and in order; and
\* frames are numbered without a gap, across restarts of the encoder too.  (And the
\* state is well typed.)
PicturesAreWhole ==
    /\ EPTypeOK
    /\ IF IsH264 THEN \A run \in 1..Run : H264Shown(run) ELSE JpegShown
    /\ \A i \in DOMAIN sent : sent[i].seq = i - 1

\* "It is sent ahead of the first keyframe and repeated ahead of every later
\* keyframe" (docs/PROTOCOL.md): a decoder rebuilt at any key frame can start.
KeyFramesCarryConfig ==
    \A i \in DOMAIN sent :
        sent[i].keyFrame => /\ i > 1 /\ sent[i - 1].config
                            /\ sent[i - 1].run = sent[i].run
                            /\ sent[i - 1].data = ParameterSets

\* A request that an encoder older than a second finds in the channel brings a key
\* frame of a new encoder or the end of the stream, provided the pump catches up
\* with the encoder again and again: while the pipe is never silent, nobody looks.
\* (With finitely many pictures the condition holds; it is stated for real encoders.)
\* Of JPEG every picture is a key frame.
RequestIsServed ==
    IsH264 /\ []<>(pipe = <<>>) =>
        \A r \in 1..MaxRuns - 1 :
            (requests = 1 /\ ~recent /\ Run = r) ~>
                (~Running \/ \E i \in DOMAIN sent : sent[i].run > r /\ sent[i].keyFrame)

\* No JPEG picture is lost on the way to the client.  TLC finds it violated: a read
\* that ends between the two bytes of a first marker makes the splitter forget the
\* first one, and with it the picture.
NoJpegIsLost ==
    ~IsH264 /\ Running /\ pipe = <<>> /\ units = <<>> => Len(sent) = Len(encoded[1])
=============================================================================
