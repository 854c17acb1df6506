-------------------------- MODULE StreamWireProofs --------------------------
(***************************************************************************)
(* No producer cuts an envelope of another, and up to the first cut the    *)
(* socket implements FramedStream:                                         *)
(* proofs about StreamWire for any number of audio producers and packets,  *)
(* clients of any speed and both sources of video.  And what the video     *)
(* pump puts into those envelopes are whole pictures that a decoder can    *)
(* start from: proofs about EncoderPump for any number of pictures and of  *)
(* encoders, and for reads of the pipe that end anywhere.                  *)
(***************************************************************************)
EXTENDS StreamWire, EncoderPump, SequenceTheorems, FiniteSetTheorems, WellFoundedInduction, TLAPS

-----------------------------------------------------------------------------
(* The inductive invariant *)

\* A producer that is about to write has an envelope left to number.
Numbers ==
    \A p \in Producer : pc[p] \in {"opening", "locking", "head", "tail"} => seq[p] < MaxSeq

\* Envelopes are written behind the handshake line only.
Opened ==
    /\ pc["video"] = "opening" => ~magicSent
    /\ \A p \in Producer : pc[p] \in {"locking", "head", "tail"} => magicSent

\* The handshake line is the first item, the only one of its kind, and current.
MagicFirst ==
    /\ magicSent <=> wire # <<>>
    /\ \A i \in DOMAIN wire : wire[i].part = "magic" <=> i = 1
    /\ wire # <<>> => wire[1].codec = VideoCodec

\* Who is in the middle of an envelope wrote the last item: the head of it.
TailFollows ==
    \A p \in Producer :
       pc[p] = "tail" => wire # <<>> /\ wire[Len(wire)] = Chunk("head", p)

\* A head at the end is being completed, or its producer has given up.
HeadOpen ==
    wire # <<>> /\ wire[Len(wire)].part = "head" =>
       \/ pc[wire[Len(wire)].by] = "tail"
       \/ pc[wire[Len(wire)].by] = "ended" /\ (SlowClient \/ gone)

\* A cut envelope is the last thing its producer wrote or will write.
CutsEnd ==
    \A i \in DOMAIN wire :
       Torn(i) => /\ SlowClient /\ pc[wire[i].by] = "ended"
                  /\ \A j \in i + 1 .. Len(wire) : wire[j].by # wire[i].by

\* The envelopes of a producer that arrived.
FramesBy(p) == {f \in Frames : f.by = p}

\* An envelope was cut.
AnyCut == \E j \in DOMAIN wire : Torn(j)

\* Up to a cut the next number of a producer counts its envelopes that the client received.
Counted ==
    ~AnyCut => \A p \in Producer : IsFiniteSet(FramesBy(p)) /\ Cardinality(FramesBy(p)) = seq[p]

WireInv ==
    /\ TypeOK
    /\ Numbers /\ Opened /\ MagicFirst /\ TailFollows /\ HeadOpen /\ CutsEnd /\ Counted

-----------------------------------------------------------------------------
(* Types, numbers and the order of the opening *)

\* What a producer appends has a place in the stream.
LEMMA ChunkTypes ==
    ASSUME TypeOK, NEW p \in Producer
    PROVE  /\ Chunk("head", p) \in ChunkType /\ Chunk("tail", p) \in ChunkType
           /\ Magic(VideoCodec) \in ChunkType /\ VideoCodec \in {"jpeg", "h264"}
           /\ Chunk("head", p).by = p /\ Chunk("head", p).part = "head"
           /\ Chunk("tail", p) = [Chunk("head", p) EXCEPT !.part = "tail"]
           /\ Magic(VideoCodec).part = "magic" /\ Magic(VideoCodec).by = "video"
           /\ Magic(VideoCodec).codec = VideoCodec
BY CodecAssumption, SeqAssumption
   DEF TypeOK, Chunk, ChunkType, Magic, CodecOf, VideoCodec, Producer

\* The stream after one more item.
LEMMA AppendWire ==
    ASSUME TypeOK, NEW x \in ChunkType, wire' = Append(wire, x)
    PROVE  /\ wire' \in Seq(ChunkType) /\ wire' # <<>>
           /\ Len(wire) \in Nat /\ Len(wire') = Len(wire) + 1
           /\ DOMAIN wire = 1..Len(wire) /\ DOMAIN wire' = 1..(Len(wire) + 1)
           /\ \A i \in 1..Len(wire) : wire'[i] = wire[i]
           /\ wire'[Len(wire) + 1] = x
BY AppendProperties, LenProperties DEF TypeOK

\* Who is in an envelope holds the mutex, and nobody else.
MutexFollows(state, holder) ==
    \A p \in Producer : state[p] \in {"head", "tail"} <=> holder = p

\* Every step leaves the state well typed.
LEMMA TypeStep == TypeOK /\ Numbers /\ [Next]_vars => TypeOK'
<1> SUFFICES ASSUME TypeOK, Numbers, [Next]_vars PROVE TypeOK'
  OBVIOUS
<1> USE NoneAssumption, SeqAssumption DEF Goto, PcState
<1>1. ASSUME NEW p \in Producer, TakeSocket(p) PROVE TypeOK'
  <2>1. pc' = [pc EXCEPT ![p] = "head"] /\ lock' = p /\ lock = None
    BY <1>1 DEF TakeSocket
  <2>2. MutexFollows(pc', lock')
    BY <2>1 DEF TypeOK, MutexFollows, Producer
  <2>3. QED BY <1>1, <2>1, <2>2 DEF TakeSocket, TypeOK, MutexFollows
<1>2. ASSUME NEW p \in Producer, WriteHead(p) PROVE TypeOK'
  <2>1. wire' \in Seq(ChunkType)
    BY <1>2, ChunkTypes, AppendWire DEF WriteHead
  <2>2. QED BY <1>2, <2>1 DEF WriteHead, TypeOK
<1>3. ASSUME NEW p \in Producer, WriteTail(p) PROVE TypeOK'
  <2>1. wire' \in Seq(ChunkType)
    BY <1>3, ChunkTypes, AppendWire DEF WriteTail
  <2>2. seq' \in [Producer -> 0..MaxSeq]
    BY <1>3 DEF WriteTail, TypeOK, Numbers
  <2>3. pc' = [pc EXCEPT ![p] = "idle"] /\ lock' = None /\ pc[p] = "tail"
    BY <1>3 DEF WriteTail
  <2>4. MutexFollows(pc', lock')
    BY <2>3 DEF TypeOK, MutexFollows, Producer
  <2>5. QED BY <1>3, <2>1, <2>2, <2>3, <2>4 DEF WriteTail, TypeOK, MutexFollows
<1>4. ASSUME NEW p \in Producer, WriteFails(p) PROVE TypeOK'
  <2>1. pc' = [pc EXCEPT ![p] = "ended"] /\ lock' = None /\ pc[p] \in {"head", "tail"}
    BY <1>4 DEF WriteFails
  <2>2. MutexFollows(pc', lock')
    BY <2>1 DEF TypeOK, MutexFollows, Producer
  <2>3. QED BY <1>4, <2>1, <2>2 DEF WriteFails, TypeOK, MutexFollows
<1>5. CASE SendMagic
  <2>1. wire' \in Seq(ChunkType)
    BY <1>5, ChunkTypes, AppendWire DEF SendMagic, Producer
  <2>2. QED BY <1>5, <2>1 DEF SendMagic, TypeOK, Producer
<1>6. CASE VideoFrame \/ SendMagicFails
  BY <1>6 DEF VideoFrame, SendMagicFails, TypeOK, Producer
<1>7. CASE PortalFails
  <2>1. seq' \in [Producer -> 0..MaxSeq]
    <3>1. seq' = seq \/ seq' = [seq EXCEPT !["video"] = 0]
      BY <1>7 DEF PortalFails
    <3>2. QED BY <3>1 DEF TypeOK
  <2>2. QED BY <1>7, <2>1 DEF PortalFails, TypeOK, Producer
<1>8. CASE VideoEnds
  BY <1>8 DEF VideoEnds, TypeOK, Producer
<1>9. ASSUME NEW a \in Audio,
             AudioSpawn(a) \/ AudioOpen(a) \/ AudioPacket(a) \/ AudioDrops(a) \/ AudioEnds(a)
      PROVE  TypeOK'
  BY <1>9 DEF AudioSpawn, AudioOpen, AudioPacket, AudioDrops, AudioEnds, TypeOK, Producer
<1>10. CASE ClientCloses \/ UNCHANGED vars
  BY <1>10 DEF ClientCloses, vars, TypeOK
<1>11. QED BY <1>1, <1>2, <1>3, <1>4, <1>5, <1>6, <1>7, <1>8, <1>9, <1>10 DEF Next, Write

\* Producers check their limit and the handshake before they ask for the socket.
LEMMA OpeningStep ==
    ASSUME WireInv, [Next]_vars
    PROVE  Numbers' /\ Opened'
<1>0. TypeOK /\ Numbers /\ Opened
  BY DEF WireInv
<1> USE NoneAssumption, SeqAssumption, <1>0 DEF Goto
<1>1. ASSUME NEW p \in Producer, TakeSocket(p) \/ WriteHead(p) \/ WriteFails(p)
      PROVE  Numbers' /\ Opened'
  <2>1. magicSent' = magicSent /\ seq' = seq
    BY <1>1 DEF TakeSocket, WriteHead, WriteFails
  <2>2. \/ pc[p] \in {"locking", "head"} /\ pc' \in {[pc EXCEPT ![p] = "head"], [pc EXCEPT ![p] = "tail"]}
        \/ pc' = [pc EXCEPT ![p] = "ended"]
    BY <1>1 DEF TakeSocket, WriteHead, WriteFails
  <2>3. \A q \in Producer : /\ pc'[q] \in {"locking", "head", "tail"} => pc[q] \in {"locking", "head", "tail"}
                            /\ pc'[q] = "opening" => pc[q] = "opening"
    BY <2>2 DEF TypeOK
  <2>4. "video" \in Producer
    BY DEF Producer
  <2>5. Opened'
    BY <2>1, <2>3, <2>4, Zenon DEF Opened
  <2>6. Numbers'
    BY <2>1, <2>3 DEF Numbers
  <2>7. QED BY <2>5, <2>6
<1>2. ASSUME NEW p \in Producer, WriteTail(p) PROVE Numbers' /\ Opened'
  BY <1>2 DEF WriteTail, TypeOK, Numbers, Opened
<1>3. CASE SendMagic \/ SendMagicFails \/ VideoEnds
  BY <1>3 DEF SendMagic, SendMagicFails, VideoEnds, Producer, TypeOK, Numbers, Opened
<1>4. CASE VideoFrame \/ PortalFails
  BY <1>4 DEF VideoFrame, PortalFails, Producer, TypeOK, Numbers, Opened
<1>5. ASSUME NEW a \in Audio,
             AudioSpawn(a) \/ AudioOpen(a) \/ AudioPacket(a) \/ AudioDrops(a) \/ AudioEnds(a)
      PROVE  Numbers' /\ Opened'
  BY <1>5 DEF AudioSpawn, AudioOpen, AudioPacket, AudioDrops, AudioEnds, Producer, TypeOK, Numbers, Opened
<1>6. CASE ClientCloses \/ UNCHANGED vars
  BY <1>6 DEF ClientCloses, vars, TypeOK, Numbers, Opened
<1>7. QED BY <1>1, <1>2, <1>3, <1>4, <1>5, <1>6 DEF Next, Write

-----------------------------------------------------------------------------
(* Steps that write nothing *)

\* Nobody is torn out of a tail but by a slow or a closed connection.
MovesKeepTails ==
    \A p \in Producer :
       /\ pc[p] = "ended" => pc'[p] = "ended"
       /\ pc'[p] = "tail" => pc[p] = "tail"
       /\ pc[p] = "tail" => pc'[p] = "tail" \/ (pc'[p] = "ended" /\ (SlowClient \/ gone))

\* A step that writes nothing keeps what is known of the stream.
LEMMA QuietKeeps ==
    ASSUME WireInv, MovesKeepTails, wire' = wire, magicSent' = magicSent, seq' = seq,
           magicSent => portal' = portal, gone => gone'
    PROVE  MagicFirst' /\ TailFollows' /\ HeadOpen' /\ CutsEnd' /\ Counted'
<1>1. \A i \in DOMAIN wire : wire[i] \in ChunkType
  BY LenProperties, ElementOfSeq DEF WireInv, TypeOK
<1>2. wire # <<>> => Len(wire) \in DOMAIN wire
  BY EmptySeq, LenProperties DEF WireInv, TypeOK
<1>3. MagicFirst'
  <2>1. magicSent => VideoCodec' = VideoCodec
    BY DEF VideoCodec
  <2>2. MagicFirst
    BY DEF WireInv
  <2>3. QED BY <2>1, <2>2 DEF MagicFirst
<1>4. TailFollows'
  <2>1. SUFFICES ASSUME NEW p \in Producer, pc'[p] = "tail"
                 PROVE  wire # <<>> /\ wire[Len(wire)] = Chunk("head", p)'
    BY DEF TailFollows
  <2>2. pc[p] = "tail" /\ magicSent /\ wire # <<>> /\ wire[Len(wire)] = Chunk("head", p)
    BY <2>1 DEF MovesKeepTails, WireInv, Opened, TailFollows
  <2>3. Chunk("head", p)' = Chunk("head", p)
    BY <2>2 DEF Chunk, CodecOf, VideoCodec
  <2>4. QED BY <2>2, <2>3
<1>5. HeadOpen'
  <2>1. SUFFICES ASSUME wire # <<>>, wire[Len(wire)].part = "head"
                 PROVE  LET p == wire[Len(wire)].by
                        IN  pc'[p] = "tail" \/ (pc'[p] = "ended" /\ (SlowClient \/ gone'))
    BY DEF HeadOpen
  <2> DEFINE p == wire[Len(wire)].by
  <2>2. p \in Producer
    BY <1>1, <1>2, <2>1 DEF ChunkType
  <2>3. pc[p] = "tail" \/ (pc[p] = "ended" /\ (SlowClient \/ gone))
    BY <2>1 DEF WireInv, HeadOpen
  <2> HIDE DEF p
  <2>4. pc'[p] = "tail" \/ (pc'[p] = "ended" /\ (SlowClient \/ gone'))
    BY <2>2, <2>3 DEF MovesKeepTails
  <2>5. QED BY <2>4 DEF p
<1>6. CutsEnd'
  <2>1. SUFFICES ASSUME NEW i \in DOMAIN wire, Torn(i)
                 PROVE  /\ SlowClient /\ pc'[wire[i].by] = "ended"
                        /\ \A j \in i + 1 .. Len(wire) : wire[j].by # wire[i].by
    BY DEF CutsEnd, Torn
  <2>2. /\ SlowClient /\ pc[wire[i].by] = "ended"
        /\ \A j \in i + 1 .. Len(wire) : wire[j].by # wire[i].by
    BY <2>1 DEF WireInv, CutsEnd
  <2>3. wire[i].by \in Producer
    BY <1>1 DEF ChunkType
  <2>4. QED BY <2>2, <2>3 DEF MovesKeepTails
<1>7. Counted'
  <2>1. Counted
    BY DEF WireInv
  <2>2. QED BY <2>1 DEF Counted, FramesBy, Frames, At, InStep, Torn, AnyCut
<1>8. QED BY <1>3, <1>4, <1>5, <1>6, <1>7

\* Nothing was received from anybody before the handshake line.
LEMMA NothingYet ==
    ASSUME WireInv, ~magicSent
    PROVE  \A p \in Producer : seq[p] = 0
<1>1. wire = <<>>
  BY DEF WireInv, MagicFirst
<1>2. DOMAIN wire = {}
  BY <1>1, EmptySeq, LenProperties DEF WireInv, TypeOK
<1>3. ~AnyCut /\ \A p \in Producer : FramesBy(p) = {}
  BY <1>2 DEF FramesBy, Frames, At, AnyCut
<1>4. QED BY <1>3, FS_EmptySet DEF WireInv, Counted

\* Every step that writes nothing.
LEMMA QuietStep ==
    ASSUME WireInv, TypeOK',
           \/ \E p \in Producer : TakeSocket(p) \/ WriteFails(p)
           \/ VideoFrame \/ SendMagicFails \/ PortalFails \/ VideoEnds
           \/ \E a \in Audio : \/ AudioSpawn(a) \/ AudioOpen(a) \/ AudioPacket(a)
                               \/ AudioDrops(a) \/ AudioEnds(a)
           \/ ClientCloses \/ UNCHANGED vars
    PROVE  MagicFirst' /\ TailFollows' /\ HeadOpen' /\ CutsEnd' /\ Counted'
<1>0. TypeOK
  BY DEF WireInv
<1>1. ASSUME NEW p \in Producer, TakeSocket(p) \/ WriteFails(p)
      PROVE  /\ MovesKeepTails /\ wire' = wire /\ magicSent' = magicSent /\ seq' = seq
             /\ portal' = portal /\ gone' = gone
  BY <1>0, <1>1 DEF TakeSocket, WriteFails, Goto, TypeOK, MovesKeepTails
<1>2. CASE VideoFrame \/ SendMagicFails \/ VideoEnds
  <2>1. /\ MovesKeepTails /\ wire' = wire /\ magicSent' = magicSent /\ seq' = seq
        /\ portal' = portal /\ gone' = gone
    BY <1>0, <1>2 DEF VideoFrame, SendMagicFails, VideoEnds, Goto, TypeOK, MovesKeepTails
  <2>2. QED BY <2>1, QuietKeeps
<1>3. CASE PortalFails
  <2>1. CASE magicSent
    <3>1. /\ MovesKeepTails /\ wire' = wire /\ magicSent' = magicSent /\ seq' = seq
          /\ portal' = portal /\ gone' = gone
      BY <1>0, <1>3, <2>1 DEF PortalFails, Goto, TypeOK, MovesKeepTails
    <3>2. QED BY <3>1, QuietKeeps
  <2>2. CASE ~magicSent
    <3>1. /\ wire' = wire /\ magicSent' = magicSent /\ pc' = pc /\ gone' = gone
          /\ seq' = [seq EXCEPT !["video"] = 0]
      BY <1>3, <2>2 DEF PortalFails
    <3>2. seq' = seq
      BY <1>0, <2>2, <3>1, NothingYet DEF TypeOK, Producer
    <3>3. MovesKeepTails
      BY <3>1 DEF MovesKeepTails
    <3>4. QED BY <2>2, <3>1, <3>2, <3>3, QuietKeeps
  <2>3. QED BY <2>1, <2>2
<1>4. ASSUME NEW a \in Audio,
             AudioSpawn(a) \/ AudioOpen(a) \/ AudioPacket(a) \/ AudioDrops(a) \/ AudioEnds(a)
      PROVE  /\ MovesKeepTails /\ wire' = wire /\ magicSent' = magicSent /\ seq' = seq
             /\ portal' = portal /\ gone' = gone
  BY <1>0, <1>4 DEF AudioSpawn, AudioOpen, AudioPacket, AudioDrops, AudioEnds, Goto, TypeOK,
                    MovesKeepTails, Producer
<1>5. CASE ClientCloses \/ UNCHANGED vars
  <2>1. /\ pc' = pc /\ wire' = wire /\ magicSent' = magicSent /\ seq' = seq
        /\ portal' = portal /\ (gone => gone')
    BY <1>5 DEF ClientCloses, vars
  <2>2. MovesKeepTails
    BY <2>1 DEF MovesKeepTails
  <2>3. QED BY <2>1, <2>2, QuietKeeps
<1>6. QED BY <1>1, <1>2, <1>3, <1>4, <1>5, QuietKeeps

-----------------------------------------------------------------------------
(* Steps that write *)

\* One more item may cut what was the last one, and leaves the others as they are.
LEMMA AppendTorn ==
    ASSUME TypeOK, NEW x \in ChunkType, wire' = Append(wire, x)
    PROVE  /\ \A i \in 1..Len(wire) : Torn(i) => i < Len(wire)
           /\ \A i \in 1..(Len(wire) + 1) : Torn(i)' => i \in 1..Len(wire)
           /\ \A i \in 1..Len(wire) : i < Len(wire) => Torn(i)' = Torn(i)
<1> DEFINE n == Len(wire)
<1>1. /\ n \in Nat /\ Len(wire') = n + 1 /\ \A i \in 1..n : wire'[i] = wire[i]
  BY AppendWire
<1>2. \A i \in 1..n : Torn(i) => i < n
  BY DEF Torn
<1> HIDE DEF n
<1>3. \A i \in 1..(n + 1) : Torn(i)' => i \in 1..n
  BY <1>1 DEF Torn
<1>4. ASSUME NEW i \in 1..n, i < n
      PROVE  Torn(i)' = Torn(i)
  <2>1. i + 1 \in 1..n /\ i < n + 1
    BY <1>1, <1>4
  <2>2. wire'[i] = wire[i] /\ wire'[i + 1] = wire[i + 1]
    BY <1>1, <2>1
  <2>3. Torn(i) <=> wire[i].part = "head" /\ wire[i + 1] # [wire[i] EXCEPT !.part = "tail"]
    BY <1>4 DEF Torn, n
  <2>4. Torn(i)' <=> wire'[i].part = "head" /\ wire'[i + 1] # [wire'[i] EXCEPT !.part = "tail"]
    BY <1>1, <2>1 DEF Torn
  <2>5. QED BY <2>2, <2>3, <2>4 DEF Torn
<1>5. QED BY <1>2, <1>3, <1>4 DEF n

\* One more item that is no tail, or is behind a cut, adds no envelope, and another
\* tail adds one.
LEMMA AppendFrames ==
    ASSUME TypeOK, NEW x \in ChunkType, wire' = Append(wire, x)
    PROVE  /\ x.part # "tail" \/ AnyCut => Frames' = Frames
           /\ x.part = "tail" /\ ~AnyCut' =>
                Frames' = Frames \cup {[at |-> Len(wire) + 1, by |-> x.by, seq |-> x.seq, codec |-> x.codec]}
           /\ \A f \in Frames : f.at \in 1..Len(wire)
           /\ AnyCut => AnyCut'
<1> DEFINE n == Len(wire)
<1>1. /\ n \in Nat /\ DOMAIN wire = 1..n /\ DOMAIN wire' = 1..(n + 1)
      /\ \A i \in 1..n : wire'[i] = wire[i]
      /\ wire'[n + 1] = x
  BY AppendWire
<1> HIDE DEF n
<1>2. At("tail")' = IF x.part = "tail" THEN At("tail") \cup {n + 1} ELSE At("tail")
  <2>1. \A i \in 1..(n + 1) : i \in 1..n \/ i = n + 1
    BY <1>1
  <2>2. QED BY <1>1, <2>1 DEF At
<1>3. \A i \in At("tail") : i \in 1..n /\ wire'[i] = wire[i]
  BY <1>1 DEF At
<1> DEFINE Old == {k \in At("tail") : InStep(k)}
           New == {k \in At("tail")' : InStep(k)'}
<1>4. Frames' = {[at |-> i, by |-> wire'[i].by, seq |-> wire'[i].seq, codec |-> wire'[i].codec]
                   : i \in New}
  BY DEF Frames
<1>5. Frames = {[at |-> i, by |-> wire'[i].by, seq |-> wire'[i].seq, codec |-> wire'[i].codec]
                   : i \in Old}
  BY <1>3 DEF Frames
<1>6. \A f \in Frames : f.at \in 1..n
  BY <1>3, <1>5
<1>10. /\ \A i \in 1..n : Torn(i) => i < n
       /\ \A i \in 1..(n + 1) : Torn(i)' => i \in 1..n
       /\ \A i \in 1..n : i < n => Torn(i)' = Torn(i)
  BY AppendTorn DEF n
<1>11. \A i \in 1..n : InStep(i)' = InStep(i)
  <2>1. SUFFICES ASSUME NEW i \in 1..n PROVE InStep(i)' = InStep(i)
    OBVIOUS
  <2>2. \A j \in 1..(n + 1) : j < i => j \in 1..n /\ j < n
    BY <1>1
  <2>3. InStep(i)' <=> ~\E j \in 1..(n + 1) : j < i /\ Torn(j)'
    BY <1>1 DEF InStep
  <2>4. InStep(i) <=> ~\E j \in 1..n : j < i /\ Torn(j)
    BY <1>1 DEF InStep
  <2>5. (\E j \in 1..(n + 1) : j < i /\ Torn(j)') <=> (\E j \in 1..n : j < i /\ Torn(j))
    BY <1>1, <1>10, <2>2
  <2>6. QED BY <2>3, <2>4, <2>5 DEF InStep
<1>12. AnyCut <=> \E j \in 1..n : Torn(j)
  BY <1>1 DEF AnyCut
<1>13. AnyCut' <=> \E j \in 1..(n + 1) : Torn(j)'
  BY <1>1 DEF AnyCut
<1>14. ASSUME NEW i \in 1..(n + 1), i = n + 1
       PROVE  InStep(i)' <=> ~AnyCut'
  <2>1. InStep(i)' <=> ~\E j \in 1..(n + 1) : j < n + 1 /\ Torn(j)'
    BY <1>1, <1>14 DEF InStep
  <2>2. \A j \in 1..(n + 1) : Torn(j)' => j < n + 1
    BY <1>1, <1>10
  <2>3. QED BY <1>13, <2>1, <2>2
<1>15. AnyCut => AnyCut'
  <2>1. SUFFICES ASSUME NEW j \in 1..n, Torn(j) PROVE Torn(j)' /\ j \in 1..(n + 1)
    BY <1>12, <1>13
  <2>2. QED BY <1>1, <1>10, <2>1
<1>16. n + 1 \notin 1..n
  BY <1>1
<1> HIDE DEF Old, New
<1>7. ASSUME x.part = "tail", ~AnyCut'
      PROVE  Frames' = Frames \cup {[at |-> n + 1, by |-> x.by, seq |-> x.seq, codec |-> x.codec]}
  <2>1. /\ At("tail")' = At("tail") \cup {n + 1} /\ wire'[n + 1] = x /\ n + 1 \in 1..(n + 1)
        /\ \A i \in 1..(n + 1) : i = n + 1 => InStep(i)'
    BY <1>1, <1>2, <1>7, <1>14
  <2>2. New = Old \cup {n + 1}
    BY <1>3, <1>11, <2>1 DEF Old, New
  <2>3. QED BY <1>4, <1>5, <2>1, <2>2
<1>8. ASSUME x.part # "tail" \/ AnyCut
      PROVE  Frames' = Frames
  <2>1. CASE x.part # "tail"
    <3>1. New = Old
      BY <1>2, <1>3, <1>11, <2>1 DEF Old, New
    <3>2. QED BY <1>4, <1>5, <3>1
  <2>2. CASE AnyCut
    <3>1. \A i \in 1..(n + 1) : i = n + 1 => ~InStep(i)'
      BY <1>14, <1>15, <2>2
    <3>2. New = Old
      BY <1>1, <1>2, <1>3, <1>11, <3>1 DEF Old, New
    <3>3. QED BY <1>4, <1>5, <3>2
  <2>3. QED BY <1>8, <2>1, <2>2
<1>9. QED BY <1>6, <1>7, <1>8, <1>15 DEF n

\* The rest of an envelope cuts nothing.
LEMMA TailCutsNothing ==
    ASSUME WireInv, NEW p \in Producer, WriteTail(p), ~AnyCut
    PROVE  ~AnyCut'
<1> DEFINE n == Len(wire)
           x == Chunk("tail", p)
<1>1. wire' = Append(wire, x) /\ x \in ChunkType /\ x = [Chunk("head", p) EXCEPT !.part = "tail"]
  BY ChunkTypes DEF WriteTail, WireInv
<1>2. wire # <<>> /\ wire[n] = Chunk("head", p)
  BY DEF WriteTail, WireInv, TailFollows
<1> HIDE DEF x
<1>3. /\ n \in Nat \ {0} /\ DOMAIN wire = 1..n /\ DOMAIN wire' = 1..(n + 1)
      /\ \A i \in 1..n : wire'[i] = wire[i]
      /\ wire'[n + 1] = x
  BY <1>1, <1>2, AppendWire, EmptySeq DEF WireInv, TypeOK
<1>4. ASSUME NEW i \in 1..n, i = n
      PROVE  ~Torn(i)'
  <2>1. wire'[i + 1] = [wire'[i] EXCEPT !.part = "tail"]
    BY <1>1, <1>2, <1>3, <1>4
  <2>2. QED BY <2>1 DEF Torn
<1>5. /\ \A i \in 1..(n + 1) : Torn(i)' => i \in 1..n
      /\ \A i \in 1..n : i < n => Torn(i)' = Torn(i)
  BY <1>1, AppendTorn DEF WireInv
<1> HIDE DEF n
<1>6. ASSUME NEW i \in 1..(n + 1), Torn(i)'
      PROVE  FALSE
  <2>1. i \in 1..n /\ i # n
    BY <1>4, <1>5, <1>6
  <2>2. i < n
    BY <1>3, <2>1
  <2>3. QED BY <1>3, <1>5, <1>6, <2>1, <2>2 DEF AnyCut
<1>7. QED BY <1>3, <1>6 DEF AnyCut

\* An item of the producer that holds the mutex cuts nothing of another one but
\* what its producer gave up, and completes its own head.
LEMMA AppendCuts ==
    ASSUME WireInv, ~gone, NEW p \in Producer, NEW x \in ChunkType, wire' = Append(wire, x),
           x.by = p, pc[p] \in {"head", "tail"}, pc[p] = "tail" => x = Chunk("tail", p),
           \A q \in Producer \ {p} : pc'[q] = pc[q]
    PROVE  CutsEnd'
<1> DEFINE n == Len(wire)
<1>1. /\ n \in Nat /\ DOMAIN wire = 1..n /\ DOMAIN wire' = 1..(n + 1) /\ Len(wire') = n + 1
      /\ \A i \in 1..n : wire'[i] = wire[i]
      /\ wire'[n + 1] = x
  BY AppendWire DEF WireInv
<1>2. \A i \in 1..n : wire[i].by \in Producer
  <2>1. \A i \in 1..n : wire[i] \in ChunkType
    BY ElementOfSeq DEF WireInv, TypeOK
  <2>2. QED BY <2>1 DEF ChunkType
<1> SUFFICES ASSUME NEW i \in 1..(n + 1), Torn(i)'
             PROVE  /\ SlowClient /\ pc'[wire'[i].by] = "ended"
                    /\ \A j \in i + 1 .. n + 1 : wire'[j].by # wire'[i].by
  BY <1>1 DEF CutsEnd
<1>3. i \in 1..n /\ wire'[i] = wire[i] /\ wire[i].part = "head"
      /\ wire'[i + 1] # [wire[i] EXCEPT !.part = "tail"]
  <2>1. wire'[i].part = "head" /\ i < Len(wire') /\ wire'[i + 1] # [wire'[i] EXCEPT !.part = "tail"]
    BY DEF Torn
  <2>2. i \in 1..n
    BY <1>1, <2>1
  <2>3. wire'[i] = wire[i]
    BY <1>1, <2>2
  <2>4. QED BY <2>1, <2>2, <2>3
<1>4. CASE i < n
  <2>1. Torn(i)
    BY <1>1, <1>3, <1>4 DEF Torn
  <2>2. /\ SlowClient /\ pc[wire[i].by] = "ended"
        /\ \A j \in i + 1 .. n : wire[j].by # wire[i].by
    BY <1>1, <1>3, <2>1 DEF WireInv, CutsEnd
  <2>3. wire[i].by # p
    BY <2>2
  <2>4. \A j \in i + 1 .. n + 1 : j \in i + 1 .. n \/ j = n + 1
    BY <1>1, <1>3
  <2>5. QED BY <1>1, <1>2, <1>3, <2>2, <2>3, <2>4
<1>5. CASE i = n
  <2> DEFINE q == wire[n].by
  <2>1. q \in Producer /\ n \in 1..n /\ wire # <<>>
    BY <1>1, <1>2, <1>3, <1>5, EmptySeq
  <2>2. pc[q] = "tail" \/ (pc[q] = "ended" /\ SlowClient)
    BY <1>3, <1>5, <2>1 DEF WireInv, HeadOpen
  <2>3. q = p => pc[p] = "tail"
    BY <2>2
  <2>4. pc[q] = "tail" => q = p
    BY <2>1 DEF WireInv, TypeOK
  <2>5. pc[q] # "tail"
    <3>1. SUFFICES ASSUME pc[q] = "tail" PROVE FALSE
      OBVIOUS
    <3>2. wire[n] = Chunk("head", p) /\ x = Chunk("tail", p)
      BY <2>4, <3>1 DEF WireInv, TailFollows
    <3>3. x = [wire[n] EXCEPT !.part = "tail"]
      BY <3>2, ChunkTypes DEF WireInv
    <3>4. QED BY <1>1, <1>3, <1>5, <3>3
  <2>6. q # p /\ pc'[q] = "ended" /\ SlowClient
    BY <2>1, <2>2, <2>3, <2>5
  <2> HIDE DEF q
  <2>7. wire'[i].by = q /\ \A j \in i + 1 .. n + 1 : wire'[j] = x
    BY <1>1, <1>3, <1>5 DEF q
  <2>8. QED BY <2>6, <2>7
<1>6. QED BY <1>1, <1>3, <1>4, <1>5

\* The head of an envelope.
LEMMA HeadStep ==
    ASSUME WireInv, NEW p \in Producer, WriteHead(p)
    PROVE  MagicFirst' /\ TailFollows' /\ HeadOpen' /\ CutsEnd' /\ Counted'
<1> DEFINE x == Chunk("head", p)
<1>1. /\ pc[p] = "head" /\ ~gone /\ wire' = Append(wire, x) /\ pc' = [pc EXCEPT ![p] = "tail"]
      /\ magicSent' = magicSent /\ lock' = lock /\ gone' = gone /\ portal' = portal /\ seq' = seq
  BY DEF WriteHead, Goto
<1>2. TypeOK /\ x \in ChunkType /\ x.by = p /\ x.part = "head" /\ magicSent /\ wire # <<>>
  BY <1>1, ChunkTypes DEF WireInv, Opened, MagicFirst
<1>3. x' = x
  BY <1>1 DEF Chunk, CodecOf, VideoCodec
<1>4. /\ pc'[p] = "tail" /\ \A q \in Producer \ {p} : pc'[q] = pc[q] /\ pc[q] \notin {"head", "tail"}
  BY <1>1, <1>2 DEF TypeOK
<1> HIDE DEF x
<1>5. /\ wire' # <<>> /\ Len(wire) \in Nat \ {0} /\ Len(wire') = Len(wire) + 1
      /\ DOMAIN wire = 1..Len(wire) /\ DOMAIN wire' = 1..(Len(wire) + 1)
      /\ \A i \in 1..Len(wire) : wire'[i] = wire[i]
      /\ wire'[Len(wire) + 1] = x
  BY <1>1, <1>2, AppendWire, EmptySeq DEF TypeOK
<1>6. MagicFirst'
  <2>1. VideoCodec' = VideoCodec
    BY <1>1 DEF VideoCodec
  <2>2. QED BY <1>1, <1>2, <1>5, <2>1 DEF WireInv, MagicFirst
<1>7. TailFollows'
  BY <1>3, <1>4, <1>5 DEF TailFollows, x
<1>8. HeadOpen'
  BY <1>2, <1>4, <1>5 DEF HeadOpen
<1>9. CutsEnd'
  BY <1>1, <1>2, <1>4, AppendCuts
<1>10. Counted'
  <2>1. Frames' = Frames /\ (AnyCut => AnyCut')
    BY <1>1, <1>2, AppendFrames
  <2>2. QED BY <1>1, <2>1 DEF WireInv, Counted, FramesBy
<1>11. QED BY <1>6, <1>7, <1>8, <1>9, <1>10

\* The rest of an envelope: the client has received one more.
LEMMA TailStep ==
    ASSUME WireInv, NEW p \in Producer, WriteTail(p)
    PROVE  MagicFirst' /\ TailFollows' /\ HeadOpen' /\ CutsEnd' /\ Counted'
<1> DEFINE x == Chunk("tail", p)
           f == [at |-> Len(wire) + 1, by |-> x.by, seq |-> x.seq, codec |-> x.codec]
<1>1. /\ pc[p] = "tail" /\ ~gone /\ wire' = Append(wire, x) /\ pc' = [pc EXCEPT ![p] = "idle"]
      /\ magicSent' = magicSent /\ gone' = gone /\ portal' = portal
      /\ seq' = [seq EXCEPT ![p] = @ + 1]
  BY DEF WriteTail, Goto
<1>2. TypeOK /\ x \in ChunkType /\ x.by = p /\ x.part = "tail" /\ magicSent /\ wire # <<>>
  BY <1>1, ChunkTypes DEF WireInv, Opened, MagicFirst, Chunk
<1>4. /\ pc'[p] = "idle" /\ \A q \in Producer \ {p} : pc'[q] = pc[q] /\ pc[q] \notin {"head", "tail"}
  BY <1>1, <1>2 DEF TypeOK
<1> HIDE DEF x
<1>5. /\ wire' # <<>> /\ Len(wire) \in Nat \ {0} /\ Len(wire') = Len(wire) + 1
      /\ DOMAIN wire = 1..Len(wire) /\ DOMAIN wire' = 1..(Len(wire) + 1)
      /\ \A i \in 1..Len(wire) : wire'[i] = wire[i]
      /\ wire'[Len(wire) + 1] = x
  BY <1>1, <1>2, AppendWire, EmptySeq DEF TypeOK
<1>6. MagicFirst'
  <2>1. VideoCodec' = VideoCodec
    BY <1>1 DEF VideoCodec
  <2>2. QED BY <1>1, <1>2, <1>5, <2>1 DEF WireInv, MagicFirst
<1>7. TailFollows'
  BY <1>4 DEF TailFollows
<1>8. HeadOpen'
  BY <1>2, <1>5 DEF HeadOpen
<1>9. CutsEnd'
  BY <1>1, <1>2, <1>4, AppendCuts DEF x
<1>10. Counted'
  <2>0. SUFFICES ASSUME ~AnyCut'
                 PROVE  \A q \in Producer : IsFiniteSet(FramesBy(q)') /\ Cardinality(FramesBy(q)') = seq'[q]
    BY DEF Counted
  <2>1. Frames' = Frames \cup {f} /\ (AnyCut => AnyCut') /\ \A g \in Frames : g.at \in 1..Len(wire)
    BY <1>1, <1>2, <2>0, AppendFrames
  <2>2. f \notin Frames /\ f.by = p
    BY <1>2, <1>5, <2>1
  <2> HIDE DEF f
  <2>3. FramesBy(p)' = FramesBy(p) \cup {f} /\ f \notin FramesBy(p)
    BY <2>1, <2>2 DEF FramesBy
  <2>4. \A q \in Producer \ {p} : FramesBy(q)' = FramesBy(q)
    BY <2>1, <2>2 DEF FramesBy
  <2>5. /\ \A q \in Producer : IsFiniteSet(FramesBy(q)) /\ Cardinality(FramesBy(q)) = seq[q]
        /\ seq \in [Producer -> 0..MaxSeq]
    BY <2>0, <2>1 DEF WireInv, TypeOK, Counted
  <2>6. IsFiniteSet(FramesBy(p)') /\ Cardinality(FramesBy(p)') = seq[p] + 1
    BY <2>3, <2>5, FS_AddElement
  <2>7. QED BY <1>1, <2>4, <2>5, <2>6
<1>11. QED BY <1>6, <1>7, <1>8, <1>9, <1>10

\* The handshake line.
LEMMA MagicStep ==
    ASSUME WireInv, SendMagic
    PROVE  MagicFirst' /\ TailFollows' /\ HeadOpen' /\ CutsEnd' /\ Counted'
<1> DEFINE x == Magic(VideoCodec)
<1>1. /\ pc["video"] = "opening" /\ lock = None /\ wire' = Append(wire, x) /\ magicSent'
      /\ pc' = [pc EXCEPT !["video"] = "locking"] /\ portal' = portal /\ seq' = seq
  BY DEF SendMagic, Goto
<1>2. "video" \in Producer /\ wire = <<>> /\ Len(wire) = 0
  BY <1>1, EmptySeq DEF WireInv, Opened, MagicFirst, Producer
<1>3. TypeOK /\ x \in ChunkType /\ x.part = "magic" /\ x.codec = VideoCodec
  BY <1>2, ChunkTypes DEF WireInv
<1> HIDE DEF x
<1>4. wire' # <<>> /\ Len(wire') = 1 /\ DOMAIN wire' = 1..1 /\ wire'[1] = x
  BY <1>1, <1>2, <1>3, AppendWire
<1>5. MagicFirst'
  <2>1. VideoCodec' = VideoCodec
    BY <1>1 DEF VideoCodec
  <2>2. QED BY <1>1, <1>3, <1>4, <2>1 DEF MagicFirst
<1>6. TailFollows'
  <2>1. \A p \in Producer : pc'[p] # "tail"
    BY <1>1, <1>2, <1>3, NoneAssumption DEF TypeOK, Producer
  <2>2. QED BY <2>1 DEF TailFollows
<1>7. HeadOpen' /\ CutsEnd'
  BY <1>3, <1>4 DEF HeadOpen, CutsEnd, Torn
<1>8. Counted'
  <2>1. Frames' = Frames /\ (AnyCut => AnyCut')
    BY <1>1, <1>3, AppendFrames
  <2>2. QED BY <1>1, <2>1 DEF WireInv, Counted, FramesBy
<1>9. QED BY <1>5, <1>6, <1>7, <1>8

-----------------------------------------------------------------------------
(* The theorems *)

\* The invariant holds in the beginning.
LEMMA InitInv == Init => WireInv
<1> SUFFICES ASSUME Init PROVE WireInv
  OBVIOUS
<1>1. wire = <<>> /\ wire \in Seq(ChunkType) /\ DOMAIN wire = {}
  BY EmptySeq, LenProperties DEF Init
<1>2. \A p \in Producer : pc[p] \in {"idle", "off"} /\ seq[p] = 0
  BY DEF Init
<1>3. TypeOK
  <2>1. /\ pc \in [Producer -> PcState] /\ seq \in [Producer -> 0..MaxSeq]
        /\ \A p \in Producer : pc[p] \notin {"head", "tail"} /\ lock # p
    BY NoneAssumption, SeqAssumption DEF Init, PcState, Producer
  <2>2. QED BY <1>1, <2>1, FlagAssumption DEF Init, TypeOK
<1>4. Numbers /\ Opened /\ TailFollows
  BY <1>2 DEF Numbers, Opened, TailFollows, Producer
<1>5. MagicFirst /\ HeadOpen /\ CutsEnd
  BY <1>1 DEF Init, MagicFirst, HeadOpen, CutsEnd
<1>6. Counted
  <2>1. \A p \in Producer : FramesBy(p) = {}
    BY <1>1 DEF FramesBy, Frames, At
  <2>2. QED BY <1>2, <2>1, FS_EmptySet DEF Counted
<1>7. QED BY <1>3, <1>4, <1>5, <1>6 DEF WireInv

\* Every step keeps the invariant.
LEMMA NextInv == WireInv /\ [Next]_vars => WireInv'
<1> SUFFICES ASSUME WireInv, [Next]_vars PROVE WireInv'
  OBVIOUS
<1>1. TypeOK'
  BY TypeStep DEF WireInv
<1>2. Numbers' /\ Opened'
  BY OpeningStep
<1>3. MagicFirst' /\ TailFollows' /\ HeadOpen' /\ CutsEnd' /\ Counted'
  BY <1>1, QuietStep, HeadStep, TailStep, MagicStep DEF Next, Write
<1>4. QED BY <1>1, <1>2, <1>3 DEF WireInv

\* However the producers interleave, and wherever a deadline, a disconnect or an
\* abort strikes.
THEOREM Invariance == Spec => []WireInv
<1>1. QED BY InitInv, NextInv, PTL DEF Spec

\* FramesAreWhole: no producer cuts an envelope of another.  One that is cut was given
\* up by its own producer, for a slow client only, and that producer has ended.
THEOREM Whole == Spec => []FramesAreWhole
<1>1. WireInv => FramesAreWhole
  BY DEF WireInv, CutsEnd, FramesAreWhole
<1>2. QED BY <1>1, Invariance, PTL

\* The client has read one handshake line as soon as it has read anything.
LEMMA LinesRead ==
    TypeOK /\ MagicFirst => Lines = IF wire = <<>> THEN {} ELSE {[at |-> 1, codec |-> VideoCodec]}
<1> SUFFICES ASSUME TypeOK, MagicFirst
             PROVE  Lines = IF wire = <<>> THEN {} ELSE {[at |-> 1, codec |-> VideoCodec]}
  OBVIOUS
<1>1. wire = <<>> => At("magic") = {}
  BY EmptySeq, LenProperties DEF TypeOK, At
<1>2. wire # <<>> => At("magic") = {1} /\ wire[1].codec = VideoCodec
  <2>1. wire # <<>> => 1 \in DOMAIN wire
    BY EmptySeq, LenProperties DEF TypeOK
  <2>2. QED BY <2>1 DEF MagicFirst, At
<1>3. QED BY <1>1, <1>2 DEF Lines

\* Every step of the socket is a step of the promise or invisible to the client.
LEMMA StepImplements ==
    ASSUME WireInv, WireInv', [Next]_vars
    PROVE  [Framed!Next]_<<Lines, Frames>>
<1>0. TypeOK /\ MagicFirst /\ TypeOK' /\ MagicFirst'
  BY DEF WireInv
<1>10. /\ Lines = IF wire = <<>> THEN {} ELSE {[at |-> 1, codec |-> VideoCodec]}
      /\ (Lines = IF wire = <<>> THEN {} ELSE {[at |-> 1, codec |-> VideoCodec]})'
  BY <1>0, LinesRead, PTL
<1>1. CASE wire' = wire
  <2>1. Lines' = Lines /\ Frames' = Frames
    BY <1>1 DEF Lines, Frames, At, InStep, Torn
  <2>2. QED BY <2>1
<1>2. ASSUME NEW p \in Producer, WriteHead(p)
      PROVE  [Framed!Next]_<<Lines, Frames>>
  <2>1. wire' = Append(wire, Chunk("head", p)) /\ magicSent' = magicSent /\ portal' = portal
    BY <1>2 DEF WriteHead
  <2>2. Frames' = Frames
    BY <1>0, <2>1, AppendFrames, ChunkTypes
  <2>3. wire # <<>> /\ wire' # <<>> /\ VideoCodec' = VideoCodec
    BY <1>0, <1>2, <2>1 DEF WriteHead, WireInv, Opened, MagicFirst, VideoCodec
  <2>4. Lines' = Lines
    BY <1>10, <2>3
  <2>5. QED BY <2>2, <2>4
<1>7. ASSUME NEW p \in Producer, WriteTail(p), AnyCut
      PROVE  Lines' = Lines /\ Frames' = Frames
  <2>1. wire' = Append(wire, Chunk("tail", p)) /\ magicSent' = magicSent /\ portal' = portal
    BY <1>7 DEF WriteTail
  <2>2. Frames' = Frames
    BY <1>0, <1>7, <2>1, AppendFrames, ChunkTypes
  <2>3. wire # <<>> /\ wire' # <<>> /\ VideoCodec' = VideoCodec
    BY <1>0, <1>7, <2>1 DEF WriteTail, WireInv, Opened, MagicFirst, VideoCodec
  <2>4. QED BY <1>10, <2>2, <2>3
<1>3. ASSUME NEW p \in Producer, WriteTail(p), ~AnyCut
      PROVE  Framed!Send(p)
  <2> DEFINE x == Chunk("tail", p)
             l == [at |-> 1, codec |-> VideoCodec]
             f == [at |-> Len(wire) + 1, by |-> p, seq |-> seq[p], codec |-> CodecOf(p)]
  <2>1. /\ wire' = Append(wire, x) /\ magicSent' = magicSent /\ portal' = portal /\ pc[p] = "tail"
    BY <1>3 DEF WriteTail
  <2>2. x \in ChunkType /\ x.part = "tail" /\ x.by = p /\ x.seq = seq[p] /\ x.codec = CodecOf(p)
    BY <1>0, ChunkTypes DEF Chunk
  <2> HIDE DEF x
  <2>3. Frames' = Frames \cup {f} /\ \A g \in Frames : g.at \in 1..Len(wire)
    BY <1>0, <1>3, <2>1, <2>2, AppendFrames, TailCutsNothing
  <2>4. wire # <<>> /\ wire' # <<>> /\ VideoCodec' = VideoCodec /\ Len(wire) \in Nat \ {0}
    BY <1>0, <1>3, <2>1, EmptySeq DEF WriteTail, WireInv, Opened, MagicFirst, VideoCodec, TypeOK
  <2>5. Lines' = Lines /\ Lines = {l}
    BY <1>10, <2>4
  <2>6. f.seq = Cardinality(FramesBy(p))
    BY <1>3 DEF WireInv, Counted
  <2>7. f.codec = IF p \in Audio THEN "opus" ELSE l.codec
    BY NoneAssumption DEF CodecOf, Producer
  <2>8. f \in Frames' /\ \A g \in Frames \cup {l} : g.at < f.at
    BY <2>3, <2>4
  <2>9. l \in Lines /\ f.by = p
    BY <2>5
  <2> HIDE DEF f, l
  <2>10. Framed!Sent(p) = Cardinality(FramesBy(p))
    BY DEF Framed!Sent, FramesBy, Framed!Cardinality, Cardinality
  <2>11. \E line \in Lines, frame \in Frames' :
            /\ Frames' = Frames \cup {frame}
            /\ frame.by = p /\ frame.seq = Framed!Sent(p)
            /\ frame.codec = IF p \in Audio THEN "opus" ELSE line.codec
            /\ \A item \in Frames \cup {line} : item.at < frame.at
    BY <2>3, <2>6, <2>7, <2>8, <2>9, <2>10
  <2>12. QED BY <2>5, <2>11 DEF Framed!Send
<1>4. CASE SendMagic
  <2>1. wire = <<>> /\ wire' = Append(wire, Magic(VideoCodec)) /\ portal' = portal
    BY <1>4 DEF SendMagic, WireInv, Opened, MagicFirst
  <2>2. Frames' = Frames /\ Frames = {}
    <3>1. Frames' = Frames
      BY <1>0, <2>1, AppendFrames, ChunkTypes DEF Producer
    <3>2. DOMAIN wire = {}
      BY <2>1, EmptySeq, LenProperties
    <3>3. QED BY <3>1, <3>2 DEF Frames, At
  <2>3. wire' # <<>> /\ VideoCodec' = VideoCodec /\ VideoCodec \in {"jpeg", "h264"}
    BY <1>0, <2>1, AppendWire, ChunkTypes DEF VideoCodec, Producer
  <2>4. Lines = {} /\ Lines' = {[at |-> 1, codec |-> VideoCodec]}
    BY <1>10, <2>1, <2>3
  <2>5. Framed!Open
    BY <2>2, <2>3, <2>4 DEF Framed!Open
  <2>6. QED BY <2>5 DEF Framed!Next
<1>5. \/ wire' = wire \/ SendMagic
      \/ \E p \in Producer : WriteHead(p) \/ WriteTail(p)
  BY DEF Next, Write, TakeSocket, WriteFails, VideoFrame, SendMagicFails, PortalFails, VideoEnds,
         AudioSpawn, AudioOpen, AudioPacket, AudioDrops, AudioEnds, ClientCloses, vars
<1>6. QED BY <1>1, <1>2, <1>3, <1>4, <1>5, <1>7 DEF Framed!Next

\* ImplementsFramedStream: what the client receives up to the first cut is one handshake
\* line and whole envelopes of the announced codec, numbered by each producer without a
\* gap; behind a cut it receives nothing more.
THEOREM Implements == Spec => ImplementsFramedStream
<1>1. Init => Framed!Init
  <2> SUFFICES ASSUME Init PROVE Framed!Init
    OBVIOUS
  <2>1. DOMAIN wire = {}
    BY EmptySeq, LenProperties DEF Init
  <2>2. QED BY <2>1 DEF Framed!Init, Lines, Frames, At
<1>2. WireInv /\ WireInv' /\ [Next]_vars => [Framed!Next]_<<Lines, Frames>>
  BY StepImplements
<1>3. QED BY <1>1, <1>2, Invariance, PTL DEF Spec, ImplementsFramedStream, Framed!Spec

-----------------------------------------------------------------------------
(* The pump: helper facts *)

\* Every set of numbers that is not empty has a least one.
LEMMA LeastOf ==
    ASSUME NEW S \in SUBSET Nat, S # {}
    PROVE  \E n \in S : \A m \in S : n <= m
<1>1. PICK n \in S : ~\E m \in S : <<m, n>> \in OpToRel(<, Nat)
  BY NatLessThanWellFounded, WFMin
<1>2. \A m \in S : n <= m
  BY <1>1 DEF OpToRel
<1>3. QED BY <1>2

\* Two functions that agree at the start, and next to every place where they agree, agree.
SameSteps(f, g, a, b) == f[a] = g[a] /\ \A i \in a + 1..b : f[i - 1] = g[i - 1] => f[i] = g[i]

\* So a function that takes these steps is known on the whole interval.
LEMMA SameValues ==
    ASSUME NEW a \in Nat, NEW b \in Nat, NEW f, NEW g, SameSteps(f, g, a, b)
    PROVE  \A i \in a..b : f[i] = g[i]
<1> DEFINE S == {i \in a..b : f[i] # g[i]}
<1>1. S = {}
  <2> SUFFICES ASSUME S # {} PROVE FALSE
    OBVIOUS
  <2>1. S \in SUBSET Nat
    OBVIOUS
  <2>2. PICK n \in S : \A m \in S : n <= m
    BY <2>1, LeastOf
  <2>3. n \in a + 1..b
    BY DEF SameSteps
  <2>4. n - 1 \in a..b /\ ~(n <= n - 1)
    BY <2>3
  <2>5. f[n - 1] = g[n - 1]
    BY <2>2, <2>4
  <2>6. QED BY <2>2, <2>3, <2>5 DEF SameSteps
<1>2. QED BY <1>1

\* The bytes m + 1 .. n of a sequence.
LEMMA SubSeqIs ==
    ASSUME NEW s \in Seq(Nat), NEW m \in Nat, NEW n \in Nat, m <= n, n <= Len(s)
    PROVE  /\ SubSeq(s, m + 1, n) \in Seq(Nat) /\ Len(SubSeq(s, m + 1, n)) = n - m
           /\ \A i \in 1..n - m : SubSeq(s, m + 1, n)[i] = s[m + i]
<1>1. ASSUME NEW i \in 1..n - m PROVE m + 1 + i - 1 = m + i /\ m + i \in 1..Len(s)
  <2>1. Len(s) \in Nat
    BY LenProperties
  <2>2. QED BY <2>1
<1>2. QED BY <1>1, SubSeqProperties, LenProperties

-----------------------------------------------------------------------------
(* The H.264 stream as blocks: every NAL unit has six bytes. *)

\* A start code, of four bytes or of three, and no zero behind it.
IsBlock(u) ==
    /\ u \in [1..6 -> Nat] /\ u[1] = 0 /\ u[2] = 0 /\ u[5] # 0 /\ u[6] # 0
    /\ (u[3] = 0 /\ u[4] = 1) \/ (u[3] = 1 /\ u[4] # 0)

Blocks(B) == B \in Seq([1..6 -> Nat]) /\ \A t \in 1..Len(B) : IsBlock(B[t])

\* The bytes of the blocks, one behind the other.
Stream(B) == [i \in 1..6 * Len(B) |-> B[(i - 1) \div 6 + 1][((i - 1) % 6) + 1]]

\* The bytes of the stream, block by block.
LEMMA StreamAt ==
    ASSUME NEW B, Blocks(B)
    PROVE  /\ Stream(B) \in Seq(Nat) /\ Len(Stream(B)) = 6 * Len(B) /\ Len(B) \in Nat
           /\ \A q \in 0..Len(B) - 1, r \in 1..6 : Stream(B)[6 * q + r] = B[q + 1][r]
<1>1. Len(B) \in Nat /\ DOMAIN B = 1..Len(B)
  BY LenProperties DEF Blocks
<1>2. ASSUME NEW i \in 1..6 * Len(B)
      PROVE  (i - 1) \div 6 + 1 \in 1..Len(B) /\ ((i - 1) % 6) + 1 \in 1..6
  BY <1>1
<1>3. Stream(B) \in [1..6 * Len(B) -> Nat]
  BY <1>1, <1>2 DEF Stream, Blocks, IsBlock
<1>4. 6 * Len(B) \in Nat
  BY <1>1
<1>5. ASSUME NEW q \in 0..Len(B) - 1, NEW r \in 1..6
      PROVE  Stream(B)[6 * q + r] = B[q + 1][r]
  <2>1. 6 * q + r \in 1..6 * Len(B) /\ (6 * q + r - 1) \div 6 = q /\ (6 * q + r - 1) % 6 = r - 1
    BY <1>1
  <2>2. (r - 1) + 1 = r
    OBVIOUS
  <2>3. QED BY <2>1, <2>2 DEF Stream
<1> HIDE DEF Stream
<1>6. Stream(B) \in Seq(Nat) /\ Len(Stream(B)) = 6 * Len(B)
  BY <1>3, <1>4
<1>7. QED BY <1>1, <1>5, <1>6

\* How many blocks have their start code (the last three bytes of it) before offset i.
Found(B, i) ==
    i \div 6 + (IF i % 6 = 0 \/ (i % 6 = 1 /\ B[i \div 6 + 1][3] = 0) THEN 0 ELSE 1)

\* How many start codes are behind each of the six offsets of a block.
LEMMA FoundAt ==
    ASSUME NEW B, NEW q \in Nat
    PROVE  /\ Found(B, 6 * q) = q
           /\ Found(B, 6 * q + 1) = (IF B[q + 1][3] = 0 THEN q ELSE q + 1)
           /\ \A r \in 2..5 : Found(B, 6 * q + r) = q + 1
<1>1. (6 * q) \div 6 = q /\ (6 * q) % 6 = 0
  OBVIOUS
<1>2. (6 * q + 1) \div 6 = q /\ (6 * q + 1) % 6 = 1
  OBVIOUS
<1>3. ASSUME NEW r \in 2..5 PROVE (6 * q + r) \div 6 = q /\ (6 * q + r) % 6 = r
  OBVIOUS
<1>4. QED BY <1>1, <1>2, <1>3 DEF Found

\* The bytes base * 6 .. L - 1 of the stream, and what a reader knows of a block in them.
Held(B, base, L) == SubSeq(Stream(B), 6 * base + 1, L)
Header(u) == IF u[3] = 1 THEN u[4] ELSE u[5]
Flags(u) == IF u[3] = 1 THEN u[5] ELSE u[6]
NalOf(B, base, t) ==
    [start |-> 6 * (t - 1),
     kind |-> Header(B[base + t]) % 32,
     firstSlice |-> Flags(B[base + t]) >= 128]

\* The bytes a reader holds, block by block.
LEMMA HeldAt ==
    ASSUME NEW B, Blocks(B), NEW base \in Nat, NEW L \in Nat, 6 * base <= L, L <= 6 * Len(B)
    PROVE  /\ Held(B, base, L) \in Seq(Nat) /\ Len(Held(B, base, L)) = L - 6 * base
           /\ \A q \in Nat, r \in 1..6 : 6 * q + r <= L - 6 * base =>
                 /\ Held(B, base, L)[6 * q + r] = B[base + q + 1][r]
                 /\ base + q + 1 \in 1..Len(B)
<1>1. Stream(B) \in Seq(Nat) /\ Len(Stream(B)) = 6 * Len(B) /\ Len(B) \in Nat
  BY StreamAt
<1>2. 6 * base + 1 \in 1..Len(Stream(B)) + 1 /\ L \in 6 * base..Len(Stream(B))
  BY <1>1
<1> DEFINE s == Stream(B)
<1> HIDE DEF s
<1>4. /\ Held(B, base, L) \in Seq(Nat) /\ Len(Held(B, base, L)) = L - 6 * base
      /\ \A i \in 1..L - 6 * base : Held(B, base, L)[i] = Stream(B)[6 * base + i]
  <2>1. 6 * base <= L /\ L <= Len(s) /\ s \in Seq(Nat) /\ 6 * base \in Nat
    BY <1>1 DEF s
  <2>2. QED BY <2>1, SubSeqIs DEF Held, s
<1>5. ASSUME NEW q \in Nat, NEW r \in 1..6, 6 * q + r <= L - 6 * base
      PROVE  /\ Held(B, base, L)[6 * q + r] = B[base + q + 1][r]
             /\ base + q + 1 \in 1..Len(B)
  <2>1. base + q \in 0..Len(B) - 1 /\ 6 * q + r \in 1..L - 6 * base
    BY <1>1, <1>5
  <2>2. 6 * base + (6 * q + r) = 6 * (base + q) + r /\ (base + q) + 1 = base + q + 1
    BY <1>5
  <2>3. Held(B, base, L)[6 * q + r] = Stream(B)[6 * (base + q) + r]
    BY <1>4, <2>1, <2>2
  <2>4. Stream(B)[6 * (base + q) + r] = B[base + q + 1][r]
    BY <2>1, <2>2, StreamAt
  <2>5. base + q + 1 \in 1..Len(B)
    BY <1>1, <2>1
  <2>6. QED BY <2>3, <2>4, <2>5
<1>6. QED BY <1>4, <1>5

\* The start codes that a scan meets are those of the blocks.
LEMMA CodesOfBlocks ==
    ASSUME NEW B, Blocks(B), NEW base \in Nat, NEW L \in Nat, 6 * base <= L, L <= 6 * Len(B),
           NEW i \in Nat, i <= L - 6 * base - 5
    PROVE  LET b == Held(B, base, L)
               n == Found(B, 6 * base + i)
           IN  IF StartCode(b, i) THEN /\ Found(B, 6 * base + i + 1) = n + 1
                                       /\ NalAt(b, i) = NalOf(B, base, n + 1 - base)
               ELSE Found(B, 6 * base + i + 1) = n
<1> DEFINE b == Held(B, base, L)
           q == i \div 6
           r == i % 6
           u == B[base + q + 1]
<1>1. q \in Nat /\ r \in 0..5 /\ i = 6 * q + r
  OBVIOUS
<1> HIDE DEF b, q, r
<1>2. \A p \in Nat, x \in 1..6 : 6 * p + x <= L - 6 * base =>
          b[6 * p + x] = B[base + p + 1][x] /\ base + p + 1 \in 1..Len(B)
  BY HeldAt DEF b
<1>3. IsBlock(u) /\ u[1] = 0
  <2>1. 6 * q + 1 <= L - 6 * base
    BY <1>1
  <2>2. QED BY <1>2, <2>1, <1>1 DEF Blocks, IsBlock
<1>4. ASSUME NEW x \in 1..6, 6 * q + x <= L - 6 * base PROVE b[6 * q + x] = u[x]
  BY <1>1, <1>2, <1>4
<1>5. u[1] = 0 /\ u[2] = 0 /\ u[5] # 0 /\ u[6] # 0 /\ ((u[3] = 0 /\ u[4] = 1) \/ (u[3] = 1 /\ u[4] # 0))
  BY <1>3 DEF IsBlock
<1>6. 6 * base + i = 6 * (base + q) + r /\ base + q \in Nat
  BY <1>1
<1>7. /\ Found(B, 6 * (base + q)) = base + q
      /\ Found(B, 6 * (base + q) + 1) = (IF u[3] = 0 THEN base + q ELSE base + q + 1)
      /\ \A x \in 2..5 : Found(B, 6 * (base + q) + x) = base + q + 1
      /\ Found(B, 6 * (base + q) + 6) = base + q + 1
  <2>1. (base + q) + 1 = base + q + 1 /\ 6 * (base + q) + 6 = 6 * (base + q + 1) /\ base + q + 1 \in Nat
    BY <1>1
  <2>2. \A n \in Nat : /\ Found(B, 6 * n) = n
                      /\ Found(B, 6 * n + 1) = (IF B[n + 1][3] = 0 THEN n ELSE n + 1)
                      /\ \A x \in 2..5 : Found(B, 6 * n + x) = n + 1
    BY FoundAt
  <2> DEFINE n == base + q
  <2>3. n \in Nat /\ u = B[n + 1] /\ n + 1 \in Nat /\ 6 * n + 6 = 6 * (n + 1)
    BY <1>6, <2>1
  <2> HIDE DEF n, u
  <2>4. /\ Found(B, 6 * n) = n /\ Found(B, 6 * n + 1) = (IF u[3] = 0 THEN n ELSE n + 1)
        /\ \A x \in 2..5 : Found(B, 6 * n + x) = n + 1
        /\ Found(B, 6 * (n + 1)) = n + 1
    BY ONLY <2>2, <2>3
  <2>5. QED BY <2>3, <2>4 DEF n
<1> DEFINE Goal == IF StartCode(b, i)
                   THEN /\ Found(B, 6 * base + i + 1) = Found(B, 6 * base + i) + 1
                        /\ NalAt(b, i) = NalOf(B, base, Found(B, 6 * base + i) + 1 - base)
                   ELSE Found(B, 6 * base + i + 1) = Found(B, 6 * base + i)
<1>8. CASE r = 0
  <2>1. b[i + 1] = 0 /\ b[i + 2] = 0 /\ b[i + 3] = u[3] /\ b[i + 4] = u[4] /\ b[i + 5] = u[5]
    <3>1. i + 1 = 6 * q + 1 /\ i + 2 = 6 * q + 2 /\ i + 3 = 6 * q + 3 /\ i + 4 = 6 * q + 4 /\ i + 5 = 6 * q + 5
      BY <1>1, <1>8
    <3>2. \A x \in 1..5 : 6 * q + x <= L - 6 * base
      BY <1>1, <1>8
    <3>3. b[6 * q + 1] = u[1] /\ b[6 * q + 2] = u[2] /\ b[6 * q + 3] = u[3] /\ b[6 * q + 4] = u[4] /\ b[6 * q + 5] = u[5]
      BY <1>4, <3>2
    <3>4. QED BY <1>5, <3>1, <3>3
  <2>2. StartCode(b, i) <=> u[3] = 1
    BY <2>1 DEF StartCode
  <2>3. i > 0 => b[i] # 0
    <3> SUFFICES ASSUME i > 0 PROVE b[i] # 0
      OBVIOUS
    <3>1. q - 1 \in Nat /\ 6 * (q - 1) + 6 = i /\ 6 * (q - 1) + 6 <= L - 6 * base
      BY <1>1, <1>8
    <3>2. b[i] = B[base + (q - 1) + 1][6] /\ base + (q - 1) + 1 \in 1..Len(B)
      <4>1. b[6 * (q - 1) + 6] = B[base + (q - 1) + 1][6] /\ base + (q - 1) + 1 \in 1..Len(B)
        <5> DEFINE p == q - 1
        <5>1. p \in Nat /\ 6 * p + 6 <= L - 6 * base
          BY <3>1
        <5> HIDE DEF p
        <5>2. b[6 * p + 6] = B[base + p + 1][6] /\ base + p + 1 \in 1..Len(B)
          BY <1>2, <5>1
        <5>3. QED BY <5>2 DEF p
      <4>2. QED BY <3>1, <4>1
    <3>3. QED BY <3>2 DEF Blocks, IsBlock
  <2>4. Found(B, 6 * base + i) = base + q /\ 6 * base + i + 1 = 6 * (base + q) + 1 /\ i = 6 * q
    BY <1>1, <1>6, <1>7, <1>8
  <2>5. CASE u[3] = 1
    <3>1. base + q + 1 - base = q + 1 /\ 6 * (q + 1 - 1) = i /\ base + (q + 1) = base + q + 1
      BY <1>1, <2>4
    <3>2. NalAt(b, i) = [start |-> i, kind |-> u[4] % 32, firstSlice |-> u[5] >= 128]
      BY <2>1, <2>3 DEF NalAt
    <3>3. NalOf(B, base, q + 1) = [start |-> i, kind |-> u[4] % 32, firstSlice |-> u[5] >= 128]
      <4>1. Header(u) = u[4] /\ Flags(u) = u[5]
        BY <2>5 DEF Header, Flags
      <4>2. Header(B[base + (q + 1)]) = u[4] /\ Flags(B[base + (q + 1)]) = u[5]
        BY <3>1, <4>1
      <4> HIDE DEF u
      <4>3. QED BY <1>1, <3>1, <4>2 DEF NalOf
    <3>4. QED BY <1>7, <2>2, <2>4, <2>5, <3>1, <3>2, <3>3 DEF b
  <2>6. CASE u[3] = 0
    BY <1>7, <2>2, <2>4, <2>6 DEF b
  <2>7. QED BY <1>5, <2>5, <2>6
<1>9. CASE r = 1
  <2>1. b[i] = 0 /\ b[i + 1] = 0 /\ b[i + 2] = u[3] /\ b[i + 3] = u[4] /\ b[i + 4] = u[5] /\ b[i + 5] = u[6]
    <3>1. i = 6 * q + 1 /\ i + 1 = 6 * q + 2 /\ i + 2 = 6 * q + 3 /\ i + 3 = 6 * q + 4 /\ i + 4 = 6 * q + 5 /\ i + 5 = 6 * q + 6
      BY <1>1, <1>9
    <3>2. \A x \in 1..6 : 6 * q + x <= L - 6 * base
      BY <1>1, <1>9
    <3>3. /\ b[6 * q + 1] = u[1] /\ b[6 * q + 2] = u[2] /\ b[6 * q + 3] = u[3] /\ b[6 * q + 4] = u[4]
          /\ b[6 * q + 5] = u[5] /\ b[6 * q + 6] = u[6]
      BY <1>4, <3>2
    <3>4. QED BY <1>5, <3>1, <3>3
  <2>2. StartCode(b, i) <=> u[3] = 0
    BY <1>5, <2>1 DEF StartCode
  <2>4. 6 * base + i = 6 * (base + q) + 1 /\ 6 * base + i + 1 = 6 * (base + q) + 2 /\ i = 6 * q + 1
    BY <1>1, <1>6, <1>9
  <2>5. CASE u[3] = 0
    <3>1. base + q + 1 - base = q + 1 /\ 6 * (q + 1 - 1) = i - 1 /\ base + (q + 1) = base + q + 1 /\ i > 0
      BY <1>1, <2>4
    <3>2. NalAt(b, i) = [start |-> i - 1, kind |-> u[5] % 32, firstSlice |-> u[6] >= 128]
      BY <2>1, <3>1 DEF NalAt
    <3>3. NalOf(B, base, q + 1) = [start |-> i - 1, kind |-> u[5] % 32, firstSlice |-> u[6] >= 128]
      <4>1. Header(u) = u[5] /\ Flags(u) = u[6]
        BY <2>5 DEF Header, Flags
      <4>2. Header(B[base + (q + 1)]) = u[5] /\ Flags(B[base + (q + 1)]) = u[6]
        BY <3>1, <4>1
      <4> HIDE DEF u
      <4>3. QED BY <1>1, <3>1, <4>2 DEF NalOf
    <3>4. Found(B, 6 * base + i) = base + q /\ Found(B, 6 * base + i + 1) = base + q + 1
      BY <1>7, <2>4, <2>5
    <3>5. QED BY <2>2, <2>5, <3>1, <3>2, <3>3, <3>4 DEF b
  <2>6. CASE u[3] = 1
    <3>1. Found(B, 6 * base + i) = base + q + 1 /\ Found(B, 6 * base + i + 1) = base + q + 1
      BY <1>7, <2>4, <2>6
    <3>2. QED BY <2>2, <2>6, <3>1 DEF b
  <2>7. QED BY <1>5, <2>5, <2>6
<1>10. CASE r \in 2..5
  <2>1. ~StartCode(b, i)
    <3>1. CASE r = 2
      <4>1. i + 1 = 6 * q + 3 /\ i + 2 = 6 * q + 4 /\ 6 * q + 3 <= L - 6 * base /\ 6 * q + 4 <= L - 6 * base
        BY <1>1, <3>1
      <4>2. b[i + 1] = u[3] /\ b[i + 2] = u[4]
        BY <1>4, <4>1
      <4>3. QED BY <1>5, <4>2 DEF StartCode
    <3>2. CASE r = 3
      <4>1. i + 2 = 6 * q + 5 /\ 6 * q + 5 <= L - 6 * base
        BY <1>1, <3>2
      <4>2. b[i + 2] = u[5]
        BY <1>4, <4>1
      <4>3. QED BY <1>5, <4>2 DEF StartCode
    <3>3. CASE r = 4
      <4>1. i + 1 = 6 * q + 5 /\ 6 * q + 5 <= L - 6 * base
        BY <1>1, <3>3
      <4>2. b[i + 1] = u[5]
        BY <1>4, <4>1
      <4>3. QED BY <1>5, <4>2 DEF StartCode
    <3>4. CASE r = 5
      <4>1. i + 1 = 6 * q + 6 /\ 6 * q + 6 <= L - 6 * base
        BY <1>1, <3>4
      <4>2. b[i + 1] = u[6]
        BY <1>4, <4>1
      <4>3. QED BY <1>5, <4>2 DEF StartCode
    <3>5. QED BY <1>10, <3>1, <3>2, <3>3, <3>4
  <2>2. Found(B, 6 * base + i) = base + q + 1
    BY <1>6, <1>7, <1>10
  <2>3. Found(B, 6 * base + i + 1) = base + q + 1
    <3>1. r + 1 \in 2..5 \/ r + 1 = 6
      BY <1>10
    <3>2. 6 * base + i + 1 = 6 * (base + q) + (r + 1)
      BY <1>1, <1>6
    <3>3. QED BY <1>7, <3>1, <3>2
  <2>4. QED BY <2>1, <2>2, <2>3 DEF b
<1>11. r = 0 \/ r = 1 \/ r \in 2..5
  BY <1>1
<1>12. QED BY <1>8, <1>9, <1>10, <1>11 DEF b

\* A saturating subtraction ends at zero.
LEMMA ClippedIs == \A n \in Int : Clipped(n) \in Nat /\ Clipped(n) = IF n > 0 THEN n ELSE 0
<1> SUFFICES ASSUME NEW n \in Int PROVE Clipped(n) = IF n > 0 THEN n ELSE 0
  OBVIOUS
<1> DEFINE Best(x) == x \in {n, 0} /\ \A y \in {n, 0} : x >= y
           m == IF n > 0 THEN n ELSE 0
<1>1. Best(m)
  OBVIOUS
<1>2. \A x : Best(x) => x = m
  OBVIOUS
<1>3. Clipped(n) = CHOOSE x \in {n, 0} : \A y \in {n, 0} : x >= y
  BY DEF Clipped, Max
<1> HIDE DEF m
<1>4. QED BY <1>1, <1>2, <1>3 DEF m

\* What is found does not go down, and is at most what there is.
LEMMA FoundGrows ==
    ASSUME NEW B, Blocks(B), NEW base \in Nat, NEW i \in Nat, 6 * base + i <= 6 * Len(B)
    PROVE  Found(B, 6 * base + i) \in base..Len(B)
<1>1. Len(B) \in Nat
  BY StreamAt
<1> DEFINE q == i \div 6
           r == i % 6
<1>2. q \in Nat /\ r \in 0..5 /\ i = 6 * q + r
  OBVIOUS
<1> HIDE DEF q, r
<1>3. 6 * base + i = 6 * (base + q) + r /\ base + q \in Nat
  BY <1>2
<1>4. CASE r = 0
  <2>1. Found(B, 6 * base + i) = base + q
    <3>1. Found(B, 6 * (base + q)) = base + q /\ 6 * base + i = 6 * (base + q)
      BY <1>3, <1>4, FoundAt
    <3>2. QED BY <3>1
  <2>2. QED BY <1>1, <1>2, <1>3, <1>4, <2>1
<1>5. CASE r = 1
  <2>1. Found(B, 6 * base + i) \in {base + q, base + q + 1}
    <3>1. base + q \in Nat /\ 6 * base + i = 6 * (base + q) + 1
      BY <1>3, <1>5
    <3>2. Found(B, 6 * (base + q) + 1) \in {base + q, base + q + 1}
      BY ONLY <3>1, FoundAt
    <3>3. QED BY ONLY <3>1, <3>2
  <2>2. QED BY <1>1, <1>2, <1>3, <1>5, <2>1
<1>6. CASE r \in 2..5
  <2>1. Found(B, 6 * base + i) = base + q + 1
    <3>1. \A x \in 2..5 : Found(B, 6 * (base + q) + x) = (base + q) + 1
      BY <1>3, FoundAt
    <3>2. QED BY <1>2, <1>3, <1>6, <3>1
  <2>2. QED BY <1>1, <1>2, <1>3, <1>6, <2>1
<1>7. QED BY <1>2, <1>4, <1>5, <1>6

\* What a reader has of the first m blocks, and a reader that holds the bytes
\* base * 6 .. L - 1 of the stream.
NalsTo(B, base, m) == [t \in 1..m - base |-> NalOf(B, base, t)]
ReaderOf(B, base, L) ==
    LET end == Clipped(L - 6 * base - 4)
    IN  [buffer |-> Held(B, base, L), nals |-> NalsTo(B, base, Found(B, 6 * base + end)),
         scanFrom |-> end]

\* The units of AnnexB.
Nal == [start : Nat, kind : 0..31, firstSlice : BOOLEAN]

\* What a reader reads off a block has the types of a NAL unit.
LEMMA KindOfBlock == \A u : IsBlock(u) => Header(u) % 32 \in 0..31 /\ Header(u) \in Nat /\ Flags(u) \in Nat
<1> SUFFICES ASSUME NEW u, IsBlock(u) PROVE Header(u) % 32 \in 0..31 /\ Header(u) \in Nat /\ Flags(u) \in Nat
  OBVIOUS
<1>1. Header(u) \in Nat /\ Flags(u) \in Nat
  BY DEF IsBlock, Header, Flags
<1>2. QED BY <1>1

\* The units known of the first m blocks, in the order of the blocks.
LEMMA NalsAre ==
    ASSUME NEW B, Blocks(B), NEW base \in Nat, NEW m \in base..Len(B)
    PROVE  /\ NalsTo(B, base, m) \in Seq(Nal) /\ Len(NalsTo(B, base, m)) = m - base
           /\ \A t \in 1..m - base : NalsTo(B, base, m)[t] = NalOf(B, base, t) /\ NalOf(B, base, t) \in Nal
<1>1. Len(B) \in Nat
  BY StreamAt
<1>2. ASSUME NEW t \in 1..m - base PROVE NalOf(B, base, t) \in Nal
  <2>1. base + t \in 1..Len(B)
    BY <1>1
  <2>2. IsBlock(B[base + t])
    BY <2>1 DEF Blocks
  <2>3. Header(B[base + t]) % 32 \in 0..31
    BY <2>2, KindOfBlock
  <2>4. 6 * (t - 1) \in Nat
    <3>1. t - 1 \in Nat
      BY <1>1
    <3>2. QED BY <3>1
  <2> HIDE DEF Nal
  <2>5. [start |-> 6 * (t - 1), kind |-> Header(B[base + t]) % 32,
         firstSlice |-> Flags(B[base + t]) >= 128] \in Nal
    BY <2>3, <2>4 DEF Nal
  <2>6. QED BY <2>5 DEF NalOf
<1>3. m - base \in Nat
  BY <1>1
<1> DEFINE s == NalsTo(B, base, m)
<1>4. s \in [1..m - base -> Nal]
  BY <1>2 DEF NalsTo
<1>5. \A t \in 1..m - base : s[t] = NalOf(B, base, t)
  BY DEF NalsTo
<1> HIDE DEF s, Nal
<1>6. s \in Seq(Nal) /\ Len(s) = m - base
  BY <1>3, <1>4, LenProperties
<1>7. QED BY <1>2, <1>5, <1>6 DEF s

\* Another block is another unit at the end.
LEMMA NalsNext ==
    ASSUME NEW B, Blocks(B), NEW base \in Nat, NEW m \in base..Len(B),
           NEW n \in base..Len(B), n = m + 1
    PROVE  Append(NalsTo(B, base, m), NalOf(B, base, n - base)) = NalsTo(B, base, n)
<1>1. Len(B) \in Nat /\ m - base \in Nat /\ n - base = m - base + 1
  BY StreamAt
<1> DEFINE s == NalsTo(B, base, m)
           e == NalOf(B, base, n - base)
           w == NalsTo(B, base, n)
<1>2. /\ s \in Seq(Nal) /\ Len(s) = m - base /\ \A t \in 1..m - base : s[t] = NalOf(B, base, t)
      /\ w \in Seq(Nal) /\ Len(w) = n - base /\ \A t \in 1..n - base : w[t] = NalOf(B, base, t)
      /\ e \in Nal
  <2>1. n - base \in 1..n - base
    BY <1>1
  <2>2. s \in Seq(Nal) /\ Len(s) = m - base /\ \A t \in 1..m - base : s[t] = NalOf(B, base, t)
    BY NalsAre
  <2>3. /\ w \in Seq(Nal) /\ Len(w) = n - base
        /\ \A t \in 1..n - base : w[t] = NalOf(B, base, t) /\ NalOf(B, base, t) \in Nal
    BY NalsAre
  <2>4. QED BY <2>1, <2>2, <2>3
<1> HIDE DEF s, e, w, Nal
<1>3. Append(s, e) \in Seq(Nal) /\ Len(Append(s, e)) = Len(s) + 1
      /\ (\A i \in 1..Len(s) : Append(s, e)[i] = s[i]) /\ Append(s, e)[Len(s) + 1] = e
  BY <1>2, AppendProperties
<1>4. ASSUME NEW t \in 1..Len(w) PROVE Append(s, e)[t] = w[t]
  <2>1. CASE t <= m - base
    BY <1>1, <1>2, <1>3, <2>1
  <2>2. CASE t = n - base
    <3>1. e = NalOf(B, base, n - base)
      BY DEF e
    <3>2. QED BY <1>1, <1>2, <1>3, <2>2, <3>1
  <2>3. QED BY <1>1, <1>2, <2>1, <2>2
<1>5. Len(Append(s, e)) = Len(w)
  BY <1>1, <1>2, <1>3
<1>6. Append(s, e) = w
  BY <1>2, <1>3, <1>4, <1>5, SeqEqual
<1>7. QED BY <1>6 DEF s, e, w

\* A scan finds the blocks that are there by now.
LEMMA ScanFinds ==
    ASSUME NEW B, Blocks(B), NEW base \in Nat, NEW L \in Nat, NEW M \in Nat,
           6 * base <= L, L <= M, M <= 6 * Len(B)
    PROVE  Scan([ReaderOf(B, base, L) EXCEPT !.buffer = Held(B, base, M)]) = ReaderOf(B, base, M)
<1> DEFINE r == [ReaderOf(B, base, L) EXCEPT !.buffer = Held(B, base, M)]
           b == Held(B, base, M)
           first == Clipped(L - 6 * base - 4)
           end == Clipped(M - 6 * base - 4)
           g == [i \in first..end |-> NalsTo(B, base, Found(B, 6 * base + i))]
<1>1. /\ Len(B) \in Nat /\ first \in Nat /\ end \in Nat /\ first <= end
      /\ end > 0 => end = M - 6 * base - 4
  <2>1. L - 6 * base - 4 \in Int /\ M - 6 * base - 4 \in Int
    OBVIOUS
  <2>2. /\ first \in Nat /\ first = IF L - 6 * base - 4 > 0 THEN L - 6 * base - 4 ELSE 0
        /\ end \in Nat /\ end = IF M - 6 * base - 4 > 0 THEN M - 6 * base - 4 ELSE 0
    BY <2>1, ClippedIs
  <2>3. Len(B) \in Nat
    BY StreamAt
  <2> HIDE DEF first, end
  <2>4. QED BY <2>2, <2>3
<1>2. r.buffer = b /\ r.nals = NalsTo(B, base, Found(B, 6 * base + first)) /\ r.scanFrom = first
  BY DEF ReaderOf
<1>3. Len(b) = M - 6 * base
  BY HeldAt
<1> HIDE DEF r, b, first, end
<1>4. ASSUME NEW i \in first + 1..end
      PROVE  g[i] = IF StartCode(b, i - 1) THEN Append(g[i - 1], NalAt(b, i - 1)) ELSE g[i - 1]
  <2> DEFINE n == Found(B, 6 * base + (i - 1))
  <2>1. i - 1 \in Nat /\ i - 1 \in first..end /\ i \in first..end /\ i - 1 <= M - 6 * base - 5
        /\ 6 * base + (i - 1) + 1 = 6 * base + i /\ 6 * base + i <= 6 * Len(B)
    BY <1>1
  <2>2. n \in base..Len(B) /\ Found(B, 6 * base + i) \in base..Len(B)
    <3>1. ASSUME NEW k \in Nat, 6 * base + k <= 6 * Len(B) PROVE Found(B, 6 * base + k) \in base..Len(B)
      BY <3>1, FoundGrows
    <3>2. 6 * base + (i - 1) <= 6 * Len(B) /\ i \in Nat
      BY <1>1, <2>1
    <3>3. QED BY <2>1, <3>1, <3>2
  <2>3. IF StartCode(b, i - 1) THEN /\ Found(B, 6 * base + i) = n + 1
                                    /\ NalAt(b, i - 1) = NalOf(B, base, n + 1 - base)
        ELSE Found(B, 6 * base + i) = n
    <3>1. LET k == i - 1 IN
          IF StartCode(b, k) THEN /\ Found(B, 6 * base + k + 1) = Found(B, 6 * base + k) + 1
                                  /\ NalAt(b, k) = NalOf(B, base, Found(B, 6 * base + k) + 1 - base)
          ELSE Found(B, 6 * base + k + 1) = Found(B, 6 * base + k)
      BY <2>1, CodesOfBlocks DEF b
    <3>2. QED BY <2>1, <3>1
  <2>4. g[i] = NalsTo(B, base, Found(B, 6 * base + i)) /\ g[i - 1] = NalsTo(B, base, n)
    BY <2>1
  <2> HIDE DEF g, n
  <2>5. CASE StartCode(b, i - 1)
    <3>1. n < Len(B)
      BY <1>1, <2>2, <2>3, <2>5
    <3>2. ASSUME NEW k \in base..Len(B), k = n + 1
          PROVE  Append(NalsTo(B, base, n), NalOf(B, base, k - base)) = NalsTo(B, base, k)
      BY <2>2, <3>2, NalsNext
    <3>3. n + 1 \in base..Len(B)
      BY <1>1, <2>2, <3>1
    <3>4. Append(NalsTo(B, base, n), NalOf(B, base, n + 1 - base)) = NalsTo(B, base, n + 1)
      BY <2>2, <3>2, <3>3
    <3>5. QED BY <2>3, <2>4, <2>5, <3>4
  <2>6. CASE ~StartCode(b, i - 1)
    BY <2>3, <2>4, <2>6
  <2>7. QED BY <2>5, <2>6
<1>5. g[first] = r.nals
  BY <1>1, <1>2
<1> DEFINE Body(f, i) ==
        IF i = first THEN r.nals
        ELSE IF StartCode(b, i - 1) THEN Append(f[i - 1], NalAt(b, i - 1)) ELSE f[i - 1]
<1>6. g = [i \in first..end |-> Body(g, i)]
  <2>1. ASSUME NEW i \in first..end PROVE g[i] = Body(g, i)
    <3>1. CASE i = first
      BY <1>5, <3>1
    <3>2. CASE i # first
      <4>1. i \in first + 1..end
        BY <1>1, <3>2
      <4> HIDE DEF g
      <4>2. QED BY <3>2, <4>1, <1>4
    <3>3. QED BY <3>1, <3>2
  <2>2. g = [i \in first..end |-> g[i]]
    OBVIOUS
  <2> HIDE DEF g, Body
  <2>3. QED BY <2>1, <2>2
<1> DEFINE f == Seen(r, end)
<1>7. f = [i \in first..end |-> Body(f, i)]
  <2>1. \E h : h = [i \in first..end |-> Body(h, i)]
    BY <1>6
  <2>2. f = CHOOSE h : h = [i \in first..end |-> Body(h, i)]
    BY <1>2 DEF Seen
  <2> HIDE DEF f, Body
  <2>3. QED BY <2>1, <2>2
<1>8. f[end] = g[end]
  <2>2. ASSUME NEW i \in first..end PROVE f[i] = Body(f, i)
    <3> HIDE DEF f, Body
    <3>1. QED BY <1>7
  <2>3. f[first] = g[first]
    <3>1. f[first] = r.nals
      <4>1. first \in first..end
        BY <1>1
      <4> HIDE DEF f
      <4>2. QED BY <2>2, <4>1
    <3> HIDE DEF f, g
    <3>2. QED BY <3>1, <1>5
  <2>4. ASSUME NEW i \in first + 1..end, f[i - 1] = g[i - 1] PROVE f[i] = g[i]
    <3>1. i \in first..end /\ i # first
      BY <1>1
    <3>2. f[i] = IF StartCode(b, i - 1) THEN Append(f[i - 1], NalAt(b, i - 1)) ELSE f[i - 1]
      <4> HIDE DEF f
      <4>1. QED BY <2>2, <3>1
    <3> HIDE DEF f, g
    <3>3. QED BY <1>4, <2>4, <3>2
  <2> HIDE DEF f, g
  <2>5. \A i \in first..end : f[i] = g[i]
    <3>1. \A i \in first + 1..end : f[i - 1] = g[i - 1] => f[i] = g[i]
      BY <2>4
    <3>2. SameSteps(f, g, first, end)
      BY <2>3, <3>1 DEF SameSteps
    <3>3. QED BY <1>1, <3>2, SameValues
  <2>6. QED BY <1>1, <2>5
<1>9. Scan(r) = [buffer |-> b, nals |-> g[end], scanFrom |-> end]
  <2>1. Clipped(Len(r.buffer) - 4) = end
    BY <1>2, <1>3 DEF end
  <2> HIDE DEF g
  <2>2. QED BY <1>2, <1>8, <2>1 DEF Scan
<1>12. g[end] = NalsTo(B, base, Found(B, 6 * base + end))
  BY <1>1
<1> HIDE DEF g
<1>13. QED BY <1>9, <1>12 DEF ReaderOf, b, end, r

\* A sequence of bytes behind another.
LEMMA Joined ==
    ASSUME NEW s \in Seq(Nat), NEW t \in Seq(Nat)
    PROVE  /\ s \o t \in Seq(Nat) /\ Len(s \o t) = Len(s) + Len(t)
           /\ Len(s) \in Nat /\ Len(t) \in Nat
           /\ \A i \in 1..Len(s) : (s \o t)[i] = s[i]
           /\ \A i \in 1..Len(t) : (s \o t)[Len(s) + i] = t[i]
<1>1. Len(s) \in Nat /\ Len(t) \in Nat
  BY LenProperties
<1>2. /\ s \o t \in Seq(Nat) /\ Len(s \o t) = Len(s) + Len(t)
      /\ \A i \in 1..Len(s) + Len(t) : (s \o t)[i] = IF i <= Len(s) THEN s[i] ELSE t[i - Len(s)]
  BY ConcatProperties
<1>3. \A m, n \in Nat : /\ \A i \in 1..m : i \in 1..m + n /\ i <= m
                        /\ \A i \in 1..n : m + i \in 1..m + n /\ ~(m + i <= m) /\ (m + i) - m = i
  OBVIOUS
<1>4. QED BY <1>1, <1>2, <1>3

\* Nothing put behind or before a sequence.
LEMMA JoinedNothing == \A s \in Seq(Nat) : s \o <<>> = s /\ <<>> \o s = s
  BY ConcatEmptySeq

-----------------------------------------------------------------------------
(* The pictures of an H.264 encoder as blocks *)

\* The two parameter sets.
SPS == Long(103, 100)
PPS == Long(104, 235)

\* How many blocks a picture has.
Size(kind) == IF kind = "key" THEN 4 ELSE 2

\* The blocks of the n-th picture.
BlocksOf(kind, n) ==
    LET header == IF kind = "key" THEN 101 ELSE 65
        first == Short(header, 136, n + 1)
        second == Short(header, 10, n + 1)
    IN  IF encoder = "delimiting"
        THEN IF kind = "key" THEN <<Long(9, 240), SPS, PPS, first>> ELSE <<Long(9, 240), first>>
        ELSE IF kind = "key" THEN <<SPS, PPS, first, second>> ELSE <<first, second>>

\* The NAL units of the model are blocks.
LEMMA UnitsAreBlocks ==
    /\ \A h, x \in Nat \ {0} : /\ IsBlock(Long(h, x)) /\ Long(h, x) \in Seq(Nat) /\ Len(Long(h, x)) = 6
                               /\ Header(Long(h, x)) = h
    /\ \A h, x, y \in Nat \ {0} : /\ IsBlock(Short(h, x, y)) /\ Short(h, x, y) \in Seq(Nat)
                                  /\ Len(Short(h, x, y)) = 6
                                  /\ Header(Short(h, x, y)) = h /\ Flags(Short(h, x, y)) = x
  BY DEF IsBlock, Long, Short, Header, Flags

\* The sequence s is the first m blocks of T.
Spelled(s, T, m) ==
    /\ s \in Seq(Nat) /\ Len(s) = 6 * m
    /\ \A q \in 0..m - 1, r \in 1..6 : s[6 * q + r] = T[q + 1][r]

\* The blocks of one sequence behind the blocks of another.
LEMMA SpelledJoin ==
    ASSUME NEW s, NEW t, NEW T, NEW U, NEW m \in Nat, NEW n \in Nat, NEW k \in Nat, k = m + n,
           Spelled(s, T, m), Spelled(t, U, n), \A i \in 1..n : T[m + i] = U[i]
    PROVE  Spelled(s \o t, T, k)
<1>1. /\ s \in Seq(Nat) /\ t \in Seq(Nat) /\ Len(s) = 6 * m /\ Len(t) = 6 * n
  BY DEF Spelled
<1>2. /\ s \o t \in Seq(Nat) /\ Len(s \o t) = 6 * k
      /\ \A i \in 1..6 * m : (s \o t)[i] = s[i]
      /\ \A i \in 1..6 * n : (s \o t)[6 * m + i] = t[i]
  <2>1. /\ s \o t \in Seq(Nat) /\ Len(s \o t) = Len(s) + Len(t)
        /\ \A i \in 1..Len(s) : (s \o t)[i] = s[i]
        /\ \A i \in 1..Len(t) : (s \o t)[Len(s) + i] = t[i]
    BY <1>1, Joined
  <2>2. 6 * m + 6 * n = 6 * k
    OBVIOUS
  <2>3. QED BY <1>1, <2>1, <2>2
<1>3. ASSUME NEW q \in 0..k - 1, NEW r \in 1..6 PROVE (s \o t)[6 * q + r] = T[q + 1][r]
  <2>1. CASE q < m
    <3>1. 6 * q + r \in 1..6 * m /\ q \in 0..m - 1
      BY <2>1
    <3>2. QED BY <1>2, <3>1 DEF Spelled
  <2>2. CASE q >= m
    <3> DEFINE p == q - m
    <3>1. p \in 0..n - 1 /\ q = m + p
      BY <2>2
    <3> HIDE DEF p
    <3>2. 6 * p + r \in 1..6 * n /\ 6 * q + r = 6 * m + (6 * p + r) /\ q + 1 = m + (p + 1) /\ p + 1 \in 1..n
      BY <3>1
    <3>3. (s \o t)[6 * q + r] = t[6 * p + r]
      BY <1>2, <3>2
    <3>4. t[6 * p + r] = U[p + 1][r]
      BY <3>1 DEF Spelled
    <3>5. T[q + 1] = U[p + 1]
      BY <3>2
    <3>6. QED BY <3>3, <3>4, <3>5
  <2>3. q < m \/ q >= m
    OBVIOUS
  <2>4. QED BY <2>1, <2>2, <2>3
<1>4. QED BY <1>2, <1>3 DEF Spelled

\* One block.
LEMMA SpelledOne ==
    ASSUME NEW u \in Seq(Nat), Len(u) = 6
    PROVE  \A T : T[1] = u => Spelled(u, T, 1)
<1> SUFFICES ASSUME NEW T, T[1] = u PROVE Spelled(u, T, 1)
  OBVIOUS
<1>1. ASSUME NEW q \in 0..1 - 1, NEW r \in 1..6 PROVE u[6 * q + r] = T[q + 1][r]
  <2>1. q = 0 /\ 6 * q + r = r
    OBVIOUS
  <2>2. QED BY <2>1
<1>2. QED BY <1>1 DEF Spelled

\* A block behind others.
LEMMA SpelledNext ==
    ASSUME NEW s, NEW u \in Seq(Nat), Len(u) = 6, NEW T, NEW m \in Nat, NEW k \in Nat, k = m + 1,
           Spelled(s, T, m), T[k] = u
    PROVE  Spelled(s \o u, T, k)
<1> DEFINE U == [i \in {1} |-> u]
<1>1. U[1] = u
  OBVIOUS
<1> HIDE DEF U
<1>2. Spelled(u, U, 1)
  BY <1>1, SpelledOne
<1>3. \A i \in 1..1 : T[m + i] = U[i]
  BY <1>1
<1>4. QED BY <1>2, <1>3, SpelledJoin

\* The parameter sets are two blocks.
LEMMA SetsSpelled ==
    ASSUME NEW T, T[1] = SPS, T[2] = PPS
    PROVE  Spelled(ParameterSets, T, 2)
<1>1. SPS \in Seq(Nat) /\ Len(SPS) = 6 /\ PPS \in Seq(Nat) /\ Len(PPS) = 6
  BY UnitsAreBlocks DEF SPS, PPS
<1>2. Spelled(SPS, T, 1)
  BY <1>1, SpelledOne
<1>3. Spelled(SPS \o PPS, T, 2)
  BY <1>1, <1>2, SpelledNext
<1>4. QED BY <1>3 DEF ParameterSets, SPS, PPS

\* A picture is the bytes of its blocks.
LEMMA CodedIsBlocks ==
    ASSUME NEW kind \in Kind, NEW n \in Nat, encoder \in {"delimiting", "slicing"}
    PROVE  Spelled(Coded(kind, n), BlocksOf(kind, n), Size(kind))
<1> DEFINE header == IF kind = "key" THEN 101 ELSE 65
           first == Short(header, 136, n + 1)
           second == Short(header, 10, n + 1)
           T == BlocksOf(kind, n)
<1>0. header \in Nat \ {0} /\ n + 1 \in Nat \ {0} /\ encoder # "jpeg"
  OBVIOUS
<1>1. /\ first \in Seq(Nat) /\ Len(first) = 6 /\ second \in Seq(Nat) /\ Len(second) = 6
      /\ Long(9, 240) \in Seq(Nat) /\ Len(Long(9, 240)) = 6
  <2>1. \A g, x \in Nat \ {0} : Long(g, x) \in Seq(Nat) /\ Len(Long(g, x)) = 6
    BY UnitsAreBlocks
  <2>2. \A g, x, y \in Nat \ {0} : Short(g, x, y) \in Seq(Nat) /\ Len(Short(g, x, y)) = 6
    BY UnitsAreBlocks
  <2>3. 9 \in Nat \ {0} /\ 240 \in Nat \ {0} /\ 136 \in Nat \ {0} /\ 10 \in Nat \ {0}
    OBVIOUS
  <2> HIDE DEF header
  <2>4. Long(9, 240) \in Seq(Nat) /\ Len(Long(9, 240)) = 6
    BY ONLY <2>1, <2>3
  <2>5. first \in Seq(Nat) /\ Len(first) = 6 /\ second \in Seq(Nat) /\ Len(second) = 6
    <3> DEFINE x == n + 1
    <3>1. header \in Nat \ {0} /\ x \in Nat \ {0} /\ 136 \in Nat \ {0} /\ 10 \in Nat \ {0}
      BY <1>0, <2>3
    <3> HIDE DEF x
    <3>2. /\ Short(header, 136, x) \in Seq(Nat) /\ Len(Short(header, 136, x)) = 6
          /\ Short(header, 10, x) \in Seq(Nat) /\ Len(Short(header, 10, x)) = 6
      BY ONLY <2>2, <3>1
    <3>3. QED BY ONLY <3>2 DEF x
  <2>6. QED BY <2>4, <2>5
<1>2. CASE kind = "key" /\ encoder = "delimiting"
  <2>1. T[1] = Long(9, 240) /\ T[2] = SPS /\ T[3] = PPS /\ T[4] = first
    <3> HIDE DEF first, header
    <3>1. QED BY <1>2 DEF BlocksOf, first, header
  <2>2. Coded(kind, n) = (Long(9, 240) \o ParameterSets) \o first
    BY <1>2 DEF Coded
  <2> HIDE DEF T, first, second, header
  <2>3. Spelled(Long(9, 240), T, 1)
    BY <1>1, <2>1, SpelledOne
  <2> DEFINE U == [i \in {1, 2} |-> IF i = 1 THEN SPS ELSE PPS]
  <2>4. U[1] = SPS /\ U[2] = PPS
    OBVIOUS
  <2> HIDE DEF U
  <2>5. Spelled(ParameterSets, U, 2)
    BY <2>4, SetsSpelled
  <2>6. \A i \in 1..2 : T[1 + i] = U[i]
    BY <2>1, <2>4
  <2>7. Spelled(Long(9, 240) \o ParameterSets, T, 3)
    BY <2>3, <2>5, <2>6, SpelledJoin
  <2>8. Spelled((Long(9, 240) \o ParameterSets) \o first, T, 4)
    BY <1>1, <2>1, <2>7, SpelledNext
  <2>9. QED BY <1>2, <2>2, <2>8 DEF T, Size
<1>3. CASE kind = "key" /\ encoder = "slicing"
  <2>1. T[1] = SPS /\ T[2] = PPS /\ T[3] = first /\ T[4] = second
    <3> HIDE DEF first, second, header
    <3>1. QED BY <1>3 DEF BlocksOf, first, second, header
  <2>2. Coded(kind, n) = (ParameterSets \o first) \o second
    BY <1>3 DEF Coded
  <2> HIDE DEF T, first, second, header
  <2>5. Spelled(ParameterSets, T, 2)
    BY <2>1, SetsSpelled
  <2>7. Spelled(ParameterSets \o first, T, 3)
    BY <1>1, <2>1, <2>5, SpelledNext
  <2>8. Spelled((ParameterSets \o first) \o second, T, 4)
    BY <1>1, <2>1, <2>7, SpelledNext
  <2>9. QED BY <1>3, <2>2, <2>8 DEF T, Size
<1>4. CASE kind = "delta" /\ encoder = "delimiting"
  <2>1. T[1] = Long(9, 240) /\ T[2] = first
    <3> HIDE DEF first, header
    <3>1. QED BY <1>4 DEF BlocksOf, first, header
  <2>2. Coded(kind, n) = (Long(9, 240) \o <<>>) \o first
    BY <1>4 DEF Coded
  <2> HIDE DEF T, first, second, header
  <2>3. Spelled(Long(9, 240), T, 1)
    BY <1>1, <2>1, SpelledOne
  <2>8. Spelled(Long(9, 240) \o first, T, 2)
    BY <1>1, <2>1, <2>3, SpelledNext
  <2>9. Long(9, 240) \o <<>> = Long(9, 240)
    BY ONLY <1>1, JoinedNothing
  <2>10. Size(kind) = 2
    BY <1>4 DEF Size
  <2>11. Spelled(Coded(kind, n), T, 2)
    BY ONLY <2>2, <2>8, <2>9
  <2>12. QED BY <2>10, <2>11 DEF T
<1>5. CASE kind = "delta" /\ encoder = "slicing"
  <2>1. T[1] = first /\ T[2] = second
    <3> HIDE DEF first, second, header
    <3>1. QED BY <1>5 DEF BlocksOf, first, second, header
  <2>2. Coded(kind, n) = (<<>> \o first) \o second
    BY <1>5 DEF Coded
  <2> HIDE DEF T, first, second, header
  <2>3. Spelled(first, T, 1)
    BY <1>1, <2>1, SpelledOne
  <2>8. Spelled(first \o second, T, 2)
    BY <1>1, <2>1, <2>3, SpelledNext
  <2>9. <<>> \o first = first
    BY ONLY <1>1, JoinedNothing
  <2>10. Size(kind) = 2
    BY <1>5 DEF Size
  <2>11. Spelled(Coded(kind, n), T, 2)
    BY ONLY <2>2, <2>8, <2>9
  <2>12. QED BY <2>10, <2>11 DEF T
<1>6. QED BY <1>2, <1>3, <1>4, <1>5 DEF Kind

\* Equal blocks have equal bytes.
LEMMA SpelledOver ==
    ASSUME NEW s, NEW T, NEW U, NEW m \in Nat, Spelled(s, T, m), \A i \in 1..m : T[i] = U[i]
    PROVE  Spelled(s, U, m)
<1>1. \A q \in 0..m - 1 : T[q + 1] = U[q + 1]
  OBVIOUS
<1>2. QED BY <1>1 DEF Spelled

\* Every offset is in a block.
LEMMA BySixes == \A i \in Nat \ {0} : \E q \in Nat, r \in 1..6 : i = 6 * q + r
<1> SUFFICES ASSUME NEW i \in Nat \ {0} PROVE \E q \in Nat, r \in 1..6 : i = 6 * q + r
  OBVIOUS
<1> DEFINE k == i - 1
           q == k \div 6
           x == k % 6
<1>1. k \in Nat
  OBVIOUS
<1> HIDE DEF k
<1>2. q \in Nat /\ x \in 0..5 /\ k = 6 * q + x
  BY <1>1
<1> HIDE DEF q, x
<1>3. x + 1 \in 1..6 /\ i = 6 * q + (x + 1)
  BY <1>2 DEF k
<1>4. QED BY <1>2, <1>3

\* A sequence is determined by its blocks.
LEMMA SpelledOnce ==
    ASSUME NEW s, NEW t, NEW T, NEW m \in Nat, Spelled(s, T, m), Spelled(t, T, m)
    PROVE  s = t
<1>1. s \in Seq(Nat) /\ t \in Seq(Nat) /\ Len(s) = Len(t) /\ Len(s) = 6 * m
  BY DEF Spelled
<1>2. ASSUME NEW i \in 1..Len(s) PROVE s[i] = t[i]
  <2>0. i \in Nat \ {0}
    BY <1>1
  <2>1. PICK q \in Nat, r \in 1..6 : i = 6 * q + r
    BY <2>0, BySixes
  <2>2. q \in 0..m - 1
    BY <1>1, <2>1
  <2>3. s[6 * q + r] = T[q + 1][r] /\ t[6 * q + r] = T[q + 1][r]
    BY <2>1, <2>2 DEF Spelled
  <2>4. QED BY <2>1, <2>3
<1>3. QED BY <1>1, <1>2, SeqEqual

\* The blocks base + 1 .. base + m of a stream.
LEMMA SpelledHeld ==
    ASSUME NEW B, Blocks(B), NEW base \in Nat, NEW L \in Nat, 6 * base <= L, L <= 6 * Len(B),
           NEW c \in Nat, NEW m \in Nat, 6 * (base + c + m) <= L, NEW T,
           \A i \in 1..m : T[i] = B[base + c + i]
    PROVE  Spelled(Slice(Held(B, base, L), 6 * c, 6 * (c + m)), T, m)
<1> DEFINE h == Held(B, base, L)
           s == SubSeq(h, 6 * c + 1, 6 * (c + m))
<1>1. /\ h \in Seq(Nat) /\ Len(h) = L - 6 * base
      /\ \A q \in Nat, r \in 1..6 : 6 * q + r <= L - 6 * base => h[6 * q + r] = B[base + q + 1][r]
  BY HeldAt
<1> HIDE DEF h
<1>2. 6 * c + 1 \in 1..Len(h) + 1 /\ 6 * (c + m) <= Len(h) /\ 6 * c <= 6 * (c + m)
  BY <1>1
<1>3. s \in Seq(Nat) /\ Len(s) = 6 * m /\ \A i \in 1..6 * m : s[i] = h[6 * c + i]
  <2> DEFINE x == 6 * c
             y == 6 * (c + m)
  <2>1. x \in Nat /\ y \in Nat /\ x <= y /\ y <= Len(h) /\ y - x = 6 * m
    BY <1>2
  <2> HIDE DEF x, y
  <2>2. /\ SubSeq(h, x + 1, y) \in Seq(Nat) /\ Len(SubSeq(h, x + 1, y)) = y - x
        /\ \A i \in 1..y - x : SubSeq(h, x + 1, y)[i] = h[x + i]
    BY <1>1, <2>1, SubSeqIs
  <2>3. QED BY <2>1, <2>2 DEF x, y
<1>4. ASSUME NEW q \in 0..m - 1, NEW r \in 1..6 PROVE s[6 * q + r] = T[q + 1][r]
  <2>1. 6 * q + r \in 1..6 * m /\ 6 * c + (6 * q + r) = 6 * (c + q) + r /\ c + q \in Nat
        /\ 6 * (c + q) + r <= L - 6 * base
    OBVIOUS
  <2>2. h[6 * (c + q) + r] = B[base + (c + q) + 1][r]
    BY <1>1, <2>1
  <2>3. s[6 * q + r] = h[6 * (c + q) + r]
    BY <1>3, <2>1
  <2>4. T[q + 1] = B[base + c + (q + 1)] /\ base + c + (q + 1) = base + (c + q) + 1
    OBVIOUS
  <2>5. QED BY <2>2, <2>3, <2>4
<1> HIDE DEF s
<1>5. Spelled(s, T, m)
  BY <1>3, <1>4 DEF Spelled
<1>6. QED BY <1>5 DEF s, h, Slice

\* The stream B is the pictures of these kinds; picture j ends before block at[j] + 1.
Laid(B, kinds, at) ==
    /\ Blocks(B)
    /\ at[0] = 0 /\ at[Len(kinds)] = Len(B)
    /\ \A j \in 0..Len(kinds) : at[j] \in 0..Len(B)
    /\ \A j \in 1..Len(kinds) :
          /\ at[j] = at[j - 1] + Size(kinds[j])
          /\ \A x \in 1..Size(kinds[j]) : B[at[j - 1] + x] = BlocksOf(kinds[j], j)[x]
    /\ \A i, j \in 0..Len(kinds) : i < j => at[i] < at[j]

\* Any sequence of six-byte units.
BlockSeq == Seq([1..6 -> Nat])

\* The blocks of a picture: two, or four with the parameter sets.
LEMMA BlocksOfAre ==
    ASSUME NEW kind \in Kind, NEW n \in Nat
    PROVE  /\ BlocksOf(kind, n) \in BlockSeq /\ Len(BlocksOf(kind, n)) = Size(kind)
           /\ \A x \in 1..Size(kind) : IsBlock(BlocksOf(kind, n)[x])
<1> DEFINE header == IF kind = "key" THEN 101 ELSE 65
           first == Short(header, 136, n + 1)
           second == Short(header, 10, n + 1)
           T == BlocksOf(kind, n)
<1>0. header \in Nat \ {0} /\ n + 1 \in Nat \ {0}
  OBVIOUS
<1>1. IsBlock(first) /\ IsBlock(second) /\ IsBlock(SPS) /\ IsBlock(PPS) /\ IsBlock(Long(9, 240))
  <2> HIDE DEF header
  <2>1. 136 \in Nat \ {0} /\ 10 \in Nat \ {0}
    OBVIOUS
  <2>2. IsBlock(first) /\ IsBlock(second)
    BY <1>0, <2>1, UnitsAreBlocks
  <2>3. IsBlock(SPS) /\ IsBlock(PPS) /\ IsBlock(Long(9, 240))
    BY UnitsAreBlocks DEF SPS, PPS
  <2>4. QED BY <2>2, <2>3
<1>2. T = IF encoder = "delimiting"
          THEN IF kind = "key" THEN <<Long(9, 240), SPS, PPS, first>> ELSE <<Long(9, 240), first>>
          ELSE IF kind = "key" THEN <<SPS, PPS, first, second>> ELSE <<first, second>>
  BY DEF BlocksOf
<1>3. \A u : IsBlock(u) => u \in [1..6 -> Nat]
  BY DEF IsBlock
<1> HIDE DEF T, first, second, header
<1> DEFINE D == [1..6 -> Nat]
<1>4. first \in D /\ second \in D /\ SPS \in D /\ PPS \in D /\ Long(9, 240) \in D
  BY <1>1, <1>3
<1> HIDE DEF D
<1>5. T \in Seq(D) /\ Len(T) = Size(kind)
  BY <1>2, <1>4 DEF Size
<1>6. \A x \in 1..Size(kind) : IsBlock(T[x])
  BY <1>1, <1>2 DEF Size
<1>7. QED BY <1>5, <1>6 DEF T, D, BlockSeq

\* Another picture in the pipe.
LaidOn(B, kinds, at, kind, C, to) ==
    /\ Laid(C, Append(kinds, kind), to)
    /\ Stream(C) = Stream(B) \o Coded(kind, Len(kinds) + 1)
    /\ Len(C) = Len(B) + Size(kind)
    /\ \A j \in 0..Len(kinds) : to[j] = at[j]
    /\ \A i \in 1..Len(B) : C[i] = B[i]

\* Behind a laid-out stream another picture can be laid out.
LEMMA LaidMore ==
    ASSUME NEW B, NEW kinds \in Seq(Kind), NEW at, Laid(B, kinds, at), NEW kind \in Kind,
           encoder \in {"delimiting", "slicing"}
    PROVE  \E C, to : LaidOn(B, kinds, at, kind, C, to)
<1> DEFINE E == Len(kinds)
           T == BlocksOf(kind, E + 1)
           C == B \o T
           to == [j \in 0..E + 1 |-> IF j <= E THEN at[j] ELSE Len(B) + Size(kind)]
           more == Append(kinds, kind)
<1>0. E \in Nat /\ E + 1 \in Nat
  BY LenProperties
<1>1. /\ T \in BlockSeq /\ Len(T) = Size(kind) /\ \A x \in 1..Size(kind) : IsBlock(T[x])
  BY <1>0, BlocksOfAre
<1>2. B \in BlockSeq /\ Len(B) \in Nat /\ Size(kind) \in {2, 4} /\ \A t \in 1..Len(B) : IsBlock(B[t])
  BY LenProperties DEF Laid, Blocks, BlockSeq, Size
<1> HIDE DEF T
<1>3. /\ C \in BlockSeq /\ Len(C) = Len(B) + Size(kind)
      /\ \A i \in 1..Len(B) : C[i] = B[i]
      /\ \A i \in 1..Size(kind) : C[Len(B) + i] = T[i]
  <2>1. /\ C \in BlockSeq /\ Len(C) = Len(B) + Len(T)
        /\ \A i \in 1..Len(B) + Len(T) : C[i] = IF i <= Len(B) THEN B[i] ELSE T[i - Len(B)]
    BY <1>1, <1>2, ConcatProperties DEF BlockSeq
  <2> HIDE DEF C
  <2>2. ASSUME NEW i \in 1..Size(kind) PROVE C[Len(B) + i] = T[i]
    <3>1. Len(B) + i \in 1..Len(B) + Len(T) /\ ~(Len(B) + i <= Len(B)) /\ (Len(B) + i) - Len(B) = i
      BY <1>1, <1>2
    <3>2. QED BY <2>1, <3>1
  <2>3. QED BY <1>1, <1>2, <2>1, <2>2
<1> HIDE DEF C
<1>4. Blocks(C)
  <2>1. ASSUME NEW t \in 1..Len(C) PROVE IsBlock(C[t])
    <3>1. CASE t <= Len(B)
      BY <1>2, <1>3, <3>1
    <3>2. CASE t > Len(B)
      <4>1. t - Len(B) \in 1..Size(kind) /\ t = Len(B) + (t - Len(B))
        BY <1>2, <1>3, <3>2
      <4>2. C[t] = T[t - Len(B)]
        BY <1>3, <4>1
      <4>3. QED BY <1>1, <4>1, <4>2
    <3>3. QED BY <1>2, <1>3, <3>1, <3>2
  <2>2. QED BY <1>3, <2>1 DEF Blocks, BlockSeq
<1>5. /\ more \in Seq(Kind) /\ Len(more) = E + 1
      /\ \A j \in 1..E : more[j] = kinds[j]
      /\ more[E + 1] = kind
  BY <1>0, AppendProperties
<1>6. /\ \A j \in 0..E : to[j] = at[j]
      /\ to[E + 1] = Len(C)
  BY <1>0, <1>3
<1> HIDE DEF to, more
<1>7. /\ at[0] = 0 /\ at[E] = Len(B)
      /\ \A j \in 0..E : at[j] \in 0..Len(B)
      /\ \A j \in 1..E : /\ at[j] = at[j - 1] + Size(kinds[j])
                         /\ \A x \in 1..Size(kinds[j]) : B[at[j - 1] + x] = BlocksOf(kinds[j], j)[x]
      /\ \A i, j \in 0..E : i < j => at[i] < at[j]
  BY DEF Laid
<1> HIDE DEF E
<1>8. ASSUME NEW j \in 1..E + 1
      PROVE  /\ to[j] = to[j - 1] + Size(more[j])
             /\ \A x \in 1..Size(more[j]) : C[to[j - 1] + x] = BlocksOf(more[j], j)[x]
  <2>1. CASE j \in 1..E
    <3>1. j - 1 \in 0..E /\ j \in 0..E
      BY <1>0, <2>1
    <3>2. to[j] = at[j] /\ to[j - 1] = at[j - 1] /\ more[j] = kinds[j]
      BY <1>5, <1>6, <2>1, <3>1
    <3>3. at[j] = at[j - 1] + Size(kinds[j])
      BY <1>7, <2>1
    <3>4. ASSUME NEW x \in 1..Size(kinds[j]) PROVE C[at[j - 1] + x] = BlocksOf(kinds[j], j)[x]
      <4>1. at[j] \in 0..Len(B) /\ at[j - 1] \in 0..Len(B)
        BY <1>7, <3>1
      <4>2. Size(kinds[j]) \in {2, 4}
        BY DEF Size
      <4>3. at[j - 1] + x \in 1..Len(B)
        BY <1>2, <3>3, <4>1, <4>2
      <4>4. B[at[j - 1] + x] = BlocksOf(kinds[j], j)[x]
        BY <1>7, <2>1
      <4>5. QED BY <1>3, <4>3, <4>4
    <3>5. QED BY <3>2, <3>3, <3>4
  <2>2. CASE j = E + 1
    <3>1. j - 1 = E /\ E \in 0..E
      BY <1>0, <2>2
    <3>2. to[j - 1] = Len(B) /\ to[j] = Len(B) + Size(kind) /\ more[j] = kind
      BY <1>3, <1>5, <1>6, <1>7, <2>2, <3>1
    <3>3. T = BlocksOf(kind, j)
      BY <2>2 DEF T, E
    <3>4. QED BY <1>3, <3>2, <3>3
  <2>3. QED BY <1>0, <2>1, <2>2
<1>9. ASSUME NEW i \in 0..E + 1, NEW j \in 0..E + 1, i < j PROVE to[i] < to[j]
  <2>1. i \in 0..E
    BY <1>0, <1>9
  <2>2. CASE j \in 0..E
    BY <1>6, <1>7, <1>9, <2>1, <2>2
  <2>3. CASE j = E + 1
    <3>1. to[i] \in 0..Len(B)
      BY <1>6, <1>7, <2>1
    <3>2. QED BY <1>2, <1>3, <1>6, <2>3, <3>1
  <2>4. QED BY <1>0, <2>2, <2>3
<1>10. ASSUME NEW j \in 0..E + 1 PROVE to[j] \in 0..Len(C)
  <2>1. CASE j \in 0..E
    <3>1. to[j] \in 0..Len(B)
      BY <1>6, <1>7, <2>1
    <3>2. QED BY <1>2, <1>3, <3>1
  <2>2. CASE j = E + 1
    <3>1. Len(C) \in Nat
      BY <1>2, <1>3
    <3>2. QED BY <1>6, <2>2, <3>1
  <2>3. QED BY <1>0, <2>1, <2>2
<1>11. Laid(C, more, to)
  <2>1. to[0] = 0
    <3>1. 0 \in 0..E
      BY <1>0
    <3>2. QED BY <1>6, <1>7, <3>1
  <2>2. QED BY <1>4, <1>5, <1>6, <1>8, <1>9, <1>10, <2>1 DEF Laid
<1>12. Stream(C) = Stream(B) \o Coded(kind, E + 1)
  <2>1. Spelled(Stream(B), B, Len(B)) /\ Spelled(Stream(C), C, Len(C))
    <3>1. Blocks(B)
      BY DEF Laid
    <3>2. QED BY <1>4, <3>1, StreamAt DEF Spelled
  <2>2. Spelled(Coded(kind, E + 1), T, Size(kind))
    BY <1>0, CodedIsBlocks DEF T, E
  <2>3. Spelled(Stream(B), C, Len(B))
    BY <1>2, <1>3, <2>1, SpelledOver
  <2>4. Len(C) \in Nat /\ Size(kind) \in Nat
    BY <1>2, <1>3
  <2>5. Spelled(Stream(B) \o Coded(kind, E + 1), C, Len(C))
    BY <1>2, <1>3, <2>2, <2>3, <2>4, SpelledJoin
  <2>6. QED BY <2>1, <2>4, <2>5, SpelledOnce
<1>13. LaidOn(B, kinds, at, kind, C, to)
  BY <1>3, <1>6, <1>11, <1>12 DEF LaidOn, more, E
<1>14. QED BY <1>13

-----------------------------------------------------------------------------
(* A picture leaves the reader. *)

\* FlattenSeq, for pictures of two and of four units.
LEMMA FlattenIs ==
    ASSUME NEW p, NEW n \in {2, 4}, p \in [1..n -> Seq(Nat)]
    PROVE  FlattenSeq(p) = IF n = 2 THEN p[1] \o p[2] ELSE ((p[1] \o p[2]) \o p[3]) \o p[4]
<1> DEFINE Body(f, i) == IF i = 1 THEN p[i] ELSE f[i - 1] \o p[i]
           two == p[1] \o p[2]
           three == two \o p[3]
           four == three \o p[4]
           g == [i \in 1..n |-> IF i = 1 THEN p[1] ELSE IF i = 2 THEN two
                                ELSE IF i = 3 THEN three ELSE four]
           f == CHOOSE h : h = [i \in 1..n |-> Body(h, i)]
<1>1. Len(p) = n /\ n # 0
  BY LenProperties
<1>2. FlattenSeq(p) = f[n]
  BY <1>1 DEF FlattenSeq
<1>0. \A h, i : /\ i = 1 => Body(h, i) = p[1]
                /\ i = 2 => Body(h, i) = h[1] \o p[2]
                /\ i = 3 => Body(h, i) = h[2] \o p[3]
                /\ i = 4 => Body(h, i) = h[3] \o p[4]
  <2> SUFFICES ASSUME NEW h, NEW i
               PROVE  /\ i = 1 => Body(h, i) = p[1]
                      /\ i = 2 => Body(h, i) = h[1] \o p[2]
                      /\ i = 3 => Body(h, i) = h[2] \o p[3]
                      /\ i = 4 => Body(h, i) = h[3] \o p[4]
    OBVIOUS
  <2>1. CASE i = 2
    <3>1. i - 1 = 1 /\ i # 1
      BY <2>1
    <3>2. QED BY <2>1, <3>1
  <2>2. CASE i = 3
    <3>1. i - 1 = 2 /\ i # 1
      BY <2>2
    <3>2. QED BY <2>2, <3>1
  <2>3. CASE i = 4
    <3>1. i - 1 = 3 /\ i # 1
      BY <2>3
    <3>2. QED BY <2>3, <3>1
  <2>4. QED BY <2>1, <2>2, <2>3
<1>3. g = [i \in 1..n |-> Body(g, i)]
  <2>1. ASSUME NEW i \in 1..n PROVE g[i] = Body(g, i)
    <3>1. i = 1 \/ i = 2 \/ (i = 3 /\ n = 4) \/ (i = 4 /\ n = 4)
      OBVIOUS
    <3>2. g[1] = p[1] /\ g[2] = two
      <4> HIDE DEF two, three, four
      <4>1. QED OBVIOUS
    <3>3. n = 4 => g[3] = three /\ g[4] = four
      <4> HIDE DEF two, three, four
      <4>1. QED OBVIOUS
    <3> HIDE DEF g, Body
    <3>4. QED BY <1>0, <3>1, <3>2, <3>3
  <2>2. g = [i \in 1..n |-> g[i]]
    OBVIOUS
  <2> HIDE DEF g, Body
  <2>3. QED BY <2>1, <2>2
<1>4. f = [i \in 1..n |-> Body(f, i)]
  <2> HIDE DEF Body, g
  <2>1. QED BY <1>3
<1>5. \A i \in 1..n : f[i] = Body(f, i)
  <2> HIDE DEF Body, f
  <2>1. QED BY <1>4
<1> HIDE DEF f, Body
<1>6. f[1] = p[1] /\ f[2] = two
  <2>1. f[1] = Body(f, 1) /\ f[2] = Body(f, 2)
    BY <1>5
  <2>2. QED BY <1>0, <2>1
<1>7. n = 4 => f[4] = four
  <2> SUFFICES ASSUME n = 4 PROVE f[4] = four
    OBVIOUS
  <2>1. f[3] = Body(f, 3) /\ f[4] = Body(f, 4)
    BY <1>5
  <2>2. QED BY <1>0, <1>6, <2>1
<1>8. QED BY <1>2, <1>6, <1>7

\* The kinds of the units of a picture, and which of its slices restart the scan.
KindsOf(kind) ==
    IF encoder = "delimiting" THEN IF kind = "key" THEN <<9, 7, 8, 5>> ELSE <<9, 1>>
    ELSE IF kind = "key" THEN <<7, 8, 5, 5>> ELSE <<1, 1>>

\* The kinds of the units of a picture, and what their first bytes tell.
LEMMA UnitsOfPicture ==
    ASSUME NEW kind \in Kind, NEW n \in Nat, NEW x \in 1..Size(kind)
    PROVE  LET u == BlocksOf(kind, n)[x]
           IN  /\ Header(u) % 32 = KindsOf(kind)[x]
               /\ KindsOf(kind)[x] = 7 => u = SPS
               /\ KindsOf(kind)[x] = 8 => u = PPS
               /\ x = Size(kind) /\ encoder # "delimiting" => ~(Flags(u) >= 128)
               /\ x = 1 /\ kind = "delta" /\ encoder # "delimiting" => Flags(u) >= 128
<1> DEFINE header == IF kind = "key" THEN 101 ELSE 65
           first == Short(header, 136, n + 1)
           second == Short(header, 10, n + 1)
           T == BlocksOf(kind, n)
<1>0. header \in Nat \ {0} /\ n + 1 \in Nat \ {0} /\ 136 \in Nat \ {0} /\ 10 \in Nat \ {0}
  OBVIOUS
<1>1. Header(first) = header /\ Header(second) = header /\ Flags(first) = 136 /\ Flags(second) = 10
  <2> HIDE DEF header
  <2>1. \A h, x2, y \in Nat \ {0} : Header(Short(h, x2, y)) = h /\ Flags(Short(h, x2, y)) = x2
    BY UnitsAreBlocks
  <2>2. QED BY <1>0, <2>1
<1>2. Header(SPS) = 103 /\ Header(PPS) = 104 /\ Header(Long(9, 240)) = 9
  BY UnitsAreBlocks DEF SPS, PPS
<1>3. T = IF encoder = "delimiting"
          THEN IF kind = "key" THEN <<Long(9, 240), SPS, PPS, first>> ELSE <<Long(9, 240), first>>
          ELSE IF kind = "key" THEN <<SPS, PPS, first, second>> ELSE <<first, second>>
  BY DEF BlocksOf
<1>4. 103 % 32 = 7 /\ 104 % 32 = 8 /\ 101 % 32 = 5 /\ 65 % 32 = 1 /\ 9 % 32 = 9
  OBVIOUS
<1> HIDE DEF T, first, second
<1>5. CASE kind = "key" /\ encoder = "delimiting"
  <2>1. x \in {1, 2, 3, 4}
    BY <1>5 DEF Size
  <2>2. T[1] = Long(9, 240) /\ T[2] = SPS /\ T[3] = PPS /\ T[4] = first
    BY <1>3, <1>5
  <2>3. KindsOf(kind)[1] = 9 /\ KindsOf(kind)[2] = 7 /\ KindsOf(kind)[3] = 8 /\ KindsOf(kind)[4] = 5
    BY <1>5 DEF KindsOf
  <2> HIDE DEF T
  <2>4. QED BY <1>1, <1>2, <1>4, <1>5, <2>1, <2>2, <2>3 DEF T
<1>6. CASE kind = "key" /\ encoder # "delimiting"
  <2>1. x \in {1, 2, 3, 4} /\ Size(kind) = 4
    BY <1>6 DEF Size
  <2>2. T[1] = SPS /\ T[2] = PPS /\ T[3] = first /\ T[4] = second
    BY <1>3, <1>6
  <2>3. KindsOf(kind)[1] = 7 /\ KindsOf(kind)[2] = 8 /\ KindsOf(kind)[3] = 5 /\ KindsOf(kind)[4] = 5
    BY <1>6 DEF KindsOf
  <2>4. QED BY <1>1, <1>2, <1>4, <1>6, <2>1, <2>2, <2>3 DEF T
<1>7. CASE kind = "delta" /\ encoder = "delimiting"
  <2>1. x \in {1, 2} /\ Size(kind) = 2
    BY <1>7 DEF Size
  <2>2. T[1] = Long(9, 240) /\ T[2] = first
    BY <1>3, <1>7
  <2>3. KindsOf(kind)[1] = 9 /\ KindsOf(kind)[2] = 1
    BY <1>7 DEF KindsOf
  <2>4. QED BY <1>1, <1>2, <1>4, <1>7, <2>1, <2>2, <2>3 DEF T
<1>8. CASE kind = "delta" /\ encoder # "delimiting"
  <2>1. x \in {1, 2} /\ Size(kind) = 2
    BY <1>8 DEF Size
  <2>2. T[1] = first /\ T[2] = second
    BY <1>3, <1>8
  <2>3. KindsOf(kind)[1] = 1 /\ KindsOf(kind)[2] = 1
    BY <1>8 DEF KindsOf
  <2>4. QED BY <1>1, <1>2, <1>4, <1>8, <2>1, <2>2, <2>3 DEF T
<1>9. QED BY <1>5, <1>6, <1>7, <1>8 DEF Kind

\* How far a scan can be from the blocks it has found.
LEMMA FoundNear ==
    ASSUME NEW B, NEW i \in Nat
    PROVE  /\ Found(B, i) \in Nat
           /\ 6 * Found(B, i) <= i + 5 /\ i - 1 <= 6 * Found(B, i)
<1> DEFINE q == i \div 6
           r == i % 6
<1>1. q \in Nat /\ r \in 0..5 /\ i = 6 * q + r
  OBVIOUS
<1>2. Found(B, i) = q \/ Found(B, i) = q + 1
  BY <1>1 DEF Found
<1>3. r = 0 => Found(B, i) = q
  BY <1>1 DEF Found
<1>4. r \in 2..5 => Found(B, i) = q + 1
  BY <1>1 DEF Found
<1> HIDE DEF q, r
<1>5. QED BY <1>1, <1>2, <1>3, <1>4

\* Nothing else is found when the reader begins at a later block.
LEMMA FoundBehind ==
    ASSUME NEW B, NEW base \in Nat, NEW next \in Nat, NEW L \in Nat, base < next, 6 * next <= L
    PROVE  /\ Found(B, 6 * base + Clipped(L - 6 * base - 4)) = Found(B, 6 * next + Clipped(L - 6 * next - 4))
           /\ Clipped(L - 6 * next - 4) = Clipped(Clipped(L - 6 * base - 4) - 6 * (next - base))
<1> DEFINE end == Clipped(L - 6 * base - 4)
           last == Clipped(L - 6 * next - 4)
<1>1. L - 6 * base - 4 \in Int /\ L - 6 * next - 4 \in Int /\ L - 6 * base - 4 > 0
  OBVIOUS
<1>2. end = L - 6 * base - 4
  BY <1>1, ClippedIs
<1>3. last = IF L - 6 * next - 4 > 0 THEN L - 6 * next - 4 ELSE 0
  BY <1>1, ClippedIs
<1>4. end - 6 * (next - base) = L - 6 * next - 4
  BY <1>2
<1>5. last = Clipped(end - 6 * (next - base))
  BY <1>4
<1> HIDE DEF end, last
<1>6. CASE L - 6 * next - 4 > 0
  <2>1. 6 * base + end = 6 * next + last
    BY <1>2, <1>3, <1>6
  <2>2. QED BY <1>5, <2>1 DEF end, last
<1>7. CASE ~(L - 6 * next - 4 > 0)
  <2>1. last = 0 /\ Found(B, 6 * next) = next
    BY <1>3, <1>7, FoundAt
  <2>2. 6 * next + last = 6 * next
    BY <2>1
  <2>3. PICK r \in 2..6 : 6 * base + end = 6 * (next - 1) + r
    <3>1. L - 6 * next + 2 \in 2..6 /\ 6 * base + end = 6 * (next - 1) + (L - 6 * next + 2)
      BY <1>2, <1>7
    <3>2. QED BY <3>1
  <2>4. next - 1 \in Nat /\ (next - 1) + 1 = next /\ 6 * (next - 1) + 6 = 6 * next
    OBVIOUS
  <2>5. Found(B, 6 * (next - 1) + r) = next
    <3>1. CASE r = 6
      BY <2>1, <2>4, <3>1
    <3>2. CASE r \in 2..5
      <4> DEFINE p == next - 1
      <4>1. p \in Nat /\ p + 1 = next
        BY <2>4
      <4> HIDE DEF p
      <4>2. \A x \in 2..5 : Found(B, 6 * p + x) = p + 1
        BY <4>1, FoundAt
      <4>3. QED BY <3>2, <4>1, <4>2 DEF p
    <3>3. QED BY <3>1, <3>2
  <2>6. QED BY <1>5, <2>1, <2>2, <2>3, <2>5 DEF end, last
<1>8. QED BY <1>6, <1>7

\* What the reader makes of the n-th picture.
UnitOf(kind, n) ==
    [data |-> Coded(kind, n), keyFrame |-> kind = "key",
     parameterSets |-> IF kind = "key" THEN ParameterSets ELSE <<>>]

\* The reader holds the picture k + 1 in full, and perhaps more.
Complete(B, kinds, at, k, L) ==
    /\ Laid(B, kinds, at) /\ kinds \in Seq(Kind) /\ encoder \in {"delimiting", "slicing"}
    /\ k \in Nat /\ k < Len(kinds)
    /\ L \in Nat /\ 6 * at[k + 1] <= L /\ L <= 6 * Len(B)

\* What it takes to work with the picture k + 1.
LEMMA PlaceOf ==
    ASSUME NEW B, NEW kinds, NEW at, NEW k, NEW L, Complete(B, kinds, at, k, L)
    PROVE  /\ Blocks(B) /\ Len(B) \in Nat /\ Len(kinds) \in Nat
           /\ at[k] \in Nat /\ at[k + 1] \in Nat /\ at[k + 1] <= Len(B)
           /\ kinds[k + 1] \in Kind
           /\ at[k + 1] = at[k] + Size(kinds[k + 1]) /\ Size(kinds[k + 1]) \in {2, 4}
           /\ \A x \in 1..Size(kinds[k + 1]) : B[at[k] + x] = BlocksOf(kinds[k + 1], k + 1)[x]
           /\ k \in Nat /\ k + 1 \in Nat
           /\ L \in Nat /\ 6 * at[k] <= L /\ 6 * at[k + 1] <= L /\ L <= 6 * Len(B)
<1>1. Len(kinds) \in Nat /\ k + 1 \in 1..Len(kinds) /\ k \in 0..Len(kinds) /\ k + 1 \in 0..Len(kinds)
      /\ (k + 1) - 1 = k
  BY LenProperties DEF Complete
<1>2. Blocks(B) /\ Len(B) \in Nat
  BY StreamAt DEF Complete, Laid
<1>3. at[k] \in 0..Len(B) /\ at[k + 1] \in 0..Len(B)
  BY <1>1 DEF Complete, Laid
<1>4. kinds[k + 1] \in Kind
  BY <1>1 DEF Complete
<1>5. /\ at[k + 1] = at[(k + 1) - 1] + Size(kinds[k + 1])
      /\ \A x \in 1..Size(kinds[k + 1]) : B[at[(k + 1) - 1] + x] = BlocksOf(kinds[k + 1], k + 1)[x]
  BY <1>1 DEF Complete, Laid
<1>6. Size(kinds[k + 1]) \in {2, 4}
  BY DEF Size
<1>7. k \in Nat /\ k + 1 \in Nat /\ L \in Nat /\ 6 * at[k + 1] <= L /\ L <= 6 * Len(B)
  BY <1>1 DEF Complete
<1>8. at[k + 1] = at[k] + Size(kinds[k + 1])
  BY <1>1, <1>5
<1> DEFINE x == at[k]
           y == at[k + 1]
           c == Size(kinds[k + 1])
<1>9. 6 * x <= L
  <2>1. x \in Nat /\ y = x + c /\ c \in {2, 4} /\ 6 * y <= L
    BY <1>2, <1>3, <1>6, <1>7, <1>8
  <2> HIDE DEF x, y, c
  <2>2. QED BY <1>7, <2>1
<1> HIDE DEF x, y, c
<1>10. x \in Nat /\ y \in Nat /\ y <= Len(B)
  BY <1>2, <1>3 DEF x, y
<1>11. QED BY <1>1, <1>2, <1>4, <1>5, <1>6, <1>7, <1>8, <1>9, <1>10 DEF x, y

\* The units that a reader has of a complete picture.
LEMMA NalsOfPicture ==
    ASSUME NEW B, NEW kinds, NEW at, NEW k, NEW L, Complete(B, kinds, at, k, L)
    PROVE  LET base == at[k]
               c == Size(kinds[k + 1])
               m == Found(B, 6 * base + Clipped(L - 6 * base - 4))
               nals == ReaderOf(B, base, L).nals
           IN  /\ m \in at[k + 1]..Len(B)
               /\ nals \in Seq(Nal) /\ Len(nals) = m - base /\ nals = NalsTo(B, base, m)
               /\ \A i \in 1..m - base : nals[i] = NalOf(B, base, i)
               /\ \A i \in 1..c : /\ nals[i].kind = KindsOf(kinds[k + 1])[i]
                                  /\ nals[i].start = 6 * (i - 1)
                                  /\ NalEnd(nals, i, 6 * c) = 6 * i
<1> DEFINE base == at[k]
           next == at[k + 1]
           kind == kinds[k + 1]
           c == Size(kind)
           end == Clipped(L - 6 * base - 4)
           last == Clipped(L - 6 * next - 4)
           m == Found(B, 6 * base + end)
           nals == ReaderOf(B, base, L).nals
<1>1. /\ Blocks(B) /\ Len(B) \in Nat /\ base \in Nat /\ next \in Nat /\ next <= Len(B)
      /\ kind \in Kind /\ next = base + c /\ c \in {2, 4} /\ k + 1 \in Nat
      /\ \A x \in 1..c : B[base + x] = BlocksOf(kind, k + 1)[x]
      /\ L \in Nat /\ 6 * next <= L /\ L <= 6 * Len(B)
  <2>1. k \in Nat /\ L \in Nat /\ 6 * next <= L /\ L <= 6 * Len(B)
    BY DEF Complete
  <2>2. Complete(B, kinds, at, k, L)
    OBVIOUS
  <2>3. /\ Blocks(B) /\ Len(B) \in Nat /\ at[k] \in Nat /\ at[k + 1] \in Nat /\ at[k + 1] <= Len(B)
        /\ kinds[k + 1] \in Kind /\ k + 1 \in Nat
        /\ at[k + 1] = at[k] + Size(kinds[k + 1]) /\ Size(kinds[k + 1]) \in {2, 4}
        /\ \A x \in 1..Size(kinds[k + 1]) : B[at[k] + x] = BlocksOf(kinds[k + 1], k + 1)[x]
    BY ONLY <2>2, PlaceOf
  <2> HIDE DEF base, next, kind
  <2>4. QED BY <2>1, <2>3 DEF base, next, kind
<1>2. nals = NalsTo(B, base, m)
  BY DEF ReaderOf
<1> HIDE DEF base, next, kind, c, nals
<1>3. m \in next..Len(B)
  <2>1. base < next
    BY <1>1
  <2>2. m = Found(B, 6 * next + last)
    <3>1. Found(B, 6 * base + Clipped(L - 6 * base - 4)) = Found(B, 6 * next + Clipped(L - 6 * next - 4))
      <4> HIDE DEF m, last, end
      <4>1. base \in Nat /\ next \in Nat /\ L \in Nat /\ base < next /\ 6 * next <= L
        BY <1>1, <2>1
      <4>2. QED BY ONLY <4>1, FoundBehind
    <3>2. QED BY <3>1
  <2>3. L - 6 * next - 4 \in Int
    BY <1>1
  <2>4. last \in Nat /\ last = IF L - 6 * next - 4 > 0 THEN L - 6 * next - 4 ELSE 0
    BY <2>3, ClippedIs
  <2> HIDE DEF last
  <2>5. 6 * next + last <= 6 * Len(B)
    BY <1>1, <2>4
  <2>6. Found(B, 6 * next + last) \in next..Len(B)
    BY <1>1, <2>4, <2>5, FoundGrows
  <2>7. QED BY <2>2, <2>6
<1> HIDE DEF m
<1>4. m \in base..Len(B) /\ m \in Nat
  BY <1>1, <1>3
<1>5. /\ nals \in Seq(Nal) /\ Len(nals) = m - base
      /\ \A t \in 1..m - base : nals[t] = NalOf(B, base, t)
  BY <1>1, <1>2, <1>4, NalsAre
<1>6. ASSUME NEW i \in 1..c
      PROVE  /\ nals[i].kind = KindsOf(kind)[i]
             /\ nals[i].start = 6 * (i - 1)
             /\ NalEnd(nals, i, 6 * c) = 6 * i
  <2>1. i \in 1..m - base /\ nals[i] = NalOf(B, base, i)
    BY <1>1, <1>3, <1>5
  <2>2. B[base + i] = BlocksOf(kind, k + 1)[i]
    BY <1>1
  <2>3. Header(BlocksOf(kind, k + 1)[i]) % 32 = KindsOf(kind)[i]
    BY <1>1, UnitsOfPicture DEF c
  <2>4. NalOf(B, base, i).kind = Header(B[base + i]) % 32 /\ NalOf(B, base, i).start = 6 * (i - 1)
    BY DEF NalOf
  <2>5. CASE i < Len(nals)
    <3>1. i + 1 \in 1..m - base /\ (i + 1) - 1 = i
      BY <1>1, <1>4, <1>5, <2>5
    <3>2. nals[i + 1] = NalOf(B, base, i + 1)
      BY <1>5, <3>1
    <3>3. nals[i + 1].start = 6 * i
      <4>1. NalOf(B, base, i + 1).start = 6 * ((i + 1) - 1)
        BY DEF NalOf
      <4>2. QED BY <3>1, <3>2, <4>1
    <3>4. NalEnd(nals, i, 6 * c) = 6 * i
      BY <2>5, <3>3 DEF NalEnd
    <3>5. QED BY <2>1, <2>2, <2>3, <2>4, <3>4
  <2>6. CASE ~(i < Len(nals))
    <3>1. i = c
      BY <1>1, <1>3, <1>5, <2>6
    <3>2. NalEnd(nals, i, 6 * c) = 6 * i
      BY <2>6, <3>1 DEF NalEnd
    <3>3. QED BY <2>1, <2>2, <2>3, <2>4, <3>2
  <2>7. QED BY <2>5, <2>6
<1>7. QED BY <1>2, <1>3, <1>5, <1>6 DEF base, next, kind, c, nals, m, end

\* The units i + 1 .. n of what a reader has found.
LEMMA NalsCut ==
    ASSUME NEW s \in Seq(Nal), NEW m \in Nat, NEW n \in Nat, m <= n, n <= Len(s)
    PROVE  /\ DOMAIN SubSeq(s, m + 1, n) = 1..n - m
           /\ Len(SubSeq(s, m + 1, n)) = n - m
           /\ \A i \in 1..n - m : SubSeq(s, m + 1, n)[i] = s[m + i]
<1>1. ASSUME NEW i \in 1..n - m PROVE m + 1 + i - 1 = m + i /\ m + i \in 1..Len(s)
  <2>1. Len(s) \in Nat
    BY LenProperties
  <2>2. QED BY <2>1
<1>2. ASSUME NEW i \in m + 1..n PROVE s[i] \in Nal
  <2>1. Len(s) \in Nat
    BY LenProperties
  <2>2. i \in 1..Len(s)
    BY <2>1
  <2> HIDE DEF Nal
  <2>3. QED BY <2>2, LenProperties
<1> HIDE DEF Nal
<1>3. /\ SubSeq(s, m + 1, n) \in Seq(Nal)
      /\ Len(SubSeq(s, m + 1, n)) = IF m + 1 <= n THEN n - (m + 1) + 1 ELSE 0
      /\ \A i \in 1..n - (m + 1) + 1 : SubSeq(s, m + 1, n)[i] = s[m + 1 + i - 1]
  <2>1. m + 1 \in Int /\ n \in Int
    OBVIOUS
  <2>2. QED BY <1>2, <2>1, SubSeqProperties
<1>4. n - (m + 1) + 1 = n - m /\ (IF m + 1 <= n THEN n - (m + 1) + 1 ELSE 0) = n - m
  OBVIOUS
<1>5. Len(SubSeq(s, m + 1, n)) = n - m
  BY <1>3, <1>4
<1>6. DOMAIN SubSeq(s, m + 1, n) = 1..n - m
  BY <1>3, <1>5, LenProperties
<1>7. \A i \in 1..n - m : SubSeq(s, m + 1, n)[i] = s[m + i]
  BY <1>1, <1>3, <1>4
<1>8. QED BY <1>5, <1>6, <1>7

\* Without its first c blocks, a reader holds what a reader that began behind them holds.
LEMMA HeldBehind ==
    ASSUME NEW B, Blocks(B), NEW base \in Nat, NEW c \in Nat, NEW next \in Nat, next = base + c,
           NEW L \in Nat, 6 * next <= L, L <= 6 * Len(B)
    PROVE  Slice(Held(B, base, L), 6 * c, L - 6 * base) = Held(B, next, L)
<1> DEFINE h == Held(B, base, L)
           x == 6 * c
           y == L - 6 * base
           w == Held(B, next, L)
<1>1. h \in Seq(Nat) /\ Len(h) = y /\ w \in Seq(Nat) /\ Len(w) = L - 6 * next
  BY HeldAt
<1>2. /\ Stream(B) \in Seq(Nat) /\ Len(Stream(B)) = 6 * Len(B) /\ Len(B) \in Nat
  BY StreamAt
<1> DEFINE S == Stream(B)
<1>3. \A i \in 1..L - 6 * base : h[i] = S[6 * base + i]
  <2> DEFINE p == 6 * base
  <2>1. p \in Nat /\ p <= L /\ L <= Len(S) /\ S \in Seq(Nat)
    BY <1>2
  <2> HIDE DEF p, S
  <2>2. \A i \in 1..L - p : SubSeq(S, p + 1, L)[i] = S[p + i]
    BY <2>1, SubSeqIs
  <2>3. QED BY <2>2 DEF Held, p, S
<1>4. \A i \in 1..L - 6 * next : w[i] = S[6 * next + i]
  <2> DEFINE p == 6 * next
  <2>1. p \in Nat /\ p <= L /\ L <= Len(S) /\ S \in Seq(Nat)
    BY <1>2
  <2> HIDE DEF p, S
  <2>2. \A i \in 1..L - p : SubSeq(S, p + 1, L)[i] = S[p + i]
    BY <2>1, SubSeqIs
  <2>3. QED BY <2>2 DEF Held, p, S
<1>5. x \in Nat /\ y \in Nat /\ x <= y /\ y - x = L - 6 * next /\ y = L - 6 * base /\ 6 * base + x = 6 * next
  OBVIOUS
<1> HIDE DEF h, x, y, w, S
<1>6. /\ SubSeq(h, x + 1, y) \in Seq(Nat) /\ Len(SubSeq(h, x + 1, y)) = y - x
      /\ \A i \in 1..y - x : SubSeq(h, x + 1, y)[i] = h[x + i]
  BY <1>1, <1>5, SubSeqIs
<1>7. ASSUME NEW i \in 1..y - x PROVE SubSeq(h, x + 1, y)[i] = w[i]
  <2>1. x + i \in 1..L - 6 * base /\ 6 * base + (x + i) = 6 * next + i /\ i \in 1..L - 6 * next
    BY <1>5
  <2>2. h[x + i] = S[6 * base + (x + i)] /\ w[i] = S[6 * next + i]
    BY <1>3, <1>4, <2>1
  <2>3. QED BY <1>6, <2>1, <2>2
<1>8. SubSeq(h, x + 1, y) = w
  <2> DEFINE t == SubSeq(h, x + 1, y)
  <2>1. t \in Seq(Nat) /\ Len(t) = Len(w) /\ \A i \in 1..Len(t) : t[i] = w[i]
    BY <1>1, <1>5, <1>6, <1>7
  <2> HIDE DEF t
  <2>2. t = w
    BY <1>1, <2>1, SeqEqual
  <2>3. QED BY <2>2 DEF t
<1>9. QED BY <1>8 DEF Slice, h, x, y, w

\* The units of a reader that lost so many bytes at the front.
Moved(nals, lost) == [i \in DOMAIN nals |-> [nals[i] EXCEPT !.start = @ - lost]]

\* Nor does it know more units, and it knows them at the same places.
LEMMA NalsBehind ==
    ASSUME NEW B, Blocks(B), NEW base \in Nat, NEW c \in Nat, NEW next \in Nat, next = base + c,
           NEW m \in next..Len(B)
    PROVE  Moved(SubSeq(NalsTo(B, base, m), c + 1, m - base), 6 * c) = NalsTo(B, next, m)
<1> DEFINE s == NalsTo(B, base, m)
           n == m - base
           rest == SubSeq(s, c + 1, n)
<1>1. Len(B) \in Nat
  BY StreamAt
<1>2. m \in base..Len(B) /\ n \in Nat /\ c <= n /\ n - c = m - next
  BY <1>1
<1>3. s \in Seq(Nal) /\ Len(s) = n /\ \A t \in 1..m - base : s[t] = NalOf(B, base, t)
  BY <1>2, NalsAre
<1> HIDE DEF s, Nal
<1>4. /\ DOMAIN rest = 1..n - c
      /\ \A i \in 1..n - c : rest[i] = s[c + i]
  <2> HIDE DEF n
  <2>1. s \in Seq(Nal) /\ c \in Nat /\ n \in Nat /\ c <= n /\ n <= Len(s)
    BY <1>2, <1>3
  <2>2. QED BY ONLY <2>1, NalsCut
<1> HIDE DEF rest
<1>5. ASSUME NEW i \in 1..m - next
      PROVE  [rest[i] EXCEPT !.start = @ - 6 * c] = NalOf(B, next, i)
  <2>1. c + i \in 1..m - base /\ base + (c + i) = next + i
        /\ 6 * ((c + i) - 1) - 6 * c = 6 * (i - 1)
    BY <1>1, <1>2
  <2>2. rest[i] = NalOf(B, base, c + i)
    BY <1>2, <1>3, <1>4, <2>1
  <2>3. NalOf(B, base, c + i) = [start |-> 6 * ((c + i) - 1), kind |-> Header(B[next + i]) % 32,
                                 firstSlice |-> Flags(B[next + i]) >= 128]
    BY <2>1 DEF NalOf
  <2> DEFINE z == 6 * ((c + i) - 1)
             kd == Header(B[next + i]) % 32
             fs == Flags(B[next + i]) >= 128
  <2>4. z - 6 * c = 6 * (i - 1)
    BY <2>1
  <2>5. rest[i] = [start |-> z, kind |-> kd, firstSlice |-> fs]
    BY <2>2, <2>3
  <2>6. NalOf(B, next, i) = [start |-> 6 * (i - 1), kind |-> kd, firstSlice |-> fs]
    BY DEF NalOf
  <2> HIDE DEF z, kd, fs
  <2>7. [rest[i] EXCEPT !.start = @ - 6 * c] = [start |-> z - 6 * c, kind |-> kd, firstSlice |-> fs]
    BY <2>5
  <2>8. QED BY <2>4, <2>6, <2>7
<1>6. [i \in 1..m - next |-> [rest[i] EXCEPT !.start = @ - 6 * c]]
      = [i \in 1..m - next |-> NalOf(B, next, i)]
  BY <1>5
<1>7. QED BY <1>2, <1>4, <1>6 DEF rest, s, Moved, NalsTo

\* What is cut off a reader: the bytes, whether it is a key frame, and the parameter sets.
LEMMA PictureIsWhole ==
    ASSUME NEW B, NEW kinds, NEW at, NEW k, NEW L, Complete(B, kinds, at, k, L)
    PROVE  Slice(Held(B, at[k], L), 0, 6 * Size(kinds[k + 1])) = Coded(kinds[k + 1], k + 1)
<1> DEFINE base == at[k]
           kind == kinds[k + 1]
           c == Size(kind)
           T == BlocksOf(kind, k + 1)
<1>1. /\ Blocks(B) /\ base \in Nat /\ c \in Nat /\ kind \in Kind /\ k + 1 \in Nat
      /\ L \in Nat /\ 6 * base <= L /\ L <= 6 * Len(B) /\ 6 * (base + c) <= L
      /\ \A x \in 1..c : B[base + x] = T[x]
  <2>1. 6 * at[k + 1] <= L /\ at[k + 1] = base + c
    BY PlaceOf
  <2>2. 6 * (base + c) <= L
    BY <2>1
  <2>3. c \in Nat
    BY DEF Size
  <2>4. /\ Blocks(B) /\ base \in Nat /\ kind \in Kind /\ k + 1 \in Nat
        /\ L \in Nat /\ 6 * base <= L /\ L <= 6 * Len(B)
        /\ \A x \in 1..c : B[base + x] = T[x]
    BY PlaceOf
  <2>5. QED BY <2>2, <2>3, <2>4
<1>2. encoder \in {"delimiting", "slicing"}
  BY DEF Complete
<1> HIDE DEF base, kind, c, T
<1>3. Spelled(Slice(Held(B, base, L), 6 * 0, 6 * (0 + c)), T, c)
  <2>1. 0 \in Nat /\ 6 * (base + 0 + c) <= L /\ \A i \in 1..c : T[i] = B[base + 0 + i]
    BY <1>1
  <2>2. QED BY <1>1, <2>1, SpelledHeld
<1>4. Spelled(Slice(Held(B, base, L), 0, 6 * c), T, c)
  <2>1. 6 * 0 = 0 /\ 0 + c = c
    BY <1>1
  <2>2. QED BY <1>3, <2>1
<1>5. Spelled(Coded(kind, k + 1), T, c)
  BY <1>1, <1>2, CodedIsBlocks DEF T, c
<1>6. Slice(Held(B, base, L), 0, 6 * c) = Coded(kind, k + 1)
  BY <1>1, <1>4, <1>5, SpelledOnce
<1>7. QED BY <1>6 DEF base, kind, c

\* One parameter set of it.
LEMMA SetIsWhole ==
    ASSUME NEW B, NEW kinds, NEW at, NEW k, NEW L, Complete(B, kinds, at, k, L),
           NEW i \in 1..Size(kinds[k + 1])
    PROVE  LET set == Slice(Held(B, at[k], L), 6 * (i - 1), 6 * i)
           IN  /\ KindsOf(kinds[k + 1])[i] = 7 => set = SPS
               /\ KindsOf(kinds[k + 1])[i] = 8 => set = PPS
<1> DEFINE base == at[k]
           kind == kinds[k + 1]
           c == Size(kind)
           T == BlocksOf(kind, k + 1)
           set == Slice(Held(B, base, L), 6 * (i - 1), 6 * i)
           U == [x \in {1} |-> T[i]]
<1>1. /\ Blocks(B) /\ base \in Nat /\ c \in Nat /\ kind \in Kind /\ k + 1 \in Nat
      /\ L \in Nat /\ 6 * base <= L /\ L <= 6 * Len(B) /\ 6 * (base + c) <= L
      /\ \A x \in 1..c : B[base + x] = T[x]
  <2>1. 6 * at[k + 1] <= L /\ at[k + 1] = base + c
    BY PlaceOf
  <2>2. 6 * (base + c) <= L
    BY <2>1
  <2>3. c \in Nat
    BY DEF Size
  <2>4. /\ Blocks(B) /\ base \in Nat /\ kind \in Kind /\ k + 1 \in Nat
        /\ L \in Nat /\ 6 * base <= L /\ L <= 6 * Len(B)
        /\ \A x \in 1..c : B[base + x] = T[x]
    BY PlaceOf
  <2>5. QED BY <2>2, <2>3, <2>4
<1>2. i \in 1..c
  OBVIOUS
<1>3. U[1] = T[i]
  OBVIOUS
<1> HIDE DEF base, kind, c, T, U
<1>4. Spelled(Slice(Held(B, base, L), 6 * (i - 1), 6 * ((i - 1) + 1)), U, 1)
  <2> DEFINE j == i - 1
  <2>1. j \in Nat /\ 1 \in Nat /\ 6 * (base + j + 1) <= L /\ base + j + 1 = base + i
    BY <1>1, <1>2
  <2>2. \A x \in 1..1 : U[x] = B[base + j + x]
    BY <1>1, <1>2, <1>3, <2>1
  <2> HIDE DEF j
  <2>3. Spelled(Slice(Held(B, base, L), 6 * j, 6 * (j + 1)), U, 1)
    BY <1>1, <2>1, <2>2, SpelledHeld
  <2>4. QED BY <2>3 DEF j
<1>5. (i - 1) + 1 = i
  BY <1>1, <1>2
<1>6. Spelled(set, U, 1)
  BY <1>4, <1>5
<1>7. /\ KindsOf(kind)[i] = 7 => T[i] = SPS
      /\ KindsOf(kind)[i] = 8 => T[i] = PPS
  BY <1>1, <1>2, UnitsOfPicture DEF T, c
<1>8. Spelled(SPS, U, 1) \/ T[i] # SPS
  <2>1. SPS \in Seq(Nat) /\ Len(SPS) = 6
    BY UnitsAreBlocks DEF SPS
  <2>2. QED BY <1>3, <2>1, SpelledOne
<1>9. Spelled(PPS, U, 1) \/ T[i] # PPS
  <2>1. PPS \in Seq(Nat) /\ Len(PPS) = 6
    BY UnitsAreBlocks DEF PPS
  <2>2. QED BY <1>3, <2>1, SpelledOne
<1> HIDE DEF set
<1>10. KindsOf(kind)[i] = 7 => set = SPS
  BY <1>6, <1>7, <1>8, SpelledOnce
<1>11. KindsOf(kind)[i] = 8 => set = PPS
  BY <1>6, <1>7, <1>9, SpelledOnce
<1>12. QED BY <1>10, <1>11 DEF set, base, kind

\* Cutting the picture k + 1 off.
LEMMA CutPicture ==
    ASSUME NEW B, NEW kinds, NEW at, NEW k, NEW L, Complete(B, kinds, at, k, L)
    PROVE  LET c == Size(kinds[k + 1])
           IN  TakeAccessUnit(ReaderOf(B, at[k], L), c, 6 * c)
               = [unit |-> UnitOf(kinds[k + 1], k + 1), reader |-> ReaderOf(B, at[k + 1], L)]
<1> DEFINE base == at[k]
           next == at[k + 1]
           kind == kinds[k + 1]
           c == Size(kind)
           end == Clipped(L - 6 * base - 4)
           m == Found(B, 6 * base + end)
           h == Held(B, base, L)
           nals == ReaderOf(B, base, L).nals
           taken == SubSeq(nals, 1, c)
           set(i) == IF nals[i].kind \in {7, 8}
                     THEN Slice(h, nals[i].start, NalEnd(nals, i, 6 * c)) ELSE <<>>
           rest == SubSeq(nals, c + 1, Len(nals))
           sets == [i \in 1..c |-> set(i)]
           ks == KindsOf(kind)
<1>1. /\ Blocks(B) /\ Len(B) \in Nat /\ base \in Nat /\ next \in Nat /\ next <= Len(B)
      /\ kind \in Kind /\ next = base + c /\ c \in {2, 4} /\ k + 1 \in Nat
      /\ L \in Nat /\ 6 * base <= L /\ 6 * next <= L /\ L <= 6 * Len(B)
  BY PlaceOf
<1>2. /\ m \in next..Len(B)
      /\ nals \in Seq(Nal) /\ Len(nals) = m - base /\ nals = NalsTo(B, base, m)
      /\ \A i \in 1..c : /\ nals[i].kind = ks[i]
                         /\ nals[i].start = 6 * (i - 1)
                         /\ NalEnd(nals, i, 6 * c) = 6 * i
  <2> HIDE DEF Nal
  <2>1. QED BY NalsOfPicture
<1>3. ReaderOf(B, base, L).buffer = h /\ ReaderOf(B, base, L).scanFrom = end
  BY DEF ReaderOf
<1>4. Len(h) = L - 6 * base
  <2> HIDE DEF base, h
  <2>1. QED BY <1>1, HeldAt DEF h
<1>5. Slice(h, nals[1].start, 6 * c) = Coded(kind, k + 1)
  <2>1. 1 \in 1..c
    BY <1>1
  <2>2. nals[1].start = 0
    <3>1. nals[1].start = 6 * (1 - 1)
      BY <1>2, <2>1
    <3>2. QED BY <3>1
  <2>3. Slice(h, 0, 6 * c) = Coded(kind, k + 1)
    BY PictureIsWhole
  <2>4. QED BY <2>2, <2>3
<1>6. \A i \in 1..c : set(i) = IF ks[i] = 7 THEN SPS ELSE IF ks[i] = 8 THEN PPS ELSE <<>>
  <2> SUFFICES ASSUME NEW i \in 1..c
               PROVE  set(i) = IF ks[i] = 7 THEN SPS ELSE IF ks[i] = 8 THEN PPS ELSE <<>>
    OBVIOUS
  <2>1. nals[i].kind = ks[i] /\ nals[i].start = 6 * (i - 1) /\ NalEnd(nals, i, 6 * c) = 6 * i
    BY <1>2
  <2>2. LET s == Slice(h, 6 * (i - 1), 6 * i)
        IN  (ks[i] = 7 => s = SPS) /\ (ks[i] = 8 => s = PPS)
    BY SetIsWhole
  <2>3. set(i) = IF ks[i] \in {7, 8} THEN Slice(h, 6 * (i - 1), 6 * i) ELSE <<>>
    BY <2>1
  <2> HIDE DEF set, ks, h
  <2>4. QED BY <2>2, <2>3
<1> HIDE DEF h, nals, base, next, m, end, set
<1>7. FlattenSeq(sets) = IF kind = "key" THEN ParameterSets ELSE <<>>
  <2>1. SPS \in Seq(Nat) /\ PPS \in Seq(Nat) /\ <<>> \in Seq(Nat)
    BY UnitsAreBlocks DEF SPS, PPS
  <2>2. \A i \in 1..c : set(i) \in Seq(Nat)
    BY <1>6, <2>1
  <2>3. sets \in [1..c -> Seq(Nat)]
    BY <2>2
  <2>4. \A i \in 1..c : sets[i] = IF ks[i] = 7 THEN SPS ELSE IF ks[i] = 8 THEN PPS ELSE <<>>
    BY <1>6
  <2>5. kind = "key" => c = 4
    BY DEF Size
  <2>6. kind = "delta" => c = 2
    BY DEF Size
  <2> HIDE DEF sets, c
  <2>7. FlattenSeq(sets) = IF c = 2 THEN sets[1] \o sets[2]
                           ELSE ((sets[1] \o sets[2]) \o sets[3]) \o sets[4]
    BY <1>1, <2>3, FlattenIs
  <2>8. /\ <<>> \o <<>> = <<>> /\ <<>> \o SPS = SPS /\ SPS \o <<>> = SPS
        /\ SPS \o PPS \in Seq(Nat)
    <3>1. SPS \o PPS \in Seq(Nat)
      BY <2>1, Joined
    <3>2. QED BY <2>1, <3>1, JoinedNothing
  <2>9. ((SPS \o PPS) \o <<>>) \o <<>> = SPS \o PPS
    <3>1. (SPS \o PPS) \o <<>> = SPS \o PPS
      BY <2>8, JoinedNothing
    <3>2. QED BY <3>1
  <2>10. (SPS \o PPS) \o <<>> = SPS \o PPS
    BY <2>8, JoinedNothing
  <2>11. ParameterSets = SPS \o PPS
    BY DEF ParameterSets, SPS, PPS
  <2>12. CASE kind = "key" /\ encoder = "delimiting"
    <3>1. ks[1] = 9 /\ ks[2] = 7 /\ ks[3] = 8 /\ ks[4] = 5
      BY <2>12 DEF KindsOf
    <3>2. c = 4 /\ 1 \in 1..c /\ 2 \in 1..c /\ 3 \in 1..c /\ 4 \in 1..c
      BY <2>5, <2>12
    <3>3. sets[1] = <<>> /\ sets[2] = SPS /\ sets[3] = PPS /\ sets[4] = <<>>
      BY <2>4, <3>1, <3>2
    <3>4. QED BY <2>7, <2>8, <2>10, <2>11, <2>12, <3>2, <3>3
  <2>13. CASE kind = "key" /\ encoder # "delimiting"
    <3>1. ks[1] = 7 /\ ks[2] = 8 /\ ks[3] = 5 /\ ks[4] = 5
      BY <2>13 DEF KindsOf
    <3>2. c = 4 /\ 1 \in 1..c /\ 2 \in 1..c /\ 3 \in 1..c /\ 4 \in 1..c
      BY <2>5, <2>13
    <3>3. sets[1] = SPS /\ sets[2] = PPS /\ sets[3] = <<>> /\ sets[4] = <<>>
      BY <2>4, <3>1, <3>2
    <3>4. QED BY <2>7, <2>9, <2>11, <2>13, <3>2, <3>3
  <2>14. CASE kind = "delta"
    <3>1. ks[1] \notin {7, 8} /\ ks[2] \notin {7, 8}
      BY <2>14 DEF KindsOf
    <3>2. c = 2 /\ 1 \in 1..c /\ 2 \in 1..c /\ kind # "key"
      BY <2>6, <2>14
    <3>3. sets[1] = <<>> /\ sets[2] = <<>>
      BY <2>4, <3>1, <3>2
    <3>4. QED BY <2>7, <2>8, <3>2, <3>3
  <2>15. QED BY <1>1, <2>12, <2>13, <2>14 DEF Kind
<1>8. /\ DOMAIN taken = 1..c /\ \A i \in 1..c : taken[i] = nals[i]
  <2>1. 0 \in Nat /\ c \in Nat /\ 0 <= c /\ c <= Len(nals) /\ c - 0 = c /\ 0 + 1 = 1
    <3>1. c \in {2, 4} /\ base \in Nat /\ next = base + c /\ Len(B) \in Nat /\ m \in next..Len(B)
          /\ Len(nals) = m - base
      BY <1>1, <1>2
    <3> HIDE DEF c, base, next, m, nals
    <3>2. QED BY ONLY <3>1
  <2> HIDE DEF Nal, c
  <2>2. /\ DOMAIN SubSeq(nals, 0 + 1, c) = 1..c - 0
        /\ \A i \in 1..c - 0 : SubSeq(nals, 0 + 1, c)[i] = nals[0 + i]
    BY <1>2, <2>1, NalsCut
  <2>3. \A i \in 1..c : 0 + i = i
    BY <1>1
  <2>4. QED BY <2>1, <2>2, <2>3
<1>9. (\E i \in DOMAIN taken : taken[i].kind = 5) <=> kind = "key"
  <2> HIDE DEF taken
  <2>1. (\E i \in DOMAIN taken : taken[i].kind = 5) <=> \E i \in 1..c : ks[i] = 5
    <3>1. \A i \in 1..c : nals[i].kind = ks[i]
      BY <1>2
    <3> HIDE DEF nals, c, ks
    <3>2. QED BY ONLY <1>8, <3>1
  <2>2. CASE kind = "key"
    <3>1. ks[4] = 5 /\ 4 \in 1..c
      BY <2>2 DEF KindsOf, Size
    <3>2. QED BY <2>1, <2>2, <3>1
  <2>3. CASE kind = "delta"
    <3>1. ks[1] # 5 /\ ks[2] # 5 /\ \A i \in 1..c : i = 1 \/ i = 2
      BY <2>3 DEF KindsOf, Size
    <3>2. QED BY <2>1, <2>3, <3>1
  <2>4. QED BY <1>1, <2>2, <2>3 DEF Kind
<1>10. [i \in DOMAIN taken |-> set(i)] = sets
  BY <1>8
<1>11. Slice(h, 6 * c, Len(h)) = Held(B, next, L)
  <2>1. c \in Nat
    BY <1>1
  <2> HIDE DEF c
  <2>2. QED BY <1>1, <1>4, <2>1, HeldBehind DEF h
<1>12. Moved(rest, 6 * c) = NalsTo(B, next, m)
  <2>1. rest = SubSeq(NalsTo(B, base, m), c + 1, m - base)
    BY <1>2
  <2>2. /\ Blocks(B) /\ base \in Nat /\ c \in Nat /\ next \in Nat /\ next = base + c
        /\ m \in next..Len(B)
    BY <1>1, <1>2
  <2> HIDE DEF rest, c
  <2>3. QED BY <2>1, <2>2, NalsBehind
<1>13. /\ m = Found(B, 6 * next + Clipped(L - 6 * next - 4))
       /\ Clipped(end - 6 * c) = Clipped(L - 6 * next - 4)
  <2>1. base \in Nat /\ next \in Nat /\ L \in Nat /\ base < next /\ 6 * next <= L
    BY <1>1
  <2>2. next - base = c
    BY <1>1
  <2>3. /\ Found(B, 6 * base + Clipped(L - 6 * base - 4)) = Found(B, 6 * next + Clipped(L - 6 * next - 4))
        /\ Clipped(L - 6 * next - 4) = Clipped(Clipped(L - 6 * base - 4) - 6 * (next - base))
    BY <2>1, FoundBehind, Zenon
  <2>4. QED BY <2>2, <2>3 DEF m, end
<1>14. ReaderOf(B, next, L) = [buffer |-> Held(B, next, L), nals |-> NalsTo(B, next, m),
                               scanFrom |-> Clipped(end - 6 * c)]
  BY <1>13 DEF ReaderOf
<1>15. TakeAccessUnit(ReaderOf(B, base, L), c, 6 * c)
       = [unit |-> [data |-> Slice(h, nals[1].start, 6 * c),
                    keyFrame |-> \E i \in DOMAIN taken : taken[i].kind = 5,
                    parameterSets |-> FlattenSeq([i \in DOMAIN taken |-> set(i)])],
          reader |-> [buffer |-> Slice(h, 6 * c, Len(h)),
                      nals |-> Moved(rest, 6 * c),
                      scanFrom |-> Clipped(end - 6 * c)]]
  BY <1>3 DEF TakeAccessUnit, Moved, set, nals
<1>16. UnitOf(kind, k + 1) = [data |-> Slice(h, nals[1].start, 6 * c),
                    keyFrame |-> \E i \in DOMAIN taken : taken[i].kind = 5,
                    parameterSets |-> FlattenSeq([i \in DOMAIN taken |-> set(i)])]
  <2>1. (\E i \in DOMAIN taken : taken[i].kind = 5) = (kind = "key")
    BY <1>9
  <2> HIDE DEF taken, sets
  <2>2. QED BY <1>5, <1>7, <1>10, <2>1 DEF UnitOf
<1> HIDE DEF taken, rest, sets, ks
<1>17. TakeAccessUnit(ReaderOf(B, base, L), c, 6 * c)
       = [unit |-> UnitOf(kind, k + 1), reader |-> ReaderOf(B, next, L)]
  BY <1>11, <1>12, <1>14, <1>15, <1>16
<1>18. QED BY <1>17 DEF base, next, kind, c

\* The reader is at picture k + 1 and has taken L bytes of the stream.
Inside(B, kinds, at, k, L) ==
    /\ Laid(B, kinds, at) /\ kinds \in Seq(Kind) /\ encoder \in {"delimiting", "slicing"}
    /\ k \in 0..Len(kinds)
    /\ L \in Nat /\ 6 * at[k] <= L /\ L <= 6 * Len(B)

\* How many blocks of the stream it knows.
Reach(B, at, k, L) == Found(B, 6 * at[k] + Clipped(L - 6 * at[k] - 4))

\* What it takes to work with a reader at picture k + 1.
LEMMA InsideIs ==
    ASSUME NEW B, NEW kinds, NEW at, NEW k, NEW L, Inside(B, kinds, at, k, L)
    PROVE  /\ Blocks(B) /\ Len(B) \in Nat /\ Len(kinds) \in Nat /\ at[k] \in Nat /\ at[k] <= Len(B)
           /\ at[Len(kinds)] = Len(B)
           /\ k \in Nat /\ k <= Len(kinds)
           /\ L \in Nat /\ 6 * at[k] <= L /\ L <= 6 * Len(B)
           /\ Reach(B, at, k, L) \in at[k]..Len(B)
           /\ k < Len(kinds) =>
                 /\ k + 1 \in 1..Len(kinds) /\ at[k + 1] \in Nat /\ at[k + 1] <= Len(B)
                 /\ kinds[k + 1] \in Kind /\ Size(kinds[k + 1]) \in {2, 4}
                 /\ at[k + 1] = at[k] + Size(kinds[k + 1])
                 /\ \A x \in 1..Size(kinds[k + 1]) : B[at[k] + x] = BlocksOf(kinds[k + 1], k + 1)[x]
           /\ k = Len(kinds) => Reach(B, at, k, L) = at[k]
<1>1. Len(kinds) \in Nat /\ k \in 0..Len(kinds) /\ k \in Nat
  BY LenProperties DEF Inside
<1>2. Blocks(B) /\ Len(B) \in Nat
  BY StreamAt DEF Inside, Laid
<1>3. at[k] \in 0..Len(B) /\ at[Len(kinds)] = Len(B)
  BY <1>1 DEF Inside, Laid
<1>4. L \in Nat /\ 6 * at[k] <= L /\ L <= 6 * Len(B)
  BY DEF Inside
<1> DEFINE b == at[k]
           end == Clipped(L - 6 * b - 4)
<1>5. b \in Nat /\ b <= Len(B) /\ 6 * b <= L
  BY <1>2, <1>3, <1>4
<1> HIDE DEF b
<1>6. L - 6 * b - 4 \in Int
  BY <1>4, <1>5
<1>7. end \in Nat /\ end = IF L - 6 * b - 4 > 0 THEN L - 6 * b - 4 ELSE 0
  BY <1>6, ClippedIs
<1> HIDE DEF end
<1>8. Found(B, 6 * b + end) \in b..Len(B)
  <2>1. 6 * b + end <= 6 * Len(B)
    BY <1>2, <1>4, <1>5, <1>7
  <2>2. QED BY <1>2, <1>5, <1>7, <2>1, FoundGrows
<1>9. Reach(B, at, k, L) \in at[k]..Len(B)
  BY <1>8 DEF Reach, end, b
<1>10. ASSUME k < Len(kinds)
       PROVE  /\ k + 1 \in 1..Len(kinds) /\ at[k + 1] \in Nat /\ at[k + 1] <= Len(B)
              /\ kinds[k + 1] \in Kind /\ Size(kinds[k + 1]) \in {2, 4}
              /\ at[k + 1] = at[k] + Size(kinds[k + 1])
              /\ \A x \in 1..Size(kinds[k + 1]) : B[at[k] + x] = BlocksOf(kinds[k + 1], k + 1)[x]
  <2>1. k + 1 \in 1..Len(kinds) /\ k + 1 \in 0..Len(kinds) /\ (k + 1) - 1 = k
    BY <1>1, <1>10
  <2>2. at[k + 1] \in 0..Len(B)
    BY <2>1 DEF Inside, Laid
  <2>3. kinds[k + 1] \in Kind
    BY <2>1 DEF Inside
  <2>4. /\ at[k + 1] = at[(k + 1) - 1] + Size(kinds[k + 1])
        /\ \A x \in 1..Size(kinds[k + 1]) : B[at[(k + 1) - 1] + x] = BlocksOf(kinds[k + 1], k + 1)[x]
    BY <2>1 DEF Inside, Laid
  <2>5. Size(kinds[k + 1]) \in {2, 4}
    BY DEF Size
  <2>6. at[k + 1] \in Nat /\ at[k + 1] <= Len(B)
    BY <1>2, <2>2
  <2>7. QED BY <2>1, <2>3, <2>4, <2>5, <2>6
<1>11. k = Len(kinds) => Reach(B, at, k, L) = at[k]
  <2> SUFFICES ASSUME k = Len(kinds) PROVE Reach(B, at, k, L) = at[k]
    OBVIOUS
  <2>1. b = Len(B)
    BY <1>3 DEF b
  <2>2. Found(B, 6 * b + end) = b
    BY <1>5, <1>8, <2>1
  <2>3. QED BY <2>2 DEF Reach, end, b
<1>12. QED BY <1>1, <1>2, <1>3, <1>4, <1>5, <1>9, <1>10, <1>11 DEF b

\* What a reader that knows m blocks knows of the picture k + 1.
LEMMA KnownOfPicture ==
    ASSUME NEW B, NEW kinds, NEW at, NEW k, NEW L, Inside(B, kinds, at, k, L), k < Len(kinds),
           NEW x \in 1..Size(kinds[k + 1]), NEW b \in Nat, NEW y, y = at[k] + x - b
    PROVE  LET nal == NalOf(B, b, y)
               kind == kinds[k + 1]
           IN  /\ nal.kind = KindsOf(kind)[x]
               /\ x = Size(kind) /\ encoder # "delimiting" => ~nal.firstSlice
               /\ x = 1 /\ kind = "delta" /\ encoder # "delimiting" => nal.firstSlice
<1> DEFINE p == at[k]
           kind == kinds[k + 1]
           u == BlocksOf(kind, k + 1)[x]
<1>1. /\ p \in Nat /\ kind \in Kind /\ k + 1 \in Nat /\ Size(kind) \in {2, 4}
      /\ B[p + x] = u
  BY InsideIs
<1> HIDE DEF p, kind, u
<1>2. x \in 1..Size(kind) /\ y = p + x - b
  BY DEF p, kind
<1>3. b + y = p + x
  BY <1>1, <1>2
<1>4. NalOf(B, b, y).kind = Header(u) % 32 /\ NalOf(B, b, y).firstSlice = (Flags(u) >= 128)
  BY <1>1, <1>3 DEF NalOf
<1>5. /\ Header(u) % 32 = KindsOf(kind)[x]
      /\ x = Size(kind) /\ encoder # "delimiting" => ~(Flags(u) >= 128)
      /\ x = 1 /\ kind = "delta" /\ encoder # "delimiting" => Flags(u) >= 128
  BY <1>1, <1>2, UnitsOfPicture DEF u
<1>6. QED BY <1>4, <1>5 DEF kind

\* The first unit of a picture opens it, no other does.
LEMMA OpensPicture ==
    ASSUME NEW kind \in Kind, encoder \in {"delimiting", "slicing"}, NEW nals, NEW n \in Nat,
           \A i \in 1..n : i <= Size(kind) => nals[i].kind = KindsOf(kind)[i],
           n >= Size(kind) /\ encoder # "delimiting" => ~nals[Size(kind)].firstSlice
    PROVE  /\ \A i \in 2..n : i <= Size(kind) =>
                 ~StartsAccessUnit(nals[i], \E j \in 1..i - 1 : IsSlice(nals[j]))
           /\ n > Size(kind) => \E j \in 1..Size(kind) : IsSlice(nals[j])
<1> DEFINE c == Size(kind)
           ks == KindsOf(kind)
<1>1. CASE kind = "key" /\ encoder = "delimiting"
  <2>1. c = 4 /\ ks[1] = 9 /\ ks[2] = 7 /\ ks[3] = 8 /\ ks[4] = 5
    BY <1>1 DEF Size, KindsOf
  <2> HIDE DEF c, ks
  <2>2. \A i \in 1..n : i <= 4 => nals[i].kind = ks[i]
    BY <2>1 DEF c, ks
  <2>3. \A i \in 1..n : i <= 3 => ~IsSlice(nals[i])
    <3> SUFFICES ASSUME NEW i \in 1..n, i <= 3 PROVE ~IsSlice(nals[i])
      OBVIOUS
    <3>1. i = 1 \/ i = 2 \/ i = 3
      OBVIOUS
    <3>2. nals[i].kind \in {9, 7, 8}
      BY <2>1, <2>2, <3>1
    <3>3. QED BY <3>2 DEF IsSlice
  <2>4. ASSUME NEW i \in 2..n, i <= 4
        PROVE  ~StartsAccessUnit(nals[i], \E j \in 1..i - 1 : IsSlice(nals[j]))
    <3>1. ~\E j \in 1..i - 1 : IsSlice(nals[j])
      BY <2>3, <2>4
    <3>2. i = 2 \/ i = 3 \/ i = 4
      BY <2>4
    <3>3. nals[i].kind \in {7, 8, 5}
      BY <2>1, <2>2, <3>2
    <3>4. QED BY <3>1, <3>3 DEF StartsAccessUnit
  <2>5. n > 4 => IsSlice(nals[4])
    BY <2>1, <2>2 DEF IsSlice
  <2>6. \A i \in 2..n : i <= c => ~StartsAccessUnit(nals[i], \E j \in 1..i - 1 : IsSlice(nals[j]))
    BY <2>1, <2>4
  <2>7. n > c => \E j \in 1..c : IsSlice(nals[j])
    <3>1. 4 \in 1..c
      BY <2>1
    <3>2. QED BY <2>1, <2>5, <3>1
  <2>8. QED BY <2>6, <2>7 DEF c
<1>2. CASE kind = "key" /\ encoder # "delimiting"
  <2>1. c = 4 /\ ks[1] = 7 /\ ks[2] = 8 /\ ks[3] = 5 /\ ks[4] = 5
    BY <1>2 DEF Size, KindsOf
  <2> HIDE DEF c, ks
  <2>2. \A i \in 1..n : i <= 4 => nals[i].kind = ks[i]
    BY <2>1 DEF c, ks
  <2>3. \A i \in 1..n : i <= 2 => ~IsSlice(nals[i])
    <3> SUFFICES ASSUME NEW i \in 1..n, i <= 2 PROVE ~IsSlice(nals[i])
      OBVIOUS
    <3>1. i = 1 \/ i = 2
      OBVIOUS
    <3>2. nals[i].kind \in {7, 8}
      BY <2>1, <2>2, <3>1
    <3>3. QED BY <3>2 DEF IsSlice
  <2>4. ASSUME NEW i \in 2..n, i <= 4
        PROVE  ~StartsAccessUnit(nals[i], \E j \in 1..i - 1 : IsSlice(nals[j]))
    <3>1. CASE i = 2 \/ i = 3
      <4>1. ~\E j \in 1..i - 1 : IsSlice(nals[j])
        BY <2>3, <3>1
      <4>2. nals[i].kind \in {8, 5}
        BY <2>1, <2>2, <3>1
      <4>3. QED BY <4>1, <4>2 DEF StartsAccessUnit
    <3>2. CASE i = 4
      <4>1. nals[i].kind = 5
        BY <2>1, <2>2, <3>2
      <4>2. ~nals[4].firstSlice
        BY <1>2, <2>1, <2>4, <3>2 DEF c
      <4>3. QED BY <3>2, <4>1, <4>2 DEF StartsAccessUnit
    <3>3. i = 2 \/ i = 3 \/ i = 4
      BY <2>4
    <3>4. QED BY <3>1, <3>2, <3>3
  <2>5. n > 4 => IsSlice(nals[4])
    BY <2>1, <2>2 DEF IsSlice
  <2>6. \A i \in 2..n : i <= c => ~StartsAccessUnit(nals[i], \E j \in 1..i - 1 : IsSlice(nals[j]))
    BY <2>1, <2>4
  <2>7. n > c => \E j \in 1..c : IsSlice(nals[j])
    <3>1. 4 \in 1..c
      BY <2>1
    <3>2. QED BY <2>1, <2>5, <3>1
  <2>8. QED BY <2>6, <2>7 DEF c
<1>3. CASE kind = "delta"
  <2>1. c = 2 /\ ks[1] \in {9, 1} /\ ks[2] = 1 /\ (encoder = "delimiting" => ks[1] = 9)
    BY <1>3 DEF Size, KindsOf
  <2> HIDE DEF c, ks
  <2>2. \A i \in 1..n : i <= 2 => nals[i].kind = ks[i]
    BY <2>1 DEF c, ks
  <2>3. ASSUME NEW i \in 2..n, i <= 2
        PROVE  ~StartsAccessUnit(nals[i], \E j \in 1..i - 1 : IsSlice(nals[j]))
    <3>1. i = 2 /\ nals[2].kind = 1 /\ nals[1].kind = ks[1]
      BY <2>1, <2>2, <2>3
    <3>2. CASE encoder = "delimiting"
      <4>1. ~\E j \in 1..i - 1 : IsSlice(nals[j])
        BY <2>1, <3>1, <3>2 DEF IsSlice
      <4>2. QED BY <3>1, <4>1 DEF StartsAccessUnit
    <3>3. CASE encoder # "delimiting"
      <4>1. ~nals[2].firstSlice
        BY <2>1, <2>3, <3>3 DEF c
      <4>2. QED BY <3>1, <4>1 DEF StartsAccessUnit
    <3>4. QED BY <3>2, <3>3
  <2>4. n > 2 => IsSlice(nals[2])
    BY <2>1, <2>2 DEF IsSlice
  <2>5. \A i \in 2..n : i <= c => ~StartsAccessUnit(nals[i], \E j \in 1..i - 1 : IsSlice(nals[j]))
    BY <2>1, <2>3
  <2>6. n > c => \E j \in 1..c : IsSlice(nals[j])
    <3>1. 2 \in 1..c
      BY <2>1
    <3>2. QED BY <2>1, <2>4, <3>1
  <2>7. QED BY <2>5, <2>6 DEF c
<1>4. QED BY <1>1, <1>2, <1>3 DEF Kind

\* A reader that knows a unit of the next picture has all of this one.
LEMMA ReachedIsRead ==
    ASSUME NEW B, NEW kinds, NEW at, NEW k, NEW L, Inside(B, kinds, at, k, L), k < Len(kinds),
           at[k + 1] < Reach(B, at, k, L)
    PROVE  6 * at[k + 1] <= L
<1> DEFINE b == at[k]
           next == at[k + 1]
           end == Clipped(L - 6 * b - 4)
           m == Found(B, 6 * b + end)
           c == Size(kinds[k + 1])
<1>1. /\ b \in Nat /\ next \in Nat /\ next = b + c /\ c \in {2, 4} /\ L \in Nat /\ 6 * b <= L
  BY InsideIs
<1>2. next < m
  BY DEF Reach
<1> HIDE DEF b, next, c
<1>3. L - 6 * b - 4 \in Int
  BY <1>1
<1>4. end \in Nat /\ end = IF L - 6 * b - 4 > 0 THEN L - 6 * b - 4 ELSE 0
  BY <1>3, ClippedIs
<1> HIDE DEF end
<1>5. end > 0
  <2> SUFFICES ASSUME end = 0 PROVE FALSE
    BY <1>4
  <2>1. 6 * b + end = 6 * b
    BY <1>1
  <2>2. m = b
    BY <1>1, <2>1, FoundAt
  <2>3. QED BY <1>1, <1>2, <2>2
<1>6. 6 * b + end \in Nat
  BY <1>1, <1>4
<1>7. m \in Nat /\ 6 * m <= 6 * b + end + 5
  BY <1>6, FoundNear
<1> HIDE DEF m
<1>8. 6 * next <= L
  BY <1>1, <1>2, <1>4, <1>5, <1>7
<1>9. QED BY <1>8 DEF next

\* When it has, a reader behind this picture is where it is.
LEMMA InsideNext ==
    ASSUME NEW B, NEW kinds, NEW at, NEW k, NEW L, Inside(B, kinds, at, k, L), k < Len(kinds),
           6 * at[k + 1] <= L
    PROVE  /\ Complete(B, kinds, at, k, L)
           /\ Inside(B, kinds, at, k + 1, L)
           /\ Reach(B, at, k + 1, L) = Reach(B, at, k, L)
<1>1. /\ at[k] \in Nat /\ at[k + 1] \in Nat /\ Size(kinds[k + 1]) \in {2, 4}
      /\ at[k + 1] = at[k] + Size(kinds[k + 1])
      /\ Len(kinds) \in Nat /\ k \in Nat /\ k + 1 \in 1..Len(kinds) /\ L \in Nat /\ L <= 6 * Len(B)
  BY InsideIs
<1>2. Complete(B, kinds, at, k, L)
  BY <1>1 DEF Inside, Complete
<1>3. k + 1 \in 0..Len(kinds)
  BY <1>1
<1>4. Inside(B, kinds, at, k + 1, L)
  BY <1>1, <1>3 DEF Inside
<1> DEFINE b == at[k]
           next == at[k + 1]
<1>5. b \in Nat /\ next \in Nat /\ L \in Nat /\ b < next /\ 6 * next <= L
  BY <1>1
<1> HIDE DEF b, next
<1>6. Found(B, 6 * b + Clipped(L - 6 * b - 4)) = Found(B, 6 * next + Clipped(L - 6 * next - 4))
  BY <1>5, FoundBehind, Zenon
<1>7. QED BY <1>2, <1>4, <1>6 DEF Reach, b, next

\* The boundary that the reader finds is the end of its picture.
LEMMA FirstBoundary ==
    ASSUME NEW B, NEW kinds, NEW at, NEW k, NEW L, Inside(B, kinds, at, k, L),
           NEW nals, nals = NalsTo(B, at[k], Reach(B, at, k, L))
    PROVE  /\ nals \in Seq(Nal) /\ Len(nals) = Reach(B, at, k, L) - at[k]
           /\ k = Len(kinds) => Boundaries(nals) = {}
           /\ k < Len(kinds) /\ Reach(B, at, k, L) <= at[k + 1] => Boundaries(nals) = {}
           /\ k < Len(kinds) /\ at[k + 1] < Reach(B, at, k, L) =>
                 /\ Boundaries(nals) # {}
                 /\ Min(Boundaries(nals)) = Size(kinds[k + 1]) + 1
                 /\ nals[Size(kinds[k + 1]) + 1].start = 6 * Size(kinds[k + 1])
<1> DEFINE b == at[k]
           m == Reach(B, at, k, L)
           n == m - b
<1>1. /\ Blocks(B) /\ Len(B) \in Nat /\ b \in Nat /\ m \in b..Len(B) /\ at[Len(kinds)] = Len(B)
      /\ k \in Nat /\ Len(kinds) \in Nat /\ k <= Len(kinds)
      /\ k = Len(kinds) => m = b
  BY InsideIs
<1>2. encoder \in {"delimiting", "slicing"}
  BY DEF Inside
<1> HIDE DEF b, m, Nal
<1>3. nals \in Seq(Nal) /\ Len(nals) = n /\ \A i \in 1..n : nals[i] = NalOf(B, b, i)
  <2>1. nals = NalsTo(B, b, m)
    BY DEF b, m
  <2>2. /\ NalsTo(B, b, m) \in Seq(Nal) /\ Len(NalsTo(B, b, m)) = m - b
        /\ \A t \in 1..m - b : NalsTo(B, b, m)[t] = NalOf(B, b, t) /\ NalOf(B, b, t) \in Nal
    BY <1>1, NalsAre, Zenon
  <2>3. QED BY <2>1, <2>2
<1>4. n \in Nat
  BY <1>1
<1>5. k = Len(kinds) => Boundaries(nals) = {}
  <2> SUFFICES ASSUME k = Len(kinds) PROVE Boundaries(nals) = {}
    OBVIOUS
  <2>1. Len(nals) = 0
    BY <1>1, <1>3
  <2>2. 2..Len(nals) = {}
    BY <2>1
  <2>3. QED BY <2>2, Zenon DEF Boundaries
<1>6. ASSUME k < Len(kinds)
      PROVE  /\ m <= at[k + 1] => Boundaries(nals) = {}
             /\ at[k + 1] < m => /\ Boundaries(nals) # {}
                                 /\ Min(Boundaries(nals)) = Size(kinds[k + 1]) + 1
                                 /\ nals[Size(kinds[k + 1]) + 1].start = 6 * Size(kinds[k + 1])
  <2> DEFINE kind == kinds[k + 1]
             c == Size(kind)
             next == at[k + 1]
             Opens(i) == StartsAccessUnit(nals[i], \E j \in 1..i - 1 : IsSlice(nals[j]))
  <2>1. kind \in Kind /\ c \in {2, 4} /\ next = b + c /\ next \in Nat
    BY <1>6, InsideIs DEF b
  <2>2. ASSUME NEW i \in 1..n, i <= c
        PROVE  /\ nals[i].kind = KindsOf(kind)[i]
               /\ i = c /\ encoder # "delimiting" => ~nals[i].firstSlice
    <3>1. i \in 1..Size(kinds[k + 1])
      BY <1>4, <2>1, <2>2
    <3>2. i = at[k] + i - b
      BY <1>1, <1>4 DEF b
    <3>3. LET nal == NalOf(B, b, i)
          IN  /\ nal.kind = KindsOf(kind)[i]
              /\ i = c /\ encoder # "delimiting" => ~nal.firstSlice
      <4>1. /\ Inside(B, kinds, at, k, L) /\ k < Len(kinds) /\ i \in 1..Size(kinds[k + 1])
            /\ b \in Nat /\ i = at[k] + i - b
        BY <1>1, <1>6, <3>1, <3>2
      <4>2. /\ NalOf(B, b, i).kind = KindsOf(kinds[k + 1])[i]
            /\ i = Size(kinds[k + 1]) /\ encoder # "delimiting" => ~NalOf(B, b, i).firstSlice
        BY ONLY <4>1, KnownOfPicture
      <4>3. QED BY <4>2
    <3>4. QED BY <1>3, <3>3
  <2>3. /\ \A i \in 2..n : i <= c => ~Opens(i)
        /\ n > c => \E j \in 1..c : IsSlice(nals[j])
    <3>1. \A i \in 1..n : i <= c => nals[i].kind = KindsOf(kind)[i]
      BY <2>2
    <3>2. n >= c /\ encoder # "delimiting" => ~nals[c].firstSlice
      <4>1. n >= c => c \in 1..n
        BY <1>4, <2>1
      <4>2. QED BY <2>1, <2>2, <4>1
    <3>3. /\ \A i \in 2..n : i <= Size(kind) =>
                ~StartsAccessUnit(nals[i], \E j \in 1..i - 1 : IsSlice(nals[j]))
          /\ n > Size(kind) => \E j \in 1..Size(kind) : IsSlice(nals[j])
      <4> HIDE DEF n, kind
      <4>1. /\ kind \in Kind /\ encoder \in {"delimiting", "slicing"} /\ n \in Nat
            /\ \A i \in 1..n : i <= Size(kind) => nals[i].kind = KindsOf(kind)[i]
            /\ n >= Size(kind) /\ encoder # "delimiting" => ~nals[Size(kind)].firstSlice
        BY <1>2, <1>4, <2>1, <3>1, <3>2
      <4>2. QED BY ONLY <4>1, OpensPicture
    <3>4. QED BY <3>3
  <2>4. Boundaries(nals) = {i \in 2..n : Opens(i)}
    BY <1>3 DEF Boundaries
  <2>5. m <= next => Boundaries(nals) = {}
    <3> SUFFICES ASSUME m <= next PROVE Boundaries(nals) = {}
      OBVIOUS
    <3>1. n <= c
      BY <1>1, <2>1
    <3> HIDE DEF Opens
    <3>2. \A i \in 2..n : ~Opens(i)
      BY <1>4, <2>1, <2>3, <3>1
    <3>3. QED BY <2>4, <3>2
  <2>6. ASSUME next < m
        PROVE  /\ Boundaries(nals) # {} /\ Min(Boundaries(nals)) = c + 1
               /\ nals[c + 1].start = 6 * c
    <3> DEFINE kind2 == kinds[(k + 1) + 1]
    <3>1. n > c /\ c + 1 \in 2..n /\ c + 1 \in 1..n /\ (c + 1) - 1 = c
      BY <1>1, <2>1, <2>6
    <3>2. k + 1 < Len(kinds)
      <4>1. next # Len(B)
        BY <1>1, <2>1, <2>6
      <4>2. k + 1 # Len(kinds)
        BY <1>1, <4>1
      <4>3. QED BY <1>1, <1>6, <4>2
    <3>3. Inside(B, kinds, at, k + 1, L)
      <4>1. 6 * at[k + 1] <= L
        BY <1>6, <2>6, ReachedIsRead DEF m
      <4>2. QED BY <1>6, <4>1, InsideNext
    <3>4. Size(kind2) \in {2, 4} /\ kind2 \in Kind
      BY <3>2, <3>3, InsideIs
    <3> HIDE DEF kind2
    <3>5. nals[c + 1] = NalOf(B, b, c + 1)
      BY <1>3, <3>1
    <3>6. LET nal == NalOf(B, b, c + 1)
          IN  /\ nal.kind = KindsOf(kind2)[1]
              /\ kind2 = "delta" /\ encoder # "delimiting" => nal.firstSlice
      <4>1. 1 \in 1..Size(kinds[(k + 1) + 1])
        BY <3>4 DEF kind2
      <4>2. c + 1 = at[k + 1] + 1 - b
        BY <1>1, <2>1
      <4> HIDE DEF c, kind
      <4>3. /\ Inside(B, kinds, at, k + 1, L) /\ k + 1 < Len(kinds)
            /\ 1 \in 1..Size(kinds[(k + 1) + 1]) /\ b \in Nat /\ c + 1 = at[k + 1] + 1 - b
        BY <1>1, <3>2, <3>3, <4>1, <4>2
      <4> HIDE DEF b
      <4>4. /\ NalOf(B, b, c + 1).kind = KindsOf(kinds[(k + 1) + 1])[1]
            /\ kinds[(k + 1) + 1] = "delta" /\ encoder # "delimiting" => NalOf(B, b, c + 1).firstSlice
        BY ONLY <4>3, KnownOfPicture
      <4>5. QED BY <4>4 DEF kind2
    <3>7. nals[c + 1].start = 6 * c
      <4>1. NalOf(B, b, c + 1).start = 6 * ((c + 1) - 1)
        BY DEF NalOf
      <4>2. QED BY <3>1, <3>5, <4>1
    <3>8. Opens(c + 1)
      <4>1. \E j \in 1..(c + 1) - 1 : IsSlice(nals[j])
        BY <2>3, <3>1
      <4>2. KindsOf(kind2)[1] = IF encoder = "delimiting" THEN 9 ELSE IF kind2 = "key" THEN 7 ELSE 1
        BY <3>4 DEF KindsOf, Kind
      <4> HIDE DEF c, kind
      <4>3. nals[c + 1].kind = KindsOf(kind2)[1]
            /\ (kind2 = "delta" /\ encoder # "delimiting" => nals[c + 1].firstSlice)
        BY <3>5, <3>6
      <4>4. CASE encoder = "delimiting"
        BY <4>2, <4>3, <4>4 DEF StartsAccessUnit
      <4>5. CASE encoder # "delimiting" /\ kind2 = "key"
        BY <4>1, <4>2, <4>3, <4>5 DEF StartsAccessUnit
      <4>6. CASE encoder # "delimiting" /\ kind2 = "delta"
        BY <4>1, <4>2, <4>3, <4>6 DEF StartsAccessUnit
      <4>7. QED BY <3>4, <4>4, <4>5, <4>6 DEF Kind
    <3> HIDE DEF Opens
    <3>9. c + 1 \in Boundaries(nals)
      BY <2>4, <3>1, <3>8
    <3>10. \A i \in Boundaries(nals) : i \in Nat /\ c + 1 <= i
      <4> SUFFICES ASSUME NEW i \in 2..n, Opens(i) PROVE i \in Nat /\ c + 1 <= i
        BY <2>4
      <4>1. ~(i <= c)
        BY <2>3
      <4>2. QED BY <1>4, <2>1, <4>1
    <3>11. Min(Boundaries(nals)) = c + 1
      <4> DEFINE S == Boundaries(nals)
                 Least(i) == i \in S /\ \A j \in S : i <= j
      <4> HIDE DEF S
      <4>1. Least(c + 1)
        BY <3>9, <3>10 DEF S
      <4>2. \A i : Least(i) => i = c + 1
        <5> SUFFICES ASSUME NEW i, Least(i) PROVE i = c + 1
          OBVIOUS
        <5>1. i \in Nat /\ c + 1 <= i /\ i <= c + 1
          BY <3>9, <3>10 DEF S
        <5>2. QED BY <2>1, <5>1
      <4>3. Min(S) = CHOOSE i \in S : \A j \in S : i <= j
        BY DEF Min
      <4>4. QED BY <4>1, <4>2, <4>3 DEF S
    <3>12. QED BY <3>7, <3>9, <3>11
  <2>7. QED BY <2>5, <2>6
<1>7. QED BY <1>3, <1>5, <1>6 DEF b, m

\* A turn of the loop releases the picture, if the reader knows a unit of the next one.
LEMMA ReleaseIs ==
    ASSUME NEW B, NEW kinds, NEW at, NEW k, NEW L, Inside(B, kinds, at, k, L),
           NEW last, last.reader = ReaderOf(B, at[k], L)
    PROVE  /\ k = Len(kinds) => Release(last) = last
           /\ k < Len(kinds) /\ Reach(B, at, k, L) <= at[k + 1] => Release(last) = last
           /\ k < Len(kinds) /\ at[k + 1] < Reach(B, at, k, L) =>
                 Release(last) = [reader |-> ReaderOf(B, at[k + 1], L),
                                  units |-> Append(last.units, UnitOf(kinds[k + 1], k + 1))]
<1> DEFINE nals == last.reader.nals
<1>1. nals = NalsTo(B, at[k], Reach(B, at, k, L))
  BY DEF ReaderOf, Reach
<1> HIDE DEF nals
<1>2. /\ k = Len(kinds) => Boundaries(nals) = {}
      /\ k < Len(kinds) /\ Reach(B, at, k, L) <= at[k + 1] => Boundaries(nals) = {}
      /\ k < Len(kinds) /\ at[k + 1] < Reach(B, at, k, L) =>
                 /\ Boundaries(nals) # {}
                 /\ Min(Boundaries(nals)) = Size(kinds[k + 1]) + 1
                 /\ nals[Size(kinds[k + 1]) + 1].start = 6 * Size(kinds[k + 1])
  <2>0. Inside(B, kinds, at, k, L) /\ nals = NalsTo(B, at[k], Reach(B, at, k, L))
    BY <1>1
  <2>1. k = Len(kinds) => Boundaries(nals) = {}
    <3> SUFFICES ASSUME k = Len(kinds) PROVE Boundaries(nals) = {}
      OBVIOUS
    <3>1. k = Len(kinds)
      OBVIOUS
    <3>2. QED BY ONLY <2>0, <3>1, FirstBoundary
  <2>2. k < Len(kinds) /\ Reach(B, at, k, L) <= at[k + 1] => Boundaries(nals) = {}
    <3> SUFFICES ASSUME k < Len(kinds) /\ Reach(B, at, k, L) <= at[k + 1] PROVE Boundaries(nals) = {}
      OBVIOUS
    <3>1. k < Len(kinds) /\ Reach(B, at, k, L) <= at[k + 1]
      OBVIOUS
    <3>2. QED BY ONLY <2>0, <3>1, FirstBoundary
  <2>3. k < Len(kinds) /\ at[k + 1] < Reach(B, at, k, L) =>
                 /\ Boundaries(nals) # {}
                 /\ Min(Boundaries(nals)) = Size(kinds[k + 1]) + 1
                 /\ nals[Size(kinds[k + 1]) + 1].start = 6 * Size(kinds[k + 1])
    <3> SUFFICES ASSUME k < Len(kinds), at[k + 1] < Reach(B, at, k, L)
                 PROVE  /\ Boundaries(nals) # {}
                        /\ Min(Boundaries(nals)) = Size(kinds[k + 1]) + 1
                        /\ nals[Size(kinds[k + 1]) + 1].start = 6 * Size(kinds[k + 1])
      OBVIOUS
    <3>1. k < Len(kinds) /\ at[k + 1] < Reach(B, at, k, L)
      OBVIOUS
    <3>2. QED BY ONLY <2>0, <3>1, FirstBoundary
  <2>4. QED BY <2>1, <2>2, <2>3
<1>3. Boundaries(nals) = {} => Release(last) = last
  BY DEF Release, nals
<1>4. ASSUME k < Len(kinds), at[k + 1] < Reach(B, at, k, L)
      PROVE  Release(last) = [reader |-> ReaderOf(B, at[k + 1], L),
                              units |-> Append(last.units, UnitOf(kinds[k + 1], k + 1))]
  <2> DEFINE c == Size(kinds[k + 1])
             cut == TakeAccessUnit(last.reader, Min(Boundaries(nals)) - 1, nals[Min(Boundaries(nals))].start)
  <2>1. Boundaries(nals) # {} /\ Min(Boundaries(nals)) = c + 1 /\ nals[c + 1].start = 6 * c
    BY <1>2, <1>4
  <2>2. Complete(B, kinds, at, k, L)
    <3>1. 6 * at[k + 1] <= L
      BY <1>4, ReachedIsRead
    <3>2. QED BY <1>4, <3>1, InsideNext
  <2>3. TakeAccessUnit(ReaderOf(B, at[k], L), c, 6 * c)
        = [unit |-> UnitOf(kinds[k + 1], k + 1), reader |-> ReaderOf(B, at[k + 1], L)]
    BY <2>2, CutPicture
  <2>4. (c + 1) - 1 = c
    BY DEF Size
  <2>5. Release(last) = [reader |-> cut.reader, units |-> Append(last.units, cut.unit)]
    BY <2>1 DEF Release, nals
  <2>6. cut = TakeAccessUnit(ReaderOf(B, at[k], L), c, 6 * c)
    BY <2>1, <2>4
  <2> DEFINE u == UnitOf(kinds[k + 1], k + 1)
             r == ReaderOf(B, at[k + 1], L)
  <2>7. cut = [unit |-> u, reader |-> r]
    BY <2>3, <2>6
  <2> HIDE DEF cut, c, u, r
  <2>8. cut.unit = u /\ cut.reader = r
    BY <2>7
  <2>9. QED BY <2>5, <2>8 DEF u, r
<1>5. QED BY <1>2, <1>3, <1>4

\* What the reader makes of the pictures p + 1 .. k.
UnitsOf(kinds, p, k) == [i \in 1..k - p |-> UnitOf(kinds[p + i], p + i)]

\* What the reader makes of a picture is a unit.
LEMMA UnitOfIs ==
    ASSUME NEW kind \in Kind, NEW n \in Nat, encoder \in {"delimiting", "slicing"}
    PROVE  UnitOf(kind, n) \in Unit
<1>1. Coded(kind, n) \in Seq(Nat)
  BY CodedIsBlocks DEF Spelled
<1>2. SPS \in Seq(Nat) /\ PPS \in Seq(Nat)
  BY UnitsAreBlocks DEF SPS, PPS
<1>3. ParameterSets \in Seq(Nat)
  BY <1>2, Joined DEF ParameterSets, SPS, PPS
<1>4. (IF kind = "key" THEN ParameterSets ELSE <<>>) \in Seq(Nat)
  BY <1>3
<1>5. (kind = "key") \in BOOLEAN
  OBVIOUS
<1> DEFINE c == Coded(kind, n)
           s == IF kind = "key" THEN ParameterSets ELSE <<>>
           f == kind = "key"
<1> HIDE DEF c, s, f
<1>6. [data |-> c, keyFrame |-> f, parameterSets |-> s] \in Unit
  <2>1. c \in Seq(Nat) /\ s \in Seq(Nat) /\ f \in BOOLEAN
    BY <1>1, <1>4, <1>5 DEF c, s, f
  <2>2. QED BY <2>1 DEF Unit, Byte
<1>7. QED BY <1>6 DEF UnitOf, c, s, f

\* The units of consecutive pictures.
LEMMA UnitsAre ==
    ASSUME NEW kinds \in Seq(Kind), NEW p \in Nat, NEW k \in Nat, p <= k, k <= Len(kinds),
           encoder \in {"delimiting", "slicing"}
    PROVE  /\ UnitsOf(kinds, p, k) \in Seq(Unit) /\ Len(UnitsOf(kinds, p, k)) = k - p
           /\ \A i \in 1..k - p : UnitsOf(kinds, p, k)[i] = UnitOf(kinds[p + i], p + i)
<1>1. ASSUME NEW i \in 1..k - p PROVE UnitOf(kinds[p + i], p + i) \in Unit
  <2>1. Len(kinds) \in Nat
    BY LenProperties
  <2>2. p + i \in 1..Len(kinds) /\ p + i \in Nat
    BY <2>1
  <2>3. kinds[p + i] \in Kind
    BY <2>2
  <2>4. QED BY <2>2, <2>3, UnitOfIs
<1>2. k - p \in Nat
  OBVIOUS
<1> DEFINE n == k - p
           s == UnitsOf(kinds, p, k)
<1>3. s \in [1..n -> Unit]
  BY <1>1 DEF UnitsOf
<1>4. \A i \in 1..n : s[i] = UnitOf(kinds[p + i], p + i)
  BY DEF UnitsOf
<1> HIDE DEF s, n, Unit
<1>5. s \in Seq(Unit) /\ Len(s) = n
  BY <1>2, <1>3 DEF n
<1>6. QED BY <1>4, <1>5 DEF s, n

\* One picture more.
LEMMA UnitsMore ==
    ASSUME NEW kinds \in Seq(Kind), NEW p \in Nat, NEW k \in Nat, p <= k, NEW l \in Nat, l = k + 1,
           l <= Len(kinds), encoder \in {"delimiting", "slicing"}
    PROVE  Append(UnitsOf(kinds, p, k), UnitOf(kinds[l], l)) = UnitsOf(kinds, p, l)
<1> DEFINE s == UnitsOf(kinds, p, k)
           t == UnitsOf(kinds, p, l)
           u == UnitOf(kinds[l], l)
<1>1. Len(kinds) \in Nat
  BY LenProperties
<1>2. p <= l /\ k <= Len(kinds)
  BY <1>1
<1>3. /\ s \in Seq(Unit) /\ Len(s) = k - p /\ \A i \in 1..k - p : s[i] = UnitOf(kinds[p + i], p + i)
      /\ t \in Seq(Unit) /\ Len(t) = l - p /\ \A i \in 1..l - p : t[i] = UnitOf(kinds[p + i], p + i)
  BY <1>2, UnitsAre
<1>4. t[l - p] = u /\ u \in Unit
  <2>1. l - p \in 1..l - p /\ p + (l - p) = l
    OBVIOUS
  <2>2. t[l - p] = u
    BY <1>3, <2>1
  <2> HIDE DEF t, u
  <2>3. QED BY <1>3, <2>1, <2>2
<1> HIDE DEF s, t, u
<1>5. /\ Append(s, u) \in Seq(Unit) /\ Len(Append(s, u)) = Len(s) + 1
      /\ (\A i \in 1..Len(s) : Append(s, u)[i] = s[i]) /\ Append(s, u)[Len(s) + 1] = u
  BY <1>3, <1>4, AppendProperties
<1>6. ASSUME NEW i \in 1..Len(t) PROVE Append(s, u)[i] = t[i]
  <2>1. CASE i \in 1..k - p
    <3>1. i \in 1..l - p /\ i \in 1..Len(s)
      BY <1>3, <2>1
    <3>2. QED BY <1>3, <1>5, <2>1, <3>1
  <2>2. CASE i = l - p
    <3>1. i = Len(s) + 1
      BY <1>3, <2>2
    <3>2. QED BY <1>4, <1>5, <2>2, <3>1
  <2>3. QED BY <1>3, <2>1, <2>2
<1>7. Len(Append(s, u)) = Len(t)
  BY <1>3, <1>5
<1>8. Append(s, u) = t
  BY <1>3, <1>5, <1>6, <1>7, SeqEqual
<1>9. QED BY <1>8 DEF s, t, u

\* The reader knows no unit of the next picture.
Settled(B, kinds, at, k, L) == k < Len(kinds) => Reach(B, at, k, L) <= at[k + 1]

\* The loop releases what is complete and stops.
LEMMA ReleasedIs ==
    ASSUME NEW B, NEW kinds, NEW at, NEW k, NEW L, Inside(B, kinds, at, k, L)
    PROVE  \E to \in k..Len(kinds) :
              /\ Inside(B, kinds, at, to, L) /\ Settled(B, kinds, at, to, L)
              /\ Released(ReaderOf(B, at[k], L))
                 = [reader |-> ReaderOf(B, at[to], L), units |-> UnitsOf(kinds, k, to)]
<1> DEFINE E == Len(kinds)
           m == Reach(B, at, k, L)
           r == ReaderOf(B, at[k], L)
           N == Len(r.nals)
           S == {j \in k..E : j = E \/ m <= at[j + 1]}
<1>1. /\ k \in Nat /\ E \in Nat /\ k <= E /\ at[k] \in Nat /\ m \in Nat /\ at[k] <= m
      /\ kinds \in Seq(Kind) /\ encoder \in {"delimiting", "slicing"}
  <2>1. Len(B) \in Nat /\ m \in at[k]..Len(B) /\ at[k] \in Nat
    BY InsideIs
  <2> HIDE DEF m
  <2>2. m \in Nat /\ at[k] <= m
    BY <2>1
  <2>3. QED BY <2>2, InsideIs DEF Inside
<1>2. N = m - at[k]
  <2>1. r.nals = NalsTo(B, at[k], m)
    BY DEF ReaderOf, Reach
  <2>2. Len(r.nals) = m - at[k]
    BY <2>1, FirstBoundary
  <2>3. QED BY <2>2
<1> HIDE DEF E, m, r, N
<1>3. PICK to \in S : \A j \in S : to <= j
  <2>1. S \in SUBSET Nat /\ E \in S
    BY <1>1
  <2>2. QED BY <2>1, LeastOf
<1>4. to \in k..E /\ to \in Nat /\ k <= to
  BY <1>1
<1>5. ASSUME NEW j \in k + 1..to PROVE j - 1 < E /\ at[j] < m /\ j - 1 \in k..to
  <2>1. j - 1 \in k..E /\ ~(to <= j - 1) /\ (j - 1) + 1 = j /\ j - 1 < E /\ j - 1 \in k..to
    BY <1>1, <1>4
  <2>2. j - 1 \notin S
    BY <1>3, <2>1
  <2>3. ~(m <= at[j])
    BY <2>1, <2>2
  <2>4. at[j] \in Nat
    <3>1. j \in 0..E
      BY <1>1, <1>4
    <3>2. at[j] \in 0..Len(B)
      BY <3>1 DEF Inside, Laid, E
    <3>3. QED BY <3>2
  <2>5. QED BY <1>1, <2>1, <2>3, <2>4
<1> DEFINE P(j) == /\ Inside(B, kinds, at, j, L) /\ Reach(B, at, j, L) = m
                   /\ at[k] + (j - k) <= at[j]
           X == {j \in k..to : ~P(j)}
<1>6. P(k)
  BY <1>1 DEF m
<1>7. ASSUME NEW j \in k + 1..to, P(j - 1) PROVE P(j)
  <2> DEFINE i == j - 1
  <2>1. i < E /\ at[i + 1] < m /\ i \in Nat /\ i + 1 = j
    BY <1>1, <1>5
  <2> HIDE DEF i
  <2>2. /\ Inside(B, kinds, at, i, L) /\ Reach(B, at, i, L) = m /\ at[k] + (i - k) <= at[i]
    BY <1>7 DEF i
  <2>3. 6 * at[i + 1] <= L
    BY <2>1, <2>2, ReachedIsRead DEF E
  <2>4. Inside(B, kinds, at, i + 1, L) /\ Reach(B, at, i + 1, L) = m
    <3>1. i < Len(kinds)
      BY <2>1 DEF E
    <3> HIDE DEF m
    <3>2. Inside(B, kinds, at, i + 1, L) /\ Reach(B, at, i + 1, L) = Reach(B, at, i, L)
      <4>1. Inside(B, kinds, at, i, L) /\ i < Len(kinds) /\ 6 * at[i + 1] <= L
        BY <2>2, <2>3, <3>1
      <4>2. QED BY ONLY <4>1, InsideNext
    <3>3. QED BY <2>2, <3>2
  <2>5. at[i] \in Nat /\ at[i + 1] = at[i] + Size(kinds[i + 1]) /\ Size(kinds[i + 1]) \in {2, 4}
    <3>1. i < Len(kinds)
      BY <2>1 DEF E
    <3> HIDE DEF m
    <3>2. QED BY <2>2, <3>1, InsideIs
  <2>6. at[k] + ((i + 1) - k) <= at[i + 1]
    <3> DEFINE x == at[i]
               y == at[i + 1]
               z == at[k]
               c == Size(kinds[i + 1])
    <3>1. x \in Nat /\ y = x + c /\ c \in {2, 4} /\ z + (i - k) <= x /\ z \in Nat
      BY <1>1, <2>2, <2>5
    <3> HIDE DEF x, y, z, c
    <3>2. z + ((i + 1) - k) <= y
      BY <1>1, <2>1, <3>1
    <3>3. QED BY <3>2 DEF y, z
  <2> HIDE DEF m
  <2>7. QED BY <2>1, <2>4, <2>6
<1> HIDE DEF P
<1>8. \A j \in k..to : P(j)
  <2> SUFFICES ASSUME X # {} PROVE FALSE
    OBVIOUS
  <2>1. X \in SUBSET Nat
    BY <1>1, <1>4
  <2> HIDE DEF X
  <2>2. PICK j \in X : \A i \in X : j <= i
    BY <2>1, LeastOf
  <2>3. j \in k..to /\ ~P(j)
    BY <2>2 DEF X
  <2>4. j \in k + 1..to /\ j - 1 \in k..to /\ ~(j <= j - 1)
    BY <1>1, <1>4, <1>6, <2>3
  <2>5. P(j - 1)
    BY <2>2, <2>4 DEF X
  <2>6. QED BY <1>7, <2>3, <2>4, <2>5
<1>9. Inside(B, kinds, at, to, L) /\ Reach(B, at, to, L) = m /\ Settled(B, kinds, at, to, L)
  <2>1. P(to)
    BY <1>4, <1>8
  <2>2. to = E \/ m <= at[to + 1]
    OBVIOUS
  <2>3. QED BY <1>1, <1>4, <2>1, <2>2 DEF P, Settled, E
<1>10. to - k <= N /\ N \in Nat
  <2>1. at[k] + (to - k) <= at[to]
    BY <1>4, <1>8 DEF P
  <2>2. at[to] \in Nat /\ at[to] <= m
    <3>1. Len(B) \in Nat /\ Reach(B, at, to, L) \in at[to]..Len(B) /\ at[to] \in Nat
      BY <1>9, InsideIs
    <3>2. QED BY <1>9, <3>1
  <2>3. QED BY <1>1, <1>2, <1>4, <2>1, <2>2
<1> DEFINE st(j) == [reader |-> ReaderOf(B, at[j], L), units |-> UnitsOf(kinds, k, j)]
           g == [n \in 0..N |-> st(IF n <= to - k THEN k + n ELSE to)]
           f == Turned(r)
<1>11. ASSUME NEW j \in k + 1..to PROVE Release(st(j - 1)) = st(j)
  <2> DEFINE i == j - 1
  <2>1. i < E /\ at[i + 1] < m /\ i \in Nat /\ i + 1 = j /\ k <= i /\ i \in k..to /\ j \in Nat /\ j <= E
    BY <1>1, <1>4, <1>5
  <2> HIDE DEF i
  <2>2. Inside(B, kinds, at, i, L) /\ Reach(B, at, i, L) = m
    BY <1>8, <2>1 DEF P
  <2>3. st(i).reader = ReaderOf(B, at[i], L) /\ st(i).units = UnitsOf(kinds, k, i)
    OBVIOUS
  <2> DEFINE last == st(i)
  <2>4. last.reader = ReaderOf(B, at[i], L) /\ last.units = UnitsOf(kinds, k, i)
    BY <2>3
  <2> HIDE DEF last
  <2>5. i < Len(kinds) /\ at[i + 1] < Reach(B, at, i, L)
    BY <2>1, <2>2 DEF E
  <2>6. Release(last) = [reader |-> ReaderOf(B, at[i + 1], L),
                         units |-> Append(last.units, UnitOf(kinds[i + 1], i + 1))]
    BY <2>2, <2>4, <2>5, ReleaseIs
  <2>7. Append(UnitsOf(kinds, k, i), UnitOf(kinds[j], j)) = UnitsOf(kinds, k, j)
    <3>1. /\ kinds \in Seq(Kind) /\ k \in Nat /\ i \in Nat /\ k <= i /\ j \in Nat /\ j = i + 1
          /\ j <= Len(kinds) /\ encoder \in {"delimiting", "slicing"}
      BY <1>1, <2>1 DEF E
    <3>2. QED BY <3>1, UnitsMore
  <2>8. QED BY <2>1, <2>4, <2>6, <2>7 DEF last, i
<1>12. Release(st(to)) = st(to)
  <2> DEFINE last == st(to)
  <2>1. last.reader = ReaderOf(B, at[to], L)
    OBVIOUS
  <2> HIDE DEF last
  <2>2. to = Len(kinds) \/ (to < Len(kinds) /\ Reach(B, at, to, L) <= at[to + 1])
    BY <1>1, <1>4, <1>9 DEF Settled, E
  <2>3. Release(last) = last
    BY <1>9, <2>1, <2>2, ReleaseIs
  <2>4. QED BY <2>3 DEF last
<1> HIDE DEF st
<1>13. g[0] = [reader |-> r, units |-> <<>>]
  <2>1. 0 \in 0..N /\ 0 <= to - k /\ k + 0 = k
    BY <1>1, <1>4, <1>10
  <2>2. g[0] = st(k)
    BY <2>1
  <2>3. UnitsOf(kinds, k, k) = <<>>
    <3>1. k - k = 0
      BY <1>1
    <3>2. QED BY <3>1 DEF UnitsOf
  <2>4. QED BY <2>2, <2>3 DEF st, r
<1>14. ASSUME NEW n \in 1..N PROVE g[n] = Release(g[n - 1])
  <2>1. n \in 0..N /\ n - 1 \in 0..N
    BY <1>10
  <2>2. CASE n <= to - k
    <3>1. n - 1 <= to - k /\ k + n \in k + 1..to /\ (k + n) - 1 = k + (n - 1)
      BY <1>1, <1>4, <2>2
    <3>2. g[n] = st(k + n) /\ g[n - 1] = st(k + (n - 1))
      BY <2>1, <2>2, <3>1
    <3>3. Release(st((k + n) - 1)) = st(k + n)
      BY <1>11, <3>1
    <3>4. QED BY <3>1, <3>2, <3>3
  <2>3. CASE ~(n <= to - k)
    <3>1. n - 1 <= to - k => k + (n - 1) = to
      BY <1>1, <1>4, <2>3
    <3>2. g[n] = st(to) /\ g[n - 1] = st(to)
      BY <2>1, <2>3, <3>1
    <3>3. QED BY <1>12, <3>2
  <2>4. QED BY <2>2, <2>3
<1> DEFINE start == [reader |-> r, units |-> <<>>]
           Body(h, n) == IF n = 0 THEN start ELSE Release(h[n - 1])
<1>15. g = [n \in 0..N |-> Body(g, n)]
  <2>1. ASSUME NEW n \in 0..N PROVE g[n] = Body(g, n)
    <3>1. CASE n = 0
      BY <1>13, <3>1
    <3>2. CASE n # 0
      <4>1. n \in 1..N
        BY <1>10, <3>2
      <4> HIDE DEF g
      <4>2. QED BY <1>14, <3>2, <4>1
    <3>3. QED BY <3>1, <3>2
  <2>2. g = [n \in 0..N |-> g[n]]
    OBVIOUS
  <2> HIDE DEF g, Body
  <2>3. QED BY <2>1, <2>2
<1>16. f = [n \in 0..N |-> Body(f, n)]
  <2>1. \E h : h = [n \in 0..N |-> Body(h, n)]
    BY <1>15
  <2>2. f = CHOOSE h : h = [n \in 0..N |-> Body(h, n)]
    BY DEF Turned, N
  <2> HIDE DEF f, Body
  <2>3. QED BY <2>1, <2>2
<1>17. f[N] = g[N]
  <2>1. ASSUME NEW n \in 0..N PROVE f[n] = Body(f, n)
    <3> HIDE DEF f, Body
    <3>1. QED BY <1>16
  <2>2. f[0] = g[0]
    <3>1. 0 \in 0..N
      BY <1>10
    <3>2. f[0] = start
      BY <2>1, <3>1
    <3>3. QED BY <1>13, <3>2
  <2>3. ASSUME NEW n \in 0 + 1..N, f[n - 1] = g[n - 1] PROVE f[n] = g[n]
    <3>1. n \in 1..N /\ n \in 0..N /\ n # 0
      BY <1>10
    <3>2. f[n] = Release(f[n - 1])
      <4> HIDE DEF f
      <4>1. QED BY <2>1, <3>1
    <3> HIDE DEF f, g
    <3>3. QED BY <1>14, <2>3, <3>1, <3>2
  <2> HIDE DEF f, g
  <2>4. \A n \in 0 + 1..N : f[n - 1] = g[n - 1] => f[n] = g[n]
    BY <2>3
  <2>5. SameSteps(f, g, 0, N)
    BY <2>2, <2>4 DEF SameSteps
  <2>6. \A n \in 0..N : f[n] = g[n]
    BY <1>10, <2>5, SameValues
  <2>7. QED BY <1>10, <2>6
<1>18. g[N] = st(to)
  <2>1. N \in 0..N /\ (N <= to - k => k + N = to)
    BY <1>1, <1>4, <1>10
  <2>2. QED BY <2>1
<1>19. Released(r) = st(to)
  BY <1>17, <1>18 DEF Released, N
<1>20. QED BY <1>4, <1>9, <1>19 DEF st, r, E

\* Two parts of a sequence that follow each other.
LEMMA PartsJoin ==
    ASSUME NEW s \in Seq(Nat), NEW a \in Nat, NEW b \in Nat, NEW c \in Nat, a <= b, b <= c, c <= Len(s)
    PROVE  SubSeq(s, a + 1, b) \o SubSeq(s, b + 1, c) = SubSeq(s, a + 1, c)
<1> DEFINE x == SubSeq(s, a + 1, b)
           y == SubSeq(s, b + 1, c)
           z == SubSeq(s, a + 1, c)
<1>1. /\ x \in Seq(Nat) /\ Len(x) = b - a /\ \A i \in 1..b - a : x[i] = s[a + i]
      /\ y \in Seq(Nat) /\ Len(y) = c - b /\ \A i \in 1..c - b : y[i] = s[b + i]
      /\ z \in Seq(Nat) /\ Len(z) = c - a /\ \A i \in 1..c - a : z[i] = s[a + i]
  <2>1. Len(s) \in Nat
    BY LenProperties
  <2>2. b <= Len(s) /\ a <= c
    BY <2>1
  <2>3. QED BY <2>2, SubSeqIs
<1> HIDE DEF x, y, z
<1>2. /\ x \o y \in Seq(Nat) /\ Len(x \o y) = Len(x) + Len(y)
      /\ \A i \in 1..Len(x) : (x \o y)[i] = x[i]
      /\ \A i \in 1..Len(y) : (x \o y)[Len(x) + i] = y[i]
  BY <1>1, Joined
<1>3. Len(x \o y) = Len(z)
  BY <1>1, <1>2
<1>4. ASSUME NEW i \in 1..Len(z) PROVE (x \o y)[i] = z[i]
  <2>1. CASE i <= b - a
    <3>1. i \in 1..b - a /\ i \in 1..Len(x) /\ i \in 1..c - a
      BY <1>1, <2>1
    <3>2. QED BY <1>1, <1>2, <3>1
  <2>2. CASE i > b - a
    <3> DEFINE j == i - (b - a)
    <3>1. j \in 1..c - b /\ j \in 1..Len(y) /\ i = Len(x) + j /\ a + i = b + j /\ i \in 1..c - a
      BY <1>1, <2>2
    <3> HIDE DEF j
    <3>2. (x \o y)[i] = y[j]
      BY <1>2, <3>1
    <3>3. QED BY <1>1, <3>1, <3>2
  <2>3. i <= b - a \/ i > b - a
    <3>1. i \in Nat /\ b - a \in Nat
      BY <1>1
    <3>2. QED BY <3>1
  <2>4. QED BY <2>1, <2>2, <2>3
<1>5. x \o y = z
  <2> DEFINE t == x \o y
  <2>1. t \in Seq(Nat) /\ Len(t) = Len(z) /\ \A i \in 1..Len(t) : t[i] = z[i]
    BY <1>2, <1>3, <1>4
  <2> HIDE DEF t
  <2>2. t = z
    BY <1>1, <2>1, SeqEqual
  <2>3. QED BY <2>2 DEF t
<1>6. QED BY <1>5 DEF x, y, z

\* A settled reader holds less than five units and a start code.
LEMMA SettledIsShort ==
    ASSUME NEW B, NEW kinds, NEW at, NEW k, NEW L, Inside(B, kinds, at, k, L),
           Settled(B, kinds, at, k, L)
    PROVE  Len(Held(B, at[k], L)) <= 29
<1> DEFINE b == at[k]
           m == Reach(B, at, k, L)
           end == Clipped(L - 6 * b - 4)
<1>1. /\ b \in Nat /\ L \in Nat /\ 6 * b <= L /\ L <= 6 * Len(B) /\ Len(B) \in Nat /\ Blocks(B)
      /\ k \in Nat /\ Len(kinds) \in Nat /\ k <= Len(kinds) /\ at[Len(kinds)] = Len(B)
  <2> HIDE DEF b
  <2>1. QED BY InsideIs DEF b
<1> HIDE DEF b, m, end
<1>2. Len(Held(B, b, L)) = L - 6 * b
  BY <1>1, HeldAt
<1>3. L - 6 * b - 4 \in Int
  BY <1>1
<1>4. end \in Nat /\ end = IF L - 6 * b - 4 > 0 THEN L - 6 * b - 4 ELSE 0
  BY <1>3, ClippedIs DEF end
<1>5. CASE k = Len(kinds)
  <2>1. b = Len(B)
    BY <1>1, <1>5 DEF b
  <2>2. L - 6 * b <= 29
    BY <1>1, <2>1
  <2>3. QED BY <1>2, <2>2 DEF b
<1>6. CASE k < Len(kinds)
  <2> DEFINE next == at[k + 1]
             c == Size(kinds[k + 1])
  <2>1. next = b + c /\ c \in {2, 4} /\ next \in Nat
    BY <1>6, InsideIs DEF b
  <2>2. m <= next
    BY <1>6 DEF Settled, m
  <2>3. m = Found(B, 6 * b + end)
    BY DEF Reach, m, b, end
  <2>4. 6 * b + end \in Nat
    BY <1>1, <1>4
  <2>5. m \in Nat /\ 6 * b + end - 1 <= 6 * m
    <3> DEFINE i == 6 * b + end
    <3>1. i \in Nat
      BY <2>4
    <3> HIDE DEF i
    <3>2. Found(B, i) \in Nat /\ i - 1 <= 6 * Found(B, i)
      BY <3>1, FoundNear
    <3>3. m = Found(B, i)
      BY <2>3 DEF i
    <3>4. m \in Nat /\ i - 1 <= 6 * m
      BY <3>2, <3>3
    <3>5. QED BY <1>1, <1>4, <3>4 DEF i
  <2> HIDE DEF next, c
  <2>6. L - 6 * b <= 29
    BY <1>1, <1>4, <2>1, <2>2, <2>5
  <2>7. QED BY <1>2, <2>6 DEF b
<1>7. QED BY <1>1, <1>5, <1>6

\* A push of the next bytes.
Pushed(B, kinds, at, k, L, M, chunk, to) ==
    /\ to \in k..Len(kinds)
    /\ Inside(B, kinds, at, to, M) /\ Settled(B, kinds, at, to, M)
    /\ Push(ReaderOf(B, at[k], L), chunk)
       = [reader |-> ReaderOf(B, at[to], M), units |-> UnitsOf(kinds, k, to)]

\* A push of the next bytes releases the pictures that a settled reader is past.
LEMMA PushIs ==
    ASSUME NEW B, NEW kinds, NEW at, NEW k, NEW L, Inside(B, kinds, at, k, L),
           NEW M \in Nat, L <= M, M <= 6 * Len(B), NEW chunk, chunk = SubSeq(Stream(B), L + 1, M)
    PROVE  \E to : Pushed(B, kinds, at, k, L, M, chunk, to)
<1> DEFINE b == at[k]
           r == ReaderOf(B, b, L)
<1>1. /\ b \in Nat /\ L \in Nat /\ 6 * b <= L /\ Len(B) \in Nat /\ Blocks(B)
  <2> HIDE DEF b
  <2>1. QED BY InsideIs DEF b
<1>2. Inside(B, kinds, at, k, M)
  <2>1. 6 * b <= M
    <3> HIDE DEF b
    <3>1. QED BY <1>1
  <2>2. QED BY <2>1 DEF Inside
<1> HIDE DEF b
<1>3. Held(B, b, L) \o chunk = Held(B, b, M)
  <2> DEFINE s == Stream(B)
             a == 6 * b
  <2>1. s \in Seq(Nat) /\ Len(s) = 6 * Len(B)
    BY <1>1, StreamAt
  <2>2. a \in Nat /\ a <= L /\ L \in Nat
    BY <1>1
  <2> HIDE DEF s, a
  <2>3. SubSeq(s, a + 1, L) \o SubSeq(s, L + 1, M) = SubSeq(s, a + 1, M)
    BY <2>1, <2>2, PartsJoin
  <2>4. QED BY <2>3 DEF Held, s, a
<1>4. [r EXCEPT !.buffer = @ \o chunk] = [r EXCEPT !.buffer = Held(B, b, M)]
  <2>1. r.buffer = Held(B, b, L)
    BY DEF ReaderOf
  <2>2. QED BY <1>3, <2>1
<1>5. Scan([r EXCEPT !.buffer = @ \o chunk]) = ReaderOf(B, b, M)
  <2>1. Scan([ReaderOf(B, b, L) EXCEPT !.buffer = Held(B, b, M)]) = ReaderOf(B, b, M)
    BY <1>1, ScanFinds
  <2>2. QED BY <1>4, <2>1
<1>6. PICK to \in k..Len(kinds) :
        /\ Inside(B, kinds, at, to, M) /\ Settled(B, kinds, at, to, M)
        /\ Released(ReaderOf(B, at[k], M))
           = [reader |-> ReaderOf(B, at[to], M), units |-> UnitsOf(kinds, k, to)]
  BY <1>2, ReleasedIs
<1> DEFINE released == Released(Scan([r EXCEPT !.buffer = @ \o chunk]))
<1>7. released = [reader |-> ReaderOf(B, at[to], M), units |-> UnitsOf(kinds, k, to)]
  BY <1>5, <1>6 DEF b
<1>8. ~(Len(released.reader.buffer) > MaxBuffer)
  <2>1. released.reader.buffer = Held(B, at[to], M)
    BY <1>7 DEF ReaderOf
  <2> DEFINE n == Len(released.reader.buffer)
  <2>2. n <= 29
    BY <1>6, <2>1, SettledIsShort
  <2>3. n \in Nat
    <3>1. at[to] \in Nat /\ 6 * at[to] <= M /\ M <= 6 * Len(B)
      BY <1>6, InsideIs
    <3> DEFINE x == at[to]
    <3>2. x \in Nat /\ 6 * x <= M
      BY <3>1
    <3> HIDE DEF x
    <3>3. Len(Held(B, x, M)) = M - 6 * x
      BY <1>1, <3>2, HeldAt
    <3>4. Len(Held(B, x, M)) \in Nat
      BY <3>2, <3>3
    <3>5. QED BY <2>1, <3>4 DEF x
  <2> HIDE DEF n, released
  <2>4. ~(n > MaxBuffer)
    BY <2>2, <2>3, BufferAssumption, PictureFits
  <2>5. QED BY <2>4 DEF n
<1>9. Push(r, chunk) = released
  <2>1. Push(r, chunk) = IF Len(released.reader.buffer) > MaxBuffer
                         THEN [released EXCEPT !.reader = NewReader] ELSE released
    BY DEF Push
  <2> HIDE DEF released
  <2>2. QED BY <1>8, <2>1
<1>10. Push(ReaderOf(B, at[k], L), chunk) = [reader |-> ReaderOf(B, at[to], M), units |-> UnitsOf(kinds, k, to)]
  BY <1>7, <1>9 DEF r, b
<1>11. Pushed(B, kinds, at, k, L, M, chunk, to)
  BY <1>6, <1>10 DEF Pushed
<1>12. QED BY <1>11

\* When the encoder is silent, what a settled reader holds is the last picture.
LEMMA FlushIs ==
    ASSUME NEW B, NEW kinds, NEW at, NEW k, NEW L, Inside(B, kinds, at, k, L),
           Settled(B, kinds, at, k, L), L = 6 * Len(B),
           HasPendingPicture(ReaderOf(B, at[k], L))
    PROVE  /\ k < Len(kinds)
           /\ Inside(B, kinds, at, k + 1, L) /\ Settled(B, kinds, at, k + 1, L)
           /\ FlushPending(ReaderOf(B, at[k], L))
              = [unit |-> UnitOf(kinds[k + 1], k + 1), reader |-> ReaderOf(B, at[k + 1], L)]
<1> DEFINE b == at[k]
           m == Reach(B, at, k, L)
           end == Clipped(L - 6 * b - 4)
           nals == ReaderOf(B, at[k], L).nals
           next == at[k + 1]
           E == Len(kinds)
<1>1. /\ b \in Nat /\ L \in Nat /\ 6 * b <= L /\ Len(B) \in Nat /\ Blocks(B)
      /\ k \in Nat /\ E \in Nat /\ k <= E /\ at[E] = Len(B)
      /\ m \in b..Len(B) /\ b <= Len(B)
      /\ k = E => m = b
  <2> HIDE DEF m
  <2>1. QED BY InsideIs DEF m
<1>2. nals \in Seq(Nal) /\ Len(nals) = m - b
  <2>1. nals = NalsTo(B, at[k], m)
    BY DEF ReaderOf, Reach
  <2> HIDE DEF nals, Nal, m
  <2>2. nals \in Seq(Nal) /\ Len(nals) = Reach(B, at, k, L) - at[k]
    BY <2>1, FirstBoundary DEF m
  <2>3. QED BY <2>2 DEF m
<1>3. nals # <<>>
  <2>1. \E i \in DOMAIN nals : IsSlice(nals[i])
    BY DEF HasPendingPicture
  <2>2. DOMAIN <<>> = {}
    OBVIOUS
  <2> HIDE DEF nals
  <2>3. QED BY <2>1, <2>2
<1> HIDE DEF nals, m, b, E, Nal
<1>4. m # b
  <2> SUFFICES ASSUME m = b PROVE FALSE
    OBVIOUS
  <2>1. Len(nals) = 0
    BY <1>1, <1>2
  <2>2. QED BY <1>2, <1>3, <2>1, EmptySeq
<1>5. k < E
  BY <1>1, <1>4
<1>6. next \in Nat /\ next <= Len(B) /\ next = b + Size(kinds[k + 1]) /\ Size(kinds[k + 1]) \in {2, 4}
  BY <1>5, InsideIs DEF E, b
<1>7. m = Len(B)
  <2>1. b < Len(B) /\ L - 6 * b - 4 \in Int /\ L - 6 * b - 4 > 0
    BY <1>1, <1>4
  <2>2. end = L - 6 * b - 4
    BY <2>1, ClippedIs
  <2> DEFINE q == Len(B) - 1
  <2>3. 6 * b + end = 6 * q + 2 /\ q \in Nat /\ q + 1 = Len(B)
    BY <1>1, <2>1, <2>2
  <2> HIDE DEF q, end
  <2>4. Found(B, 6 * q + 2) = q + 1
    <3>1. \A r \in 2..5 : Found(B, 6 * q + r) = q + 1
      BY <2>3, FoundAt
    <3>2. 2 \in 2..5
      OBVIOUS
    <3>3. QED BY <3>1, <3>2
  <2>5. m = Found(B, 6 * b + end)
    BY DEF m, Reach, b, end
  <2>6. QED BY <2>3, <2>4, <2>5
<1>8. next = Len(B)
  <2>1. m <= next
    BY <1>5 DEF Settled, m, E
  <2>2. QED BY <1>1, <1>6, <1>7, <2>1
<1>9. k + 1 = E
  <2> SUFFICES ASSUME k + 1 # E PROVE FALSE
    OBVIOUS
  <2>1. k + 1 \in 0..E /\ E \in 0..E /\ k + 1 < E
    BY <1>1, <1>5
  <2>2. at[k + 1] < at[E]
    BY <2>1 DEF Inside, Laid, E
  <2>3. QED BY <1>1, <1>6, <1>8, <2>2
<1>10. 6 * next <= L
  BY <1>1, <1>8
<1>11. /\ Complete(B, kinds, at, k, L)
       /\ Inside(B, kinds, at, k + 1, L)
  BY <1>5, <1>10, InsideNext DEF E
<1>12. Settled(B, kinds, at, k + 1, L)
  BY <1>1, <1>9 DEF Settled, E
<1> DEFINE c == Size(kinds[k + 1])
<1>13. Len(nals) = c
  <2>1. c \in {2, 4} /\ b \in Nat /\ Len(B) = b + c /\ Len(nals) = Len(B) - b
    BY <1>1, <1>2, <1>6, <1>7, <1>8
  <2> HIDE DEF c
  <2>2. QED BY ONLY <2>1
<1>14. Len(ReaderOf(B, b, L).buffer) = 6 * c
  <2>1. Len(Held(B, b, L)) = L - 6 * b
    <3>1. Blocks(B) /\ b \in Nat /\ L \in Nat /\ 6 * b <= L /\ L <= 6 * Len(B)
      BY <1>1
    <3> HIDE DEF b
    <3>2. QED BY ONLY <3>1, HeldAt
  <2>2. L - 6 * b = 6 * c
    <3>1. c \in {2, 4} /\ next = b + c
      BY <1>6
    <3>2. b \in Nat
      BY <1>1
    <3>3. L = 6 * Len(B)
      OBVIOUS
    <3> HIDE DEF c, next
    <3>4. c \in Nat /\ Len(B) = b + c
      BY ONLY <1>8, <3>1
    <3>5. L = 6 * (b + c)
      BY ONLY <3>3, <3>4
    <3>6. QED BY ONLY <3>2, <3>4, <3>5
  <2>3. QED BY <2>1, <2>2 DEF ReaderOf
<1>15. FlushPending(ReaderOf(B, at[k], L)) = TakeAccessUnit(ReaderOf(B, at[k], L), c, 6 * c)
  BY <1>13, <1>14 DEF FlushPending, nals, b
<1>16. TakeAccessUnit(ReaderOf(B, at[k], L), c, 6 * c)
       = [unit |-> UnitOf(kinds[k + 1], k + 1), reader |-> ReaderOf(B, at[k + 1], L)]
  BY <1>11, CutPicture
<1>17. QED BY <1>5, <1>11, <1>12, <1>15, <1>16 DEF E

\* A new encoder, which has written nothing, and a new reader.
LEMMA StreamStarts ==
    ASSUME encoder \in {"delimiting", "slicing"}
    PROVE  \E B, at : /\ Inside(B, <<>>, at, 0, 0) /\ Settled(B, <<>>, at, 0, 0)
                      /\ NewReader = ReaderOf(B, at[0], 0)
                      /\ SubSeq(Stream(B), 0 + 1, 6 * Len(B)) = <<>>
<1> DEFINE B == <<>>
           at == [j \in {0} |-> 0]
<1>1. Len(B) = 0 /\ B \in Seq([1..6 -> Nat]) /\ at[0] = 0
  OBVIOUS
<1>2. Blocks(B)
  BY <1>1 DEF Blocks
<1>3. /\ Len(<<>>) = 0 /\ <<>> \in Seq(Kind) /\ 0 \in 0..0 /\ \A j \in 0..0 : j = 0
      /\ \A j \in 1..0 : FALSE
  OBVIOUS
<1> HIDE DEF B, at
<1>4. Laid(B, <<>>, at)
  <2>1. \A j \in 0..0 : at[j] \in 0..Len(B)
    BY <1>1, <1>3
  <2>2. \A i, j \in 0..0 : i < j => at[i] < at[j]
    BY <1>3
  <2>3. QED BY <1>1, <1>2, <1>3, <2>1, <2>2 DEF Laid
<1>5. Inside(B, <<>>, at, 0, 0)
  <2>1. 6 * at[0] <= 0 /\ 0 <= 6 * Len(B)
    BY <1>1
  <2>2. QED BY <1>3, <1>4, <2>1 DEF Inside
<1>6. Settled(B, <<>>, at, 0, 0)
  BY <1>3 DEF Settled
<1>7. Stream(B) = <<>>
  <2>1. Stream(B) \in Seq(Nat) /\ Len(Stream(B)) = 6 * Len(B)
    BY <1>2, StreamAt
  <2>2. Len(Stream(B)) = 0
    BY <1>1, <2>1
  <2>3. QED BY <2>1, <2>2, EmptySeq
<1>8. NewReader = ReaderOf(B, at[0], 0)
  <2>1. Clipped(0 - 6 * 0 - 4) = 0
    <3>1. 0 - 6 * 0 - 4 \in Int /\ ~(0 - 6 * 0 - 4 > 0)
      OBVIOUS
    <3>2. QED BY <3>1, ClippedIs
  <2>2. Found(B, 6 * 0 + 0) = 0
    <3>1. 6 * 0 + 0 = 6 * 0
      OBVIOUS
    <3>2. Found(B, 6 * 0) = 0
      BY FoundAt
    <3>3. QED BY <3>1, <3>2
  <2>3. NalsTo(B, 0, 0) = <<>>
    <3>1. 0 - 0 = 0
      OBVIOUS
    <3>2. QED BY <3>1 DEF NalsTo
  <2>4. Held(B, 0, 0) = <<>>
    <3>1. Held(B, 0, 0) \in Seq(Nat) /\ Len(Held(B, 0, 0)) = 0 - 6 * 0
      <4>1. 6 * 0 <= 0 /\ 0 <= 6 * Len(B)
        BY <1>1
      <4>2. QED BY <1>2, <4>1, HeldAt
    <3>2. Len(Held(B, 0, 0)) = 0
      BY <3>1
    <3>3. QED BY <3>1, <3>2, EmptySeq
  <2>5. ReaderOf(B, 0, 0) = [buffer |-> <<>>, nals |-> <<>>, scanFrom |-> 0]
    BY <2>1, <2>2, <2>3, <2>4 DEF ReaderOf
  <2>6. QED BY <1>1, <2>5 DEF NewReader
<1>9. SubSeq(Stream(B), 0 + 1, 6 * Len(B)) = <<>>
  <2>1. 6 * Len(B) = 0 /\ 0 + 1 = 1
    BY <1>1
  <2>2. SubSeq(Stream(B), 1, 0) = <<>>
    BY SubSeqEmpty
  <2>3. QED BY <2>1, <2>2
<1>10. QED BY <1>5, <1>6, <1>8, <1>9

\* What the encoder writes next changes nothing of what was read.
Grown(B, kinds, at, k, L, kind, C, to) ==
    /\ Inside(C, Append(kinds, kind), to, k, L)
    /\ Settled(C, Append(kinds, kind), to, k, L)
    /\ ReaderOf(C, to[k], L) = ReaderOf(B, at[k], L)
    /\ SubSeq(Stream(C), L + 1, 6 * Len(C))
       = SubSeq(Stream(B), L + 1, 6 * Len(B)) \o Coded(kind, Len(kinds) + 1)

\* The encoder can always write on behind what the reader took.
LEMMA StreamGrows ==
    ASSUME NEW B, NEW kinds, NEW at, NEW k, NEW L, Inside(B, kinds, at, k, L),
           Settled(B, kinds, at, k, L), NEW kind \in Kind
    PROVE  \E C, to : Grown(B, kinds, at, k, L, kind, C, to)
<1> DEFINE E == Len(kinds)
           b == at[k]
           more == Append(kinds, kind)
<1>1. /\ b \in Nat /\ L \in Nat /\ 6 * b <= L /\ L <= 6 * Len(B) /\ Len(B) \in Nat /\ Blocks(B)
      /\ k \in Nat /\ E \in Nat /\ k <= E /\ at[E] = Len(B) /\ b <= Len(B)
      /\ Reach(B, at, k, L) \in b..Len(B)
      /\ k = E => Reach(B, at, k, L) = b
  <2> HIDE DEF b, E
  <2>1. QED BY InsideIs DEF b, E
<1>2. Laid(B, kinds, at) /\ kinds \in Seq(Kind) /\ encoder \in {"delimiting", "slicing"}
  BY DEF Inside
<1>3. PICK C, to : /\ Laid(C, more, to)
                   /\ Stream(C) = Stream(B) \o Coded(kind, E + 1)
                   /\ Len(C) = Len(B) + Size(kind)
                   /\ \A j \in 0..E : to[j] = at[j]
                   /\ \A i \in 1..Len(B) : C[i] = B[i]
  <2>1. PICK C, to : LaidOn(B, kinds, at, kind, C, to)
    BY <1>2, LaidMore
  <2>2. QED BY <2>1 DEF LaidOn
<1>4. Size(kind) \in {2, 4} /\ more \in Seq(Kind) /\ Len(more) = E + 1
  BY <1>1, <1>2, AppendProperties DEF Size
<1>5. to[k] = b
  BY <1>1, <1>3
<1> HIDE DEF b, E, more
<1>6. Inside(C, more, to, k, L)
  <2>1. k \in 0..Len(more)
    BY <1>1, <1>4
  <2>2. 6 * to[k] <= L /\ L <= 6 * Len(C)
    BY <1>1, <1>3, <1>4, <1>5
  <2>3. QED BY <1>1, <1>2, <1>3, <1>4, <2>1, <2>2 DEF Inside
<1> DEFINE end == Clipped(L - 6 * b - 4)
           m == Found(B, 6 * b + end)
<1>7. end \in Nat /\ 6 * b + end <= 6 * Len(B)
  <2>1. L - 6 * b - 4 \in Int
    BY <1>1
  <2>2. end \in Nat /\ end = IF L - 6 * b - 4 > 0 THEN L - 6 * b - 4 ELSE 0
    BY <2>1, ClippedIs
  <2> HIDE DEF end
  <2>3. QED BY <1>1, <2>2
<1> HIDE DEF end
<1>8. Found(C, 6 * b + end) = m
  <2> DEFINE i == 6 * b + end
             q == i \div 6
             x == i % 6
  <2>1. i \in Nat /\ i <= 6 * Len(B)
    BY <1>1, <1>7
  <2> HIDE DEF i
  <2>2. q \in Nat /\ x \in 0..5 /\ i = 6 * q + x
    BY <2>1
  <2> HIDE DEF q, x
  <2>3. x = 1 => C[q + 1] = B[q + 1]
    <3> SUFFICES ASSUME x = 1 PROVE C[q + 1] = B[q + 1]
      OBVIOUS
    <3>1. q + 1 \in 1..Len(B)
      BY <1>1, <2>1, <2>2
    <3>2. QED BY <1>3, <3>1
  <2>4. Found(C, i) = Found(B, i)
    <3>1. Found(C, i) = q + (IF x = 0 \/ (x = 1 /\ C[q + 1][3] = 0) THEN 0 ELSE 1)
      BY DEF Found, q, x
    <3>2. Found(B, i) = q + (IF x = 0 \/ (x = 1 /\ B[q + 1][3] = 0) THEN 0 ELSE 1)
      BY DEF Found, q, x
    <3>3. (x = 1 /\ C[q + 1][3] = 0) <=> (x = 1 /\ B[q + 1][3] = 0)
      BY <2>3
    <3>4. QED BY <3>1, <3>2, <3>3
  <2>5. QED BY <2>4 DEF i
<1>9. Reach(B, at, k, L) = m /\ Reach(C, to, k, L) = m
  BY <1>5, <1>8 DEF Reach, end, b
<1>10. m \in b..Len(B)
  BY <1>1, <1>9
<1> HIDE DEF m
<1>11. Settled(C, more, to, k, L)
  <2>1. CASE k < E
    <3>1. k + 1 \in 0..E
      BY <1>1, <2>1
    <3>2. to[k + 1] = at[k + 1]
      BY <1>3, <3>1
    <3>3. QED BY <1>9, <2>1, <3>2 DEF Settled, E
  <2>2. CASE k = E
    <3>1. k + 1 = Len(more) /\ m = b
      BY <1>1, <1>4, <1>9, <2>2
    <3>2. to[k + 1] = Len(C)
      BY <1>3, <3>1 DEF Laid
    <3>3. m <= to[k + 1]
      BY <1>1, <1>3, <1>4, <3>1, <3>2
    <3>4. QED BY <1>9, <3>3 DEF Settled
  <2>3. QED BY <1>1, <2>1, <2>2
<1>12. Stream(B) \in Seq(Nat) /\ Len(Stream(B)) = 6 * Len(B)
       /\ Coded(kind, E + 1) \in Seq(Nat)
  <2>1. Stream(B) \in Seq(Nat) /\ Len(Stream(B)) = 6 * Len(B)
    BY <1>1, StreamAt
  <2>2. Coded(kind, E + 1) \in Seq(Nat)
    BY <1>1, <1>2, CodedIsBlocks DEF Spelled
  <2>3. QED BY <2>1, <2>2
<1> DEFINE s == Stream(B)
           w == Coded(kind, E + 1)
           S == Stream(C)
<1>13. Stream(C) \in Seq(Nat) /\ Len(Stream(C)) = 6 * Len(C) /\ Len(C) \in Nat
  <2>1. Blocks(C)
    BY <1>3 DEF Laid
  <2>2. QED BY <2>1, StreamAt
<1>14. /\ S = s \o w /\ S \in Seq(Nat) /\ Len(S) = Len(s) + Len(w) /\ Len(s) \in Nat /\ Len(w) \in Nat
       /\ \A i \in 1..Len(s) : S[i] = s[i]
       /\ \A i \in 1..Len(w) : S[Len(s) + i] = w[i]
  <2>1. s \in Seq(Nat) /\ w \in Seq(Nat)
    BY <1>12
  <2>2. S = s \o w
    BY <1>3
  <2> HIDE DEF s, w, S
  <2>3. QED BY <2>1, <2>2, Joined
<1>15. s \in Seq(Nat) /\ w \in Seq(Nat) /\ Len(s) = 6 * Len(B) /\ Len(S) = 6 * Len(C)
  BY <1>12, <1>13
<1> HIDE DEF s, w, S
<1>16. ASSUME NEW a \in Nat, a <= L PROVE SubSeq(S, a + 1, L) = SubSeq(s, a + 1, L)
  <2> DEFINE x == SubSeq(S, a + 1, L)
             y == SubSeq(s, a + 1, L)
  <2>1. L <= Len(s) /\ L <= Len(S)
    BY <1>1, <1>14, <1>15
  <2>2. /\ x \in Seq(Nat) /\ Len(x) = L - a /\ \A i \in 1..L - a : x[i] = S[a + i]
        /\ y \in Seq(Nat) /\ Len(y) = L - a /\ \A i \in 1..L - a : y[i] = s[a + i]
    <3>1. S \in Seq(Nat) /\ s \in Seq(Nat) /\ L \in Nat
      BY <1>1, <1>14, <1>15
    <3>2. x \in Seq(Nat) /\ Len(x) = L - a /\ \A i \in 1..L - a : x[i] = S[a + i]
      BY <1>16, <2>1, <3>1, SubSeqIs
    <3>3. y \in Seq(Nat) /\ Len(y) = L - a /\ \A i \in 1..L - a : y[i] = s[a + i]
      BY <1>16, <2>1, <3>1, SubSeqIs
    <3>4. QED BY <3>2, <3>3
  <2> HIDE DEF x, y
  <2>3. ASSUME NEW i \in 1..L - a PROVE x[i] = y[i]
    <3>1. a + i \in 1..Len(s)
      BY <1>1, <1>14, <2>1
    <3>2. QED BY <1>14, <2>2, <3>1
  <2>4. x = y
    BY <2>2, <2>3, SeqEqual
  <2>5. QED BY <2>4 DEF x, y
<1>17. ReaderOf(C, b, L) = ReaderOf(B, b, L)
  <2>1. Held(C, b, L) = Held(B, b, L)
    <3> DEFINE a == 6 * b
    <3>1. a \in Nat /\ a <= L
      BY <1>1
    <3> HIDE DEF a
    <3>2. SubSeq(S, a + 1, L) = SubSeq(s, a + 1, L)
      BY <1>16, <3>1
    <3>3. QED BY <3>2 DEF Held, a, S, s
  <2>2. NalsTo(C, b, m) = NalsTo(B, b, m)
    <3>1. ASSUME NEW t \in 1..m - b PROVE NalOf(C, b, t) = NalOf(B, b, t)
      <4>1. b + t \in 1..Len(B)
        BY <1>1, <1>10
      <4>2. C[b + t] = B[b + t]
        BY <1>3, <4>1
      <4>3. QED BY <4>2 DEF NalOf
    <3>2. QED BY <3>1 DEF NalsTo
  <2>3. ReaderOf(C, b, L) = [buffer |-> Held(C, b, L), nals |-> NalsTo(C, b, m), scanFrom |-> end]
    BY <1>8 DEF ReaderOf, end
  <2>4. ReaderOf(B, b, L) = [buffer |-> Held(B, b, L), nals |-> NalsTo(B, b, m), scanFrom |-> end]
    BY DEF ReaderOf, end, m
  <2>5. QED BY <2>1, <2>2, <2>3, <2>4
<1>18. SubSeq(S, L + 1, Len(S)) = SubSeq(s, L + 1, Len(s)) \o w
  <2> DEFINE x == SubSeq(S, L + 1, Len(S))
             y == SubSeq(s, L + 1, Len(s))
             z == y \o w
  <2>1. L <= Len(s) /\ L <= Len(S) /\ Len(S) \in Nat
    BY <1>1, <1>14, <1>15
  <2>2. /\ x \in Seq(Nat) /\ Len(x) = Len(S) - L /\ \A i \in 1..Len(S) - L : x[i] = S[L + i]
        /\ y \in Seq(Nat) /\ Len(y) = Len(s) - L /\ \A i \in 1..Len(s) - L : y[i] = s[L + i]
    <3>1. /\ S \in Seq(Nat) /\ s \in Seq(Nat) /\ L \in Nat /\ Len(S) \in Nat /\ Len(s) \in Nat
          /\ Len(S) <= Len(S) /\ Len(s) <= Len(s)
      BY <1>1, <1>14, <1>15, <2>1
    <3>2. x \in Seq(Nat) /\ Len(x) = Len(S) - L /\ \A i \in 1..Len(S) - L : x[i] = S[L + i]
      BY <2>1, <3>1, SubSeqIs
    <3>3. y \in Seq(Nat) /\ Len(y) = Len(s) - L /\ \A i \in 1..Len(s) - L : y[i] = s[L + i]
      BY <2>1, <3>1, SubSeqIs
    <3>4. QED BY <3>2, <3>3
  <2> HIDE DEF x, y
  <2>3. /\ z \in Seq(Nat) /\ Len(z) = Len(y) + Len(w)
        /\ \A i \in 1..Len(y) : z[i] = y[i]
        /\ \A i \in 1..Len(w) : z[Len(y) + i] = w[i]
    BY <1>15, <2>2, Joined
  <2> HIDE DEF z
  <2>4. Len(x) = Len(z)
    <3>1. L \in Nat /\ Len(s) \in Nat /\ Len(w) \in Nat /\ Len(S) = Len(s) + Len(w)
      BY <1>1, <1>14
    <3>2. Len(x) = Len(S) - L /\ Len(y) = Len(s) - L /\ Len(z) = Len(y) + Len(w)
      BY <2>2, <2>3
    <3> HIDE DEF z
    <3>3. QED BY <3>1, <3>2
  <2>5. ASSUME NEW i \in 1..Len(x) PROVE x[i] = z[i]
    <3>0. i \in 1..Len(S) - L
      BY <2>2
    <3>1. CASE i <= Len(s) - L
      <4>1. L + i \in 1..Len(s) /\ i \in 1..Len(s) - L /\ i \in 1..Len(y)
        BY <1>1, <1>14, <2>1, <2>2, <3>0, <3>1
      <4>2. QED BY <1>14, <2>2, <2>3, <3>0, <4>1
    <3>2. CASE i > Len(s) - L
      <4> DEFINE j == i - (Len(s) - L)
      <4>1. j \in 1..Len(w) /\ L + i = Len(s) + j /\ i = Len(y) + j
        BY <1>1, <1>14, <2>1, <2>2, <3>0, <3>2
      <4> HIDE DEF j
      <4>2. x[i] = S[Len(s) + j] /\ z[i] = w[j]
        BY <2>2, <2>3, <3>0, <4>1
      <4>3. QED BY <1>14, <4>1, <4>2
    <3>3. i <= Len(s) - L \/ i > Len(s) - L
      <4>1. i \in Nat /\ Len(s) - L \in Nat
        BY <1>1, <1>14, <2>1, <3>0
      <4>2. QED BY <4>1
    <3>4. QED BY <3>1, <3>2, <3>3
  <2>6. x = z
    BY <2>2, <2>3, <2>4, <2>5, SeqEqual
  <2>7. QED BY <2>6 DEF x, y, z
<1>19. SubSeq(Stream(C), L + 1, 6 * Len(C)) = SubSeq(Stream(B), L + 1, 6 * Len(B)) \o Coded(kind, E + 1)
  BY <1>15, <1>18 DEF S, s, w
<1>20. Grown(B, kinds, at, k, L, kind, C, to)
  BY <1>5, <1>6, <1>11, <1>17, <1>19 DEF more, E, b, Grown
<1>21. QED BY <1>20

-----------------------------------------------------------------------------
(* What the client was sent *)

\* H264Shown for any sequence of frames.
ShownIn(s, run) == {i \in DOMAIN s : s[i].run = run /\ ~s[i].config}
Before(S, i) == {j \in S : j < i}

ConsecutiveIn(s, run, kinds, which) ==
    \A i \in ShownIn(s, run) :
        /\ s[i].data = Coded(kinds[which[i]], which[i])
        /\ IF Before(ShownIn(s, run), i) = {} THEN kinds[which[i]] = "key"
           ELSE which[i] = which[Max(Before(ShownIn(s, run), i))] + 1

\* The last picture shown is the p-th of the encoder.
ShownTo(s, run, kinds, p) ==
    \E which \in [ShownIn(s, run) -> DOMAIN kinds] :
        /\ ConsecutiveIn(s, run, kinds, which)
        /\ ShownIn(s, run) # {} => which[Max(ShownIn(s, run))] = p

\* Consecutive from a key frame on, wherever they end.
ShownRight(s, run, kinds) ==
    \E which \in [ShownIn(s, run) -> DOMAIN kinds] : ConsecutiveIn(s, run, kinds, which)

\* To know the last picture shown is to know that the pictures are consecutive.
LEMMA ShownToIsRight == \A s, run, kinds, p : ShownTo(s, run, kinds, p) => ShownRight(s, run, kinds)
  BY DEF ShownTo, ShownRight

\* An encoder of which nothing was sent is shown rightly.
LEMMA NothingShown ==
    ASSUME NEW s, NEW run, NEW kinds, NEW p, ShownIn(s, run) = {}
    PROVE  ShownTo(s, run, kinds, p)
<1> DEFINE which == [i \in {} |-> i]
<1>1. which \in [ShownIn(s, run) -> DOMAIN kinds]
  OBVIOUS
<1> HIDE DEF which
<1>2. ConsecutiveIn(s, run, kinds, which)
  BY DEF ConsecutiveIn
<1>3. QED BY <1>1, <1>2 DEF ShownTo

\* The greatest number of a set.
LEMMA GreatestIs ==
    ASSUME NEW S \in SUBSET Nat, NEW n \in S, \A i \in S : i <= n
    PROVE  Max(S) = n
<1> DEFINE Most(i) == i \in S /\ \A j \in S : i >= j
<1>1. Most(n)
  OBVIOUS
<1>2. \A i : Most(i) => i = n
  <2> SUFFICES ASSUME NEW i, Most(i) PROVE i = n
    OBVIOUS
  <2>1. i \in Nat /\ n \in Nat /\ i <= n /\ i >= n
    OBVIOUS
  <2>2. QED BY <2>1
<1>3. Max(S) = CHOOSE i \in S : \A j \in S : i >= j
  BY DEF Max
<1>4. QED BY <1>1, <1>2, <1>3

\* A bounded set of numbers has one.
LEMMA GreatestOf ==
    ASSUME NEW S \in SUBSET Nat, S # {}, NEW n \in Nat, \A i \in S : i <= n
    PROVE  Max(S) \in S
<1> DEFINE X == {n - j : j \in S}
<1>1. X \in SUBSET Nat
  OBVIOUS
<1>2. X # {}
  OBVIOUS
<1>3. PICK x \in X : \A y \in X : x <= y
  BY <1>1, <1>2, LeastOf
<1>4. PICK j \in S : x = n - j
  OBVIOUS
<1>5. \A y \in S : y <= j
  <2> SUFFICES ASSUME NEW y \in S PROVE y <= j
    OBVIOUS
  <2>1. n - y \in X
    OBVIOUS
  <2>2. n - j <= n - y
    BY <1>3, <1>4, <2>1
  <2>3. y \in Nat /\ j \in Nat
    OBVIOUS
  <2>4. QED BY <2>2, <2>3
<1>6. Max(S) = j
  BY <1>5, GreatestIs
<1>7. QED BY <1>6

\* One more frame behind the others.
LEMMA AppendedIs ==
    ASSUME NEW s \in Seq(Frame), NEW f \in Frame, NEW t, t = Append(s, f)
    PROVE  /\ t \in Seq(Frame) /\ Len(s) \in Nat /\ Len(t) = Len(s) + 1
           /\ DOMAIN s = 1..Len(s) /\ DOMAIN t = 1..Len(s) + 1
           /\ \A i \in 1..Len(s) : t[i] = s[i]
           /\ t[Len(s) + 1] = f
<1>1. Len(s) \in Nat /\ DOMAIN s = 1..Len(s)
  BY LenProperties
<1> HIDE DEF Frame
<1>2. /\ t \in Seq(Frame) /\ Len(t) = Len(s) + 1
      /\ (\A i \in 1..Len(s) : t[i] = s[i]) /\ t[Len(s) + 1] = f
  BY AppendProperties
<1>3. DOMAIN t = 1..Len(s) + 1
  BY <1>2, LenProperties
<1>4. QED BY <1>1, <1>2, <1>3

\* A frame that shows nothing of an encoder, and frames that show of it the same.
Elsewhere(f, run) == f.run # run \/ f.config
SameShown(s, t, run) ==
    /\ ShownIn(t, run) = ShownIn(s, run)
    /\ \A kinds, p : ShownTo(s, run, kinds, p) => ShownTo(t, run, kinds, p)
    /\ \A kinds : ShownRight(s, run, kinds) => ShownRight(t, run, kinds)

LEMMA ShownElsewhere ==
    ASSUME NEW s \in Seq(Frame), NEW f \in Frame, NEW t, t = Append(s, f), NEW run,
           Elsewhere(f, run)
    PROVE  SameShown(s, t, run)
<1>1. /\ Len(s) \in Nat /\ DOMAIN s = 1..Len(s) /\ DOMAIN t = 1..Len(s) + 1
      /\ (\A i \in 1..Len(s) : t[i] = s[i]) /\ t[Len(s) + 1] = f
  <2> HIDE DEF Frame
  <2>1. QED BY AppendedIs
<1>2. ShownIn(t, run) = ShownIn(s, run)
  <2>1. ASSUME NEW i PROVE i \in ShownIn(t, run) <=> i \in ShownIn(s, run)
    <3>1. i \in 1..Len(s) + 1 <=> (i \in 1..Len(s) \/ i = Len(s) + 1)
      BY <1>1
    <3>2. Len(s) + 1 \notin 1..Len(s)
      BY <1>1
    <3>3. QED BY <1>1, <3>1, <3>2 DEF ShownIn, Elsewhere
  <2>2. QED BY <2>1
<1>3. \A i \in ShownIn(s, run) : t[i] = s[i]
  BY <1>1 DEF ShownIn
<1>4. \A kinds, which : ConsecutiveIn(s, run, kinds, which) => ConsecutiveIn(t, run, kinds, which)
  BY <1>2, <1>3 DEF ConsecutiveIn
<1>5. QED BY <1>2, <1>4 DEF SameShown, ShownTo, ShownRight

\* A frame that shows the picture behind the last one.
LEMMA ShownNext ==
    ASSUME NEW s \in Seq(Frame), NEW f \in Frame, NEW t, t = Append(s, f), NEW kinds \in Seq(Kind),
           NEW p \in Nat, NEW q \in 1..Len(kinds), q = p + 1, NEW run,
           ShownTo(s, run, kinds, p), f.run = run, ~f.config, f.data = Coded(kinds[q], q),
           ShownIn(s, run) = {} => kinds[q] = "key"
    PROVE  ShownTo(t, run, kinds, q) /\ ShownIn(t, run) # {}
<1> DEFINE S == ShownIn(s, run)
           T == ShownIn(t, run)
           n == Len(s) + 1
<1>1. /\ Len(s) \in Nat /\ DOMAIN s = 1..Len(s) /\ DOMAIN t = 1..Len(s) + 1
      /\ (\A i \in 1..Len(s) : t[i] = s[i]) /\ t[n] = f
  <2> HIDE DEF Frame
  <2>1. QED BY AppendedIs
<1>2. T = S \cup {n} /\ S \in SUBSET (1..Len(s))
  <2>1. ASSUME NEW i PROVE i \in T <=> (i \in S \/ i = n)
    <3>1. i \in 1..Len(s) + 1 <=> (i \in 1..Len(s) \/ i = n)
      BY <1>1
    <3>2. n \notin 1..Len(s)
      BY <1>1
    <3>3. QED BY <1>1, <3>1, <3>2 DEF ShownIn
  <2>2. S \in SUBSET (1..Len(s))
    BY <1>1 DEF ShownIn
  <2> HIDE DEF S, T
  <2>3. QED BY <2>1, <2>2
<1>3. n \in Nat /\ n \notin S /\ \A i \in S : i \in Nat /\ i < n
  BY <1>1, <1>2
<1>4. PICK which \in [S -> DOMAIN kinds] :
        ConsecutiveIn(s, run, kinds, which) /\ (S # {} => which[Max(S)] = p)
  BY DEF ShownTo
<1> DEFINE next == [i \in T |-> IF i = n THEN q ELSE which[i]]
<1>5. next \in [T -> DOMAIN kinds] /\ next[n] = q /\ \A i \in S : next[i] = which[i]
  <2>1. DOMAIN kinds = 1..Len(kinds)
    BY LenProperties
  <2> HIDE DEF S, T, n
  <2>2. QED BY <1>2, <1>3, <2>1
<1>6. \A i \in S : t[i] = s[i] /\ Before(T, i) = Before(S, i) /\ Before(S, i) \subseteq S
  <2> SUFFICES ASSUME NEW i \in S
               PROVE  t[i] = s[i] /\ Before(T, i) = Before(S, i) /\ Before(S, i) \subseteq S
    OBVIOUS
  <2>1. t[i] = s[i]
    BY <1>1, <1>2
  <2> HIDE DEF S, T, n
  <2>2. ~(n < i)
    BY <1>3
  <2>3. QED BY <1>2, <2>1, <2>2 DEF Before
<1>7. Before(T, n) = S
  <2> HIDE DEF S, T, n
  <2>1. ~(n < n)
    BY <1>3
  <2>2. QED BY <1>2, <1>3, <2>1 DEF Before
<1>8. \A i \in S : Before(S, i) # {} => Max(Before(S, i)) \in S
  <2> SUFFICES ASSUME NEW i \in S, Before(S, i) # {} PROVE Max(Before(S, i)) \in S
    OBVIOUS
  <2> HIDE DEF S
  <2> DEFINE D == Before(S, i)
  <2>1. D \in SUBSET Nat /\ D # {} /\ \A j \in D : j <= Len(s)
    BY <1>1, <1>2 DEF Before
  <2> HIDE DEF D
  <2>2. Max(D) \in D
    BY <1>1, <2>1, GreatestOf
  <2>3. QED BY <2>2 DEF D, Before
<1>9. Max(S) \in S \/ S = {}
  <2> SUFFICES ASSUME S # {} PROVE Max(S) \in S
    OBVIOUS
  <2> HIDE DEF S
  <2>1. S \in SUBSET Nat /\ \A j \in S : j <= Len(s)
    BY <1>1, <1>2
  <2>2. QED BY <1>1, <2>1, GreatestOf
<1>10. Max(T) = n
  <2> HIDE DEF S, T, n
  <2>1. T \in SUBSET Nat /\ n \in T /\ \A i \in T : i <= n
    BY <1>2, <1>3
  <2>2. QED BY <2>1, GreatestIs
<1>11. ConsecutiveIn(t, run, kinds, next)
  <2> HIDE DEF S, next
  <2> SUFFICES ASSUME NEW i \in T
               PROVE  /\ t[i].data = Coded(kinds[next[i]], next[i])
                      /\ IF Before(T, i) = {} THEN kinds[next[i]] = "key"
                         ELSE next[i] = next[Max(Before(T, i))] + 1
    BY DEF ConsecutiveIn
  <2> HIDE DEF T
  <2>1. CASE i \in S
    <3>1. /\ s[i].data = Coded(kinds[which[i]], which[i])
          /\ IF Before(S, i) = {} THEN kinds[which[i]] = "key"
             ELSE which[i] = which[Max(Before(S, i))] + 1
      BY <1>4, <2>1 DEF ConsecutiveIn, S
    <3>2. Before(S, i) # {} => next[Max(Before(S, i))] = which[Max(Before(S, i))]
      BY <1>5, <1>8, <2>1
    <3>3. next[i] = which[i] /\ t[i] = s[i] /\ Before(T, i) = Before(S, i)
      BY <1>5, <1>6, <2>1
    <3>4. QED BY <3>1, <3>2, <3>3
  <2>2. CASE i = n
    <3>1. next[i] = q /\ t[i] = f /\ Before(T, i) = S
      BY <1>1, <1>5, <1>7, <2>2
    <3>2. S # {} => next[Max(S)] = p
      BY <1>4, <1>5, <1>9
    <3>3. S = {} => kinds[q] = "key"
      BY DEF S
    <3>4. QED BY <3>1, <3>2, <3>3
  <2>3. QED BY <1>2, <2>1, <2>2
<1> HIDE DEF S, next, n
<1>12. next[Max(T)] = q
  BY <1>5, <1>10
<1>13. T # {}
  BY <1>2
<1>14. QED BY <1>5, <1>11, <1>12, <1>13 DEF ShownTo

\* Another picture of the encoder.
LEMMA ShownOfMore ==
    ASSUME NEW s, NEW run, NEW kinds \in Seq(Kind), NEW kind \in Kind, NEW p, ShownTo(s, run, kinds, p)
    PROVE  ShownTo(s, run, Append(kinds, kind), p)
<1> DEFINE more == Append(kinds, kind)
           S == ShownIn(s, run)
<1>1. /\ DOMAIN kinds = 1..Len(kinds) /\ DOMAIN more = 1..Len(kinds) + 1 /\ Len(kinds) \in Nat
      /\ \A j \in 1..Len(kinds) : more[j] = kinds[j]
  <2>1. Len(kinds) \in Nat /\ DOMAIN kinds = 1..Len(kinds)
    BY LenProperties
  <2>2. /\ more \in Seq(Kind) /\ Len(more) = Len(kinds) + 1
        /\ \A j \in 1..Len(kinds) : more[j] = kinds[j]
    BY AppendProperties
  <2> HIDE DEF more
  <2>3. DOMAIN more = 1..Len(kinds) + 1
    BY <2>2, LenProperties
  <2>4. QED BY <2>1, <2>2, <2>3
<1> HIDE DEF more
<1>2. DOMAIN kinds \subseteq DOMAIN more /\ \A j \in DOMAIN kinds : more[j] = kinds[j]
  BY <1>1
<1>3. PICK which \in [S -> DOMAIN kinds] :
        ConsecutiveIn(s, run, kinds, which) /\ (S # {} => which[Max(S)] = p)
  BY DEF ShownTo
<1>4. which \in [S -> DOMAIN more]
  BY <1>2
<1>5. \A i \in S : more[which[i]] = kinds[which[i]]
  BY <1>2
<1>6. ConsecutiveIn(s, run, more, which)
  BY <1>3, <1>5 DEF ConsecutiveIn
<1>7. ShownTo(s, run, more, p)
  BY <1>3, <1>4, <1>6 DEF ShownTo
<1>8. QED BY <1>7 DEF more

\* A part of a part of a sequence.
LEMMA PartOfPart ==
    ASSUME NEW s \in Seq(Nat), NEW a \in Nat, NEW b \in Nat, NEW m \in Nat, NEW n \in Nat,
           a <= b, b <= Len(s), m <= n, n <= b - a
    PROVE  SubSeq(SubSeq(s, a + 1, b), m + 1, n) = SubSeq(s, a + m + 1, a + n)
<1> DEFINE x == SubSeq(s, a + 1, b)
           y == SubSeq(x, m + 1, n)
           z == SubSeq(s, (a + m) + 1, a + n)
<1>1. Len(s) \in Nat
  BY LenProperties
<1>2. x \in Seq(Nat) /\ Len(x) = b - a /\ \A i \in 1..b - a : x[i] = s[a + i]
  BY SubSeqIs
<1> HIDE DEF x
<1>3. y \in Seq(Nat) /\ Len(y) = n - m /\ \A i \in 1..n - m : y[i] = x[m + i]
  BY <1>2, SubSeqIs
<1>4. z \in Seq(Nat) /\ Len(z) = n - m /\ \A i \in 1..n - m : z[i] = s[(a + m) + i]
  <2> DEFINE l == a + m
             h == a + n
  <2>1. l \in Nat /\ h \in Nat /\ l <= h /\ h <= Len(s) /\ h - l = n - m
    BY <1>1
  <2> HIDE DEF l, h
  <2>2. /\ SubSeq(s, l + 1, h) \in Seq(Nat) /\ Len(SubSeq(s, l + 1, h)) = h - l
        /\ \A i \in 1..h - l : SubSeq(s, l + 1, h)[i] = s[l + i]
    BY <2>1, SubSeqIs
  <2>3. QED BY <2>1, <2>2 DEF l, h
<1> HIDE DEF y, z
<1>5. ASSUME NEW i \in 1..n - m PROVE y[i] = z[i]
  <2>1. m + i \in 1..b - a /\ a + (m + i) = (a + m) + i
    OBVIOUS
  <2>2. QED BY <1>2, <1>3, <1>4, <2>1
<1>6. y = z
  BY <1>3, <1>4, <1>5, SeqEqual
<1>7. QED BY <1>6 DEF x, y, z

-----------------------------------------------------------------------------
(* The place of the H.264 pump *)

\* Where the pump stands in the stream of its encoder: the reader at picture k + 1, L
\* bytes read, p pictures forwarded or skipped.
Stands(B, at, k, L, p, kinds, run, s, c, r, u, w) ==
    /\ Inside(B, kinds, at, k, L) /\ Settled(B, kinds, at, k, L)
    /\ r = ReaderOf(B, at[k], L)
    /\ c = SubSeq(Stream(B), L + 1, 6 * Len(B))
    /\ p \in 0..k /\ u = UnitsOf(kinds, p, k)
    /\ ShownTo(s, run, kinds, p)
    /\ w <=> ShownIn(s, run) = {}

\* The types of what the pump has while it stands there.
LEMMA StandsIs ==
    ASSUME NEW B, NEW at, NEW k, NEW L, NEW p, NEW kinds, NEW run, NEW s, NEW c, NEW r, NEW u, NEW w,
           Stands(B, at, k, L, p, kinds, run, s, c, r, u, w)
    PROVE  /\ kinds \in Seq(Kind) /\ encoder \in {"delimiting", "slicing"}
           /\ Len(kinds) \in Nat /\ k \in Nat /\ p \in Nat /\ p <= k /\ k <= Len(kinds)
           /\ L \in Nat /\ Len(B) \in Nat /\ L <= 6 * Len(B) /\ Blocks(B)
           /\ Stream(B) \in Seq(Nat) /\ Len(Stream(B)) = 6 * Len(B)
           /\ c \in Seq(Nat) /\ Len(c) = 6 * Len(B) - L
           /\ u \in Seq(Unit) /\ Len(u) = k - p
           /\ \A i \in 1..k - p : u[i] = UnitOf(kinds[p + i], p + i)
<1>1. Inside(B, kinds, at, k, L)
  BY DEF Stands
<1>2. /\ Blocks(B) /\ Len(B) \in Nat /\ Len(kinds) \in Nat /\ k \in Nat /\ k <= Len(kinds)
      /\ L \in Nat /\ L <= 6 * Len(B)
  BY <1>1, InsideIs
<1>3. kinds \in Seq(Kind) /\ encoder \in {"delimiting", "slicing"}
  BY <1>1 DEF Inside
<1>4. p \in Nat /\ p <= k
  BY <1>2 DEF Stands
<1>5. Stream(B) \in Seq(Nat) /\ Len(Stream(B)) = 6 * Len(B)
  BY <1>2, StreamAt
<1>6. c \in Seq(Nat) /\ Len(c) = 6 * Len(B) - L
  <2> DEFINE S == Stream(B)
             n == 6 * Len(B)
  <2>1. S \in Seq(Nat) /\ Len(S) = n /\ n \in Nat /\ L <= n /\ n <= Len(S)
    BY <1>2, <1>5
  <2>2. c = SubSeq(S, L + 1, n)
    BY DEF Stands
  <2> HIDE DEF S, n
  <2>3. c \in Seq(Nat) /\ Len(c) = n - L
    BY <1>2, <2>1, <2>2, SubSeqIs
  <2>4. QED BY <2>3 DEF n
<1>7. u = UnitsOf(kinds, p, k)
  BY DEF Stands
<1>8. /\ UnitsOf(kinds, p, k) \in Seq(Unit) /\ Len(UnitsOf(kinds, p, k)) = k - p
      /\ \A i \in 1..k - p : UnitsOf(kinds, p, k)[i] = UnitOf(kinds[p + i], p + i)
  BY <1>2, <1>3, <1>4, UnitsAre
<1>9. QED BY <1>2, <1>3, <1>4, <1>5, <1>6, <1>7, <1>8

\* The encoder writes another picture: the pump stays where it is.
LEMMA StandsEncode ==
    ASSUME NEW B, NEW at, NEW k, NEW L, NEW p, NEW kinds, NEW run, NEW s, NEW c, NEW r, NEW u, NEW w,
           Stands(B, at, k, L, p, kinds, run, s, c, r, u, w), NEW kind \in Kind
    PROVE  \E C, to : Stands(C, to, k, L, p, Append(kinds, kind), run, s,
                             c \o Coded(kind, Len(kinds) + 1), r, u, w)
<1> DEFINE more == Append(kinds, kind)
           d == c \o Coded(kind, Len(kinds) + 1)
<1>1. /\ kinds \in Seq(Kind) /\ Len(kinds) \in Nat /\ k \in Nat /\ p \in Nat /\ p <= k /\ k <= Len(kinds)
  BY StandsIs
<1>2. Inside(B, kinds, at, k, L) /\ Settled(B, kinds, at, k, L) /\ ShownTo(s, run, kinds, p)
  BY DEF Stands
<1>3. PICK C, to : Grown(B, kinds, at, k, L, kind, C, to)
  BY <1>2, StreamGrows
<1>4. UnitsOf(more, p, k) = UnitsOf(kinds, p, k)
  <2>1. \A i \in 1..Len(kinds) : more[i] = kinds[i]
    BY <1>1, AppendProperties
  <2> HIDE DEF more
  <2>2. \A i \in 1..k - p : more[p + i] = kinds[p + i]
    <3> SUFFICES ASSUME NEW i \in 1..k - p PROVE more[p + i] = kinds[p + i]
      OBVIOUS
    <3>1. p + i \in 1..Len(kinds)
      BY <1>1
    <3>2. QED BY <2>1, <3>1
  <2>3. QED BY <2>2 DEF UnitsOf
<1>5. ShownTo(s, run, more, p)
  BY <1>1, <1>2, ShownOfMore
<1>6. /\ r = ReaderOf(C, to[k], L) /\ d = SubSeq(Stream(C), L + 1, 6 * Len(C))
      /\ p \in 0..k /\ u = UnitsOf(more, p, k) /\ (w <=> ShownIn(s, run) = {})
  BY <1>3, <1>4 DEF Stands, Grown
<1> HIDE DEF more, d
<1>7. Stands(C, to, k, L, p, more, run, s, d, r, u, w)
  BY <1>3, <1>5, <1>6 DEF Stands, Grown, more
<1>8. QED BY <1>7 DEF more, d

\* The pump reads: it stands further on, at the picture it then has not in full.
LEMMA StandsRead ==
    ASSUME NEW B, NEW at, NEW k, NEW L, NEW p, NEW kinds, NEW run, NEW s, NEW c, NEW r, NEW u, NEW w,
           Stands(B, at, k, L, p, kinds, run, s, c, r, u, w), u = <<>>, NEW n \in 1..Len(c)
    PROVE  LET released == Push(r, SubSeq(c, 1, n))
           IN  \E to, M : Stands(B, at, to, M, p, kinds, run, s, SubSeq(c, n + 1, Len(c)),
                                 released.reader, released.units, w)
<1>1. /\ kinds \in Seq(Kind) /\ Len(kinds) \in Nat /\ k \in Nat /\ p \in Nat /\ p <= k /\ k <= Len(kinds)
      /\ L \in Nat /\ Len(B) \in Nat /\ L <= 6 * Len(B)
      /\ Stream(B) \in Seq(Nat) /\ Len(Stream(B)) = 6 * Len(B)
      /\ Len(c) = 6 * Len(B) - L /\ Len(u) = k - p
  BY StandsIs
<1>2. p = k
  <2>1. Len(u) = 0
    OBVIOUS
  <2>2. QED BY <1>1, <2>1
<1> DEFINE M == L + n
           S == Stream(B)
           N == 6 * Len(B)
<1>3. /\ M \in Nat /\ L <= M /\ M <= N /\ n \in Nat /\ N \in Nat /\ n <= N - L /\ Len(c) = N - L
      /\ L <= N /\ N <= Len(S) /\ S \in Seq(Nat) /\ L + (N - L) = N
  BY <1>1
<1>4. c = SubSeq(S, L + 1, N) /\ r = ReaderOf(B, at[k], L) /\ Inside(B, kinds, at, k, L)
      /\ ShownTo(s, run, kinds, p) /\ (w <=> ShownIn(s, run) = {})
  BY DEF Stands
<1> HIDE DEF S, N
<1>5. SubSeq(c, 1, n) = SubSeq(S, L + 1, M)
  <2>1. SubSeq(SubSeq(S, L + 1, N), 0 + 1, n) = SubSeq(S, L + 0 + 1, L + n)
    BY <1>1, <1>3, PartOfPart
  <2>2. 0 + 1 = 1 /\ L + 0 + 1 = L + 1
    BY <1>1
  <2>3. QED BY <1>4, <2>1, <2>2
<1>6. SubSeq(c, n + 1, Len(c)) = SubSeq(S, M + 1, N)
  <2>1. SubSeq(SubSeq(S, L + 1, N), n + 1, N - L) = SubSeq(S, L + n + 1, L + (N - L))
    <3>1. N - L \in Nat /\ N - L <= N - L
      BY <1>1, <1>3
    <3>2. QED BY <1>1, <1>3, <3>1, PartOfPart
  <2>2. QED BY <1>3, <1>4, <2>1
<1> HIDE DEF M
<1> DEFINE chunk == SubSeq(c, 1, n)
           released == Push(r, chunk)
<1>7. PICK to : Pushed(B, kinds, at, k, L, M, chunk, to)
  <2>1. chunk = SubSeq(Stream(B), L + 1, M) /\ M <= 6 * Len(B)
    BY <1>3, <1>5 DEF S, N
  <2> HIDE DEF chunk
  <2>2. QED BY <1>3, <1>4, <2>1, PushIs
<1> HIDE DEF chunk
<1>8. released.reader = ReaderOf(B, at[to], M) /\ released.units = UnitsOf(kinds, p, to)
  <2>1. released = [reader |-> ReaderOf(B, at[to], M), units |-> UnitsOf(kinds, p, to)]
    BY <1>2, <1>4, <1>7 DEF Pushed
  <2> HIDE DEF released
  <2>2. QED BY <2>1
<1> HIDE DEF released
<1>9. p \in 0..to
  BY <1>1, <1>2, <1>7 DEF Pushed
<1>10. Stands(B, at, to, M, p, kinds, run, s, SubSeq(c, n + 1, Len(c)), released.reader, released.units, w)
  BY <1>4, <1>6, <1>7, <1>8, <1>9 DEF Stands, Pushed, S, N
<1>11. QED BY <1>10 DEF released, chunk

\* The pump flushes a silent encoder: it stands behind the last picture.
LEMMA StandsFlush ==
    ASSUME NEW B, NEW at, NEW k, NEW L, NEW p, NEW kinds, NEW run, NEW s, NEW c, NEW r, NEW u, NEW w,
           Stands(B, at, k, L, p, kinds, run, s, c, r, u, w), u = <<>>, c = <<>>, HasPendingPicture(r)
    PROVE  LET cut == FlushPending(r)
           IN  Stands(B, at, k + 1, L, p, kinds, run, s, c, cut.reader, <<cut.unit>>, w)
<1>1. /\ kinds \in Seq(Kind) /\ Len(kinds) \in Nat /\ k \in Nat /\ p \in Nat /\ p <= k /\ k <= Len(kinds)
      /\ L \in Nat /\ Len(B) \in Nat /\ L <= 6 * Len(B)
      /\ Len(c) = 6 * Len(B) - L /\ Len(u) = k - p
  BY StandsIs
<1>2. p = k /\ L = 6 * Len(B)
  <2>1. Len(u) = 0 /\ Len(c) = 0
    OBVIOUS
  <2>2. QED BY <1>1, <2>1
<1>3. r = ReaderOf(B, at[k], L) /\ Inside(B, kinds, at, k, L) /\ Settled(B, kinds, at, k, L)
      /\ ShownTo(s, run, kinds, p) /\ (w <=> ShownIn(s, run) = {})
      /\ c = SubSeq(Stream(B), L + 1, 6 * Len(B))
  BY DEF Stands
<1> DEFINE cut == FlushPending(r)
<1>4. /\ k < Len(kinds)
      /\ Inside(B, kinds, at, k + 1, L) /\ Settled(B, kinds, at, k + 1, L)
      /\ cut = [unit |-> UnitOf(kinds[k + 1], k + 1), reader |-> ReaderOf(B, at[k + 1], L)]
  <2>1. HasPendingPicture(ReaderOf(B, at[k], L))
    BY <1>3
  <2>2. QED BY <1>2, <1>3, <2>1, FlushIs
<1> HIDE DEF cut
<1>5. cut.unit = UnitOf(kinds[k + 1], k + 1) /\ cut.reader = ReaderOf(B, at[k + 1], L)
  BY <1>4
<1>6. <<cut.unit>> = UnitsOf(kinds, p, k + 1)
  <2>1. Append(UnitsOf(kinds, p, k), UnitOf(kinds[k + 1], k + 1)) = UnitsOf(kinds, p, k + 1)
    <3> DEFINE l == k + 1
    <3>1. l \in Nat /\ l <= Len(kinds) /\ l = k + 1 /\ encoder \in {"delimiting", "slicing"}
      BY <1>1, <1>3, <1>4 DEF Inside
    <3> HIDE DEF l
    <3>2. Append(UnitsOf(kinds, p, k), UnitOf(kinds[l], l)) = UnitsOf(kinds, p, l)
      BY <1>1, <3>1, UnitsMore
    <3>3. QED BY <3>2 DEF l
  <2>2. UnitsOf(kinds, p, k) = <<>>
    BY DEF Stands
  <2>3. Append(<<>>, cut.unit) = <<cut.unit>>
    OBVIOUS
  <2>4. QED BY <1>5, <2>1, <2>2, <2>3
<1>7. p \in 0..k + 1
  BY <1>1, <1>2
<1>8. Stands(B, at, k + 1, L, p, kinds, run, s, c, cut.reader, <<cut.unit>>, w)
  BY <1>3, <1>4, <1>5, <1>6, <1>7 DEF Stands
<1>9. QED BY <1>8 DEF cut

\* The loop over the released pictures takes the first one.
LEMMA UnitsLess ==
    ASSUME NEW kinds \in Seq(Kind), NEW p \in Nat, NEW k \in Nat, p < k, k <= Len(kinds),
           encoder \in {"delimiting", "slicing"}, NEW q, q = p + 1
    PROVE  /\ Head(UnitsOf(kinds, p, k)) = UnitOf(kinds[q], q)
           /\ Tail(UnitsOf(kinds, p, k)) = UnitsOf(kinds, q, k)
<1> DEFINE s == UnitsOf(kinds, p, k)
           t == UnitsOf(kinds, q, k)
<1>1. Len(kinds) \in Nat /\ q \in Nat /\ q <= k /\ p <= k
  BY LenProperties
<1>2. /\ s \in Seq(Unit) /\ Len(s) = k - p /\ \A i \in 1..k - p : s[i] = UnitOf(kinds[p + i], p + i)
      /\ t \in Seq(Unit) /\ Len(t) = k - q /\ \A i \in 1..k - q : t[i] = UnitOf(kinds[q + i], q + i)
  BY <1>1, UnitsAre
<1> HIDE DEF s, t
<1>3. s # <<>>
  BY <1>1, <1>2
<1>4. Head(s) = s[1] /\ 1 \in 1..k - p
  BY <1>1, <1>2, <1>3
<1>5. Head(s) = UnitOf(kinds[q], q)
  BY <1>2, <1>4
<1>6. /\ Tail(s) \in Seq(Unit) /\ Len(Tail(s)) = k - q
      /\ \A i \in 1..k - q : Tail(s)[i] = s[i + 1]
  <2> HIDE DEF Unit
  <2>1. /\ Tail(s) \in Seq(Unit) /\ Len(Tail(s)) = Len(s) - 1
        /\ \A i \in 1..Len(Tail(s)) : Tail(s)[i] = s[i + 1]
    BY <1>2, <1>3, HeadTailProperties
  <2>2. Len(s) - 1 = k - q
    BY <1>1, <1>2
  <2>3. QED BY <2>1, <2>2
<1>7. ASSUME NEW i \in 1..k - q PROVE Tail(s)[i] = t[i]
  <2>1. i + 1 \in 1..k - p /\ p + (i + 1) = q + i
    BY <1>1
  <2>2. QED BY <1>2, <1>6, <2>1
<1>8. Tail(s) = t
  <2> HIDE DEF Unit
  <2>1. QED BY <1>1, <1>2, <1>6, <1>7, SeqEqual
<1>9. QED BY <1>5, <1>8 DEF s, t

\* The next unit is the picture behind the last one taken.
LEMMA StandsTakes ==
    ASSUME NEW B, NEW at, NEW k, NEW L, NEW p, NEW kinds, NEW run, NEW s, NEW c, NEW r, NEW u, NEW w,
           Stands(B, at, k, L, p, kinds, run, s, c, r, u, w), u # <<>>, NEW q, q = p + 1
    PROVE  /\ q \in 0..k /\ q \in 1..Len(kinds) /\ Head(u) = UnitOf(kinds[q], q) /\ kinds[q] \in Kind
           /\ Tail(u) = UnitsOf(kinds, q, k)
<1>1. /\ kinds \in Seq(Kind) /\ encoder \in {"delimiting", "slicing"}
      /\ Len(kinds) \in Nat /\ k \in Nat /\ p \in Nat /\ p <= k /\ k <= Len(kinds)
      /\ u \in Seq(Unit) /\ Len(u) = k - p
  BY StandsIs
<1>2. p < k
  <2>1. Len(u) # 0
    <3> HIDE DEF Unit
    <3>1. QED BY <1>1, EmptySeq
  <2>2. QED BY <1>1, <2>1
<1>3. u = UnitsOf(kinds, p, k)
  BY DEF Stands
<1>4. Head(u) = UnitOf(kinds[q], q) /\ Tail(u) = UnitsOf(kinds, q, k)
  BY <1>1, <1>2, <1>3, UnitsLess
<1>5. q \in 0..k /\ q \in 1..Len(kinds)
  BY <1>1, <1>2
<1>6. QED BY <1>1, <1>4, <1>5

\* A picture ahead of the first key frame is passed over.
LEMMA StandsSkip ==
    ASSUME NEW B, NEW at, NEW k, NEW L, NEW p, NEW kinds, NEW run, NEW s, NEW c, NEW r, NEW u, NEW w,
           Stands(B, at, k, L, p, kinds, run, s, c, r, u, w), u # <<>>
    PROVE  w => Stands(B, at, k, L, p + 1, kinds, run, s, c, r, Tail(u), w)
<1> DEFINE q == p + 1
<1>1. q \in 0..k /\ Tail(u) = UnitsOf(kinds, q, k)
  <2>1. q = p + 1
    OBVIOUS
  <2> HIDE DEF q
  <2>2. QED BY <2>1, StandsTakes
<1> HIDE DEF q
<1>2. w => ShownTo(s, run, kinds, q)
  BY NothingShown DEF Stands
<1>3. w => Stands(B, at, k, L, q, kinds, run, s, c, r, Tail(u), w)
  BY <1>1, <1>2 DEF Stands
<1>4. QED BY <1>3 DEF q

\* A picture is forwarded.
LEMMA StandsSend ==
    ASSUME NEW B, NEW at, NEW k, NEW L, NEW p, NEW kinds, NEW run, NEW s, NEW c, NEW r, NEW u, NEW w,
           Stands(B, at, k, L, p, kinds, run, s, c, r, u, w), u # <<>>, s \in Seq(Frame),
           w => Head(u).keyFrame, NEW f \in Frame, f.run = run, ~f.config, f.data = Head(u).data
    PROVE  Stands(B, at, k, L, p + 1, kinds, run, Append(s, f), c, r, Tail(u), FALSE)
<1> DEFINE q == p + 1
           t == Append(s, f)
<1>1. /\ q \in 0..k /\ q \in 1..Len(kinds) /\ Head(u) = UnitOf(kinds[q], q)
      /\ Tail(u) = UnitsOf(kinds, q, k)
  <2> HIDE DEF q
  <2>1. QED BY StandsTakes DEF q
<1>2. kinds \in Seq(Kind) /\ p \in Nat
  BY StandsIs
<1>3. Head(u).data = Coded(kinds[q], q) /\ Head(u).keyFrame = (kinds[q] = "key")
  BY <1>1 DEF UnitOf
<1>4. ShownTo(s, run, kinds, p) /\ (w <=> ShownIn(s, run) = {})
  BY DEF Stands
<1>5. ShownIn(s, run) = {} => kinds[q] = "key"
  BY <1>3, <1>4
<1>6. f.data = Coded(kinds[q], q)
  BY <1>3
<1>7. q = p + 1 /\ t = Append(s, f)
  OBVIOUS
<1> HIDE DEF q, t, Frame
<1>8. ShownTo(t, run, kinds, q) /\ ShownIn(t, run) # {}
  <2>1. /\ t = Append(s, f) /\ kinds \in Seq(Kind) /\ p \in Nat /\ q \in 1..Len(kinds) /\ q = p + 1
        /\ ShownTo(s, run, kinds, p) /\ f.run = run /\ ~f.config /\ f.data = Coded(kinds[q], q)
        /\ (ShownIn(s, run) = {} => kinds[q] = "key")
    BY <1>1, <1>2, <1>4, <1>5, <1>6, <1>7
  <2>2. QED BY <2>1, ShownNext
<1>9. Stands(B, at, k, L, q, kinds, run, t, c, r, Tail(u), FALSE)
  BY <1>1, <1>8 DEF Stands
<1>10. QED BY <1>9 DEF q, t

\* A frame that is not a picture.
LEMMA StandsConfig ==
    ASSUME NEW B, NEW at, NEW k, NEW L, NEW p, NEW kinds, NEW run, NEW s, NEW c, NEW r, NEW u, NEW w,
           Stands(B, at, k, L, p, kinds, run, s, c, r, u, w), s \in Seq(Frame),
           NEW f \in Frame, f.config
    PROVE  Stands(B, at, k, L, p, kinds, run, Append(s, f), c, r, u, w)
<1> DEFINE t == Append(s, f)
<1>1. t = Append(s, f)
  OBVIOUS
<1> HIDE DEF t, Frame
<1>2. /\ ShownIn(t, run) = ShownIn(s, run)
      /\ ShownTo(s, run, kinds, p) => ShownTo(t, run, kinds, p)
  <2>1. s \in Seq(Frame) /\ f \in Frame /\ t = Append(s, f) /\ Elsewhere(f, run)
    BY <1>1 DEF Elsewhere
  <2>2. SameShown(s, t, run)
    BY ONLY <2>1, ShownElsewhere
  <2>3. QED BY ONLY <2>2 DEF SameShown
<1>3. Stands(B, at, k, L, p, kinds, run, t, c, r, u, w)
  BY <1>2 DEF Stands
<1>4. QED BY <1>3 DEF t

\* A new encoder and a new reader stand at the start of a new stream.
LEMMA StandsAnew ==
    ASSUME encoder \in {"delimiting", "slicing"}, NEW run, NEW s, ShownIn(s, run) = {}
    PROVE  \E B, at : Stands(B, at, 0, 0, 0, <<>>, run, s, <<>>, NewReader, <<>>, TRUE)
<1>1. PICK B, at : /\ Inside(B, <<>>, at, 0, 0) /\ Settled(B, <<>>, at, 0, 0)
                   /\ NewReader = ReaderOf(B, at[0], 0)
                   /\ SubSeq(Stream(B), 0 + 1, 6 * Len(B)) = <<>>
  BY StreamStarts
<1>2. ShownTo(s, run, <<>>, 0)
  BY NothingShown
<1>3. UnitsOf(<<>>, 0, 0) = <<>>
  <2>1. <<>> \in Seq(Kind) /\ Len(<<>>) = 0
    OBVIOUS
  <2>2. UnitsOf(<<>>, 0, 0) \in Seq(Unit) /\ Len(UnitsOf(<<>>, 0, 0)) = 0
    <3> DEFINE e == <<>>
               o == 0
    <3>1. e \in Seq(Kind) /\ o \in Nat /\ o <= o /\ o <= Len(e) /\ o - o = 0
      BY <2>1
    <3> HIDE DEF e, o, Kind, Unit
    <3>2. UnitsOf(e, o, o) \in Seq(Unit) /\ Len(UnitsOf(e, o, o)) = o - o
      BY <3>1, UnitsAre
    <3>3. QED BY <3>1, <3>2 DEF e, o
  <2> DEFINE v == UnitsOf(<<>>, 0, 0)
  <2> HIDE DEF Unit, v
  <2>3. QED BY <2>2, EmptySeq DEF v
<1>4. Stands(B, at, 0, 0, 0, <<>>, run, s, <<>>, NewReader, <<>>, TRUE)
  <2>1. /\ 0 \in 0..0 /\ <<>> = SubSeq(Stream(B), 0 + 1, 6 * Len(B)) /\ <<>> = UnitsOf(<<>>, 0, 0)
        /\ (TRUE <=> (ShownIn(s, run) = {}))
    <3>1. 0 \in 0..0
      OBVIOUS
    <3>2. <<>> = SubSeq(Stream(B), 0 + 1, 6 * Len(B)) /\ <<>> = UnitsOf(<<>>, 0, 0)
      BY ONLY <1>1, <1>3
    <3>3. QED BY <3>1, <3>2
  <2>2. Inside(B, <<>>, at, 0, 0) /\ Settled(B, <<>>, at, 0, 0) /\ NewReader = ReaderOf(B, at[0], 0)
    BY <1>1
  <2>3. QED BY ONLY <2>1, <2>2, <1>2 DEF Stands
<1>5. QED BY <1>4

\* What holds of the H.264 pump: it is at some place in the stream of the current
\* encoder, and what it forwarded of the earlier ones is right.
H264Right(e, s, c, r, u, w) ==
    /\ e \in Seq(Seq(Kind)) /\ Len(e) > 0
    /\ \E B, at, k, L, p : Stands(B, at, k, L, p, e[Len(e)], Len(e), s, c, r, u, w)
    /\ \A run \in 1..Len(e) - 1 : ShownRight(s, run, e[run])

\* So of every encoder the pictures shown are right.
LEMMA RightShows ==
    ASSUME NEW e, NEW s, NEW c, NEW r, NEW u, NEW w, H264Right(e, s, c, r, u, w)
    PROVE  \A run \in 1..Len(e) : ShownRight(s, run, e[run])
<1> SUFFICES ASSUME NEW run \in 1..Len(e) PROVE ShownRight(s, run, e[run])
  OBVIOUS
<1>1. e \in Seq(Seq(Kind)) /\ Len(e) \in Nat
  BY LenProperties DEF H264Right
<1>2. CASE run = Len(e)
  <2>1. PICK B, at, k, L, p : Stands(B, at, k, L, p, e[Len(e)], Len(e), s, c, r, u, w)
    BY DEF H264Right
  <2>2. ShownTo(s, run, e[run], p)
    BY <1>2, <2>1 DEF Stands
  <2>3. QED BY <2>2, ShownToIsRight
<1>3. CASE run # Len(e)
  <2>1. run \in 1..Len(e) - 1
    BY <1>1, <1>3
  <2>2. QED BY <2>1 DEF H264Right
<1>4. QED BY <1>2, <1>3

\* The types of what the H.264 pump has.
LEMMA RightTypes ==
    ASSUME NEW e, NEW s, NEW c, NEW r, NEW u, NEW w, H264Right(e, s, c, r, u, w)
    PROVE  /\ e \in Seq(Seq(Kind)) /\ c \in Seq(Nat) /\ u \in Seq(Unit)
           /\ r \in [buffer : Seq(Nat), scanFrom : Nat, nals : Seq(Nal)]
           /\ \A i \in DOMAIN u : \E n : \E kind \in Kind : u[i] = UnitOf(kind, n)
<1>1. PICK B, at, k, L, p : Stands(B, at, k, L, p, e[Len(e)], Len(e), s, c, r, u, w)
  BY DEF H264Right
<1>2. e \in Seq(Seq(Kind))
  BY DEF H264Right
<1> DEFINE kinds == e[Len(e)]
           run == Len(e)
<1>3. Stands(B, at, k, L, p, kinds, run, s, c, r, u, w)
  BY <1>1
<1> HIDE DEF kinds, run, Unit, Nal, Kind
<1>4. /\ kinds \in Seq(Kind) /\ Len(kinds) \in Nat /\ k \in Nat /\ p \in Nat /\ p <= k /\ k <= Len(kinds)
      /\ L \in Nat /\ Len(B) \in Nat /\ L <= 6 * Len(B) /\ Blocks(B)
      /\ c \in Seq(Nat) /\ u \in Seq(Unit) /\ Len(u) = k - p
      /\ \A i \in 1..k - p : u[i] = UnitOf(kinds[p + i], p + i)
  BY <1>3, StandsIs
<1>5. \A i \in DOMAIN u : \E n : \E kind \in Kind : u[i] = UnitOf(kind, n)
  <2> SUFFICES ASSUME NEW i \in DOMAIN u PROVE \E n : \E kind \in Kind : u[i] = UnitOf(kind, n)
    OBVIOUS
  <2>1. i \in 1..k - p
    BY <1>4, LenProperties
  <2>2. p + i \in 1..Len(kinds)
    <3>1. Len(kinds) \in Nat /\ k \in Nat /\ p \in Nat /\ k <= Len(kinds) /\ i \in 1..k - p
      BY <1>4, <2>1
    <3>2. QED BY ONLY <3>1
  <2>3. kinds[p + i] \in Kind
    BY <1>4, <2>2
  <2>4. QED BY <1>4, <2>1, <2>3
<1>6. r \in [buffer : Seq(Nat), scanFrom : Nat, nals : Seq(Nal)]
  <2>1. r = ReaderOf(B, at[k], L) /\ Inside(B, kinds, at, k, L)
    BY <1>3 DEF Stands
  <2>2. at[k] \in Nat /\ 6 * at[k] <= L /\ Reach(B, at, k, L) \in at[k]..Len(B)
    BY <2>1, InsideIs
  <2> DEFINE b == at[k]
             m == Reach(B, at, k, L)
  <2>3. b \in Nat /\ 6 * b <= L /\ m \in Nat /\ b <= m /\ m <= Len(B)
    <3> HIDE DEF b, m
    <3>1. b \in Nat /\ 6 * b <= L /\ m \in b..Len(B)
      BY <2>2 DEF b, m
    <3>2. QED BY <1>4, <3>1
  <2> HIDE DEF b, m
  <2>4. Held(B, b, L) \in Seq(Nat)
    BY <1>4, <2>3, HeldAt
  <2>5. NalsTo(B, b, m) \in Seq(Nal)
    BY <1>4, <2>3, NalsAre
  <2>6. Clipped(L - 6 * b - 4) \in Nat
    <3> DEFINE x == L - 6 * b - 4
    <3>1. x \in Int
      BY <1>4, <2>3
    <3> HIDE DEF x
    <3>2. Clipped(x) \in Nat
      BY <3>1, ClippedIs
    <3>3. QED BY <3>2 DEF x
  <2>7. r.buffer = Held(B, b, L) /\ r.nals = NalsTo(B, b, m) /\ r.scanFrom = Clipped(L - 6 * b - 4)
        /\ r = [buffer |-> r.buffer, nals |-> r.nals, scanFrom |-> r.scanFrom]
    BY <2>1 DEF ReaderOf, b, m, Reach
  <2>8. QED BY <2>4, <2>5, <2>6, <2>7
<1>7. QED BY <1>2, <1>4, <1>5, <1>6

\* The encoder of the H.264 pump writes.
LEMMA RightEncode ==
    ASSUME NEW e, NEW s, NEW c, NEW r, NEW u, NEW w, H264Right(e, s, c, r, u, w), NEW kind \in Kind
    PROVE  H264Right([e EXCEPT ![Len(e)] = Append(@, kind)], s,
                     c \o Coded(kind, Len(e[Len(e)]) + 1), r, u, w)
<1> DEFINE n == Len(e)
           x == [e EXCEPT ![n] = Append(@, kind)]
           d == c \o Coded(kind, Len(e[n]) + 1)
<1>1. e \in Seq(Seq(Kind)) /\ n \in Nat /\ n > 0 /\ DOMAIN e = 1..n
  BY LenProperties DEF H264Right
<1>2. e[n] \in Seq(Kind) /\ Append(e[n], kind) \in Seq(Kind)
  <2> HIDE DEF n, Kind
  <2>1. n \in 1..n
    BY <1>1
  <2>2. e[n] \in Seq(Kind)
    BY <1>1, <2>1
  <2>3. QED BY <2>2, AppendProperties
<1>3. x \in Seq(Seq(Kind)) /\ Len(x) = n /\ x[n] = Append(e[n], kind) /\ \A i \in 1..n - 1 : x[i] = e[i]
  <2> DEFINE X == [i \in 1..n |-> IF i = n THEN Append(e[n], kind) ELSE e[i]]
  <2> HIDE DEF Kind
  <2>1. e = [i \in 1..n |-> e[i]]
    BY <1>1, LenProperties
  <2>2. x = X
    BY <1>1
  <2>3. \A i \in 1..n : X[i] \in Seq(Kind)
    <3> HIDE DEF n
    <3> SUFFICES ASSUME NEW i \in 1..n PROVE X[i] \in Seq(Kind)
      OBVIOUS
    <3>1. X[i] = IF i = n THEN Append(e[n], kind) ELSE e[i]
      OBVIOUS
    <3>2. e[i] \in Seq(Kind)
      BY <1>1 DEF n
    <3>3. QED BY <1>2, <3>1, <3>2
  <2>4. X \in [1..n -> Seq(Kind)]
    BY <2>3
  <2>5. X \in Seq(Seq(Kind)) /\ Len(X) = n
    <3> HIDE DEF X, n
    <3>1. QED BY <1>1, <2>4, SeqDef, LenProperties
  <2>6. X[n] = Append(e[n], kind) /\ \A i \in 1..n - 1 : X[i] = e[i]
    <3> HIDE DEF n
    <3>1. n \in 1..n /\ \A i \in 1..n - 1 : i \in 1..n /\ i # n
      BY <1>1
    <3>2. \A i \in 1..n : X[i] = IF i = n THEN Append(e[n], kind) ELSE e[i]
      OBVIOUS
    <3> HIDE DEF X
    <3>3. QED BY <3>1, <3>2
  <2> HIDE DEF X, x, n
  <2>7. QED BY <2>2, <2>5, <2>6
<1>4. PICK B, at, k, L, p : Stands(B, at, k, L, p, e[n], n, s, c, r, u, w)
  BY DEF H264Right
<1> HIDE DEF x, d
<1>5. PICK C, to : Stands(C, to, k, L, p, Append(e[n], kind), n, s, d, r, u, w)
  <2> DEFINE kinds == e[n]
  <2>1. Stands(B, at, k, L, p, kinds, n, s, c, r, u, w)
    BY <1>4
  <2> HIDE DEF kinds, n
  <2>2. \E C, to : Stands(C, to, k, L, p, Append(kinds, kind), n, s, c \o Coded(kind, Len(kinds) + 1), r, u, w)
    BY <2>1, StandsEncode
  <2>3. QED BY <2>2 DEF kinds, d
<1>6. Stands(C, to, k, L, p, x[Len(x)], Len(x), s, d, r, u, w)
  BY <1>3, <1>5
<1>7. \A run \in 1..Len(x) - 1 : ShownRight(s, run, x[run])
  BY <1>3 DEF H264Right
<1>8. H264Right(x, s, d, r, u, w)
  BY <1>1, <1>3, <1>6, <1>7 DEF H264Right
<1>9. QED BY <1>8 DEF x, d

\* The H.264 pump reads.
LEMMA RightRead ==
    ASSUME NEW e, NEW s, NEW c, NEW r, NEW u, NEW w, H264Right(e, s, c, r, u, w), u = <<>>,
           NEW n \in 1..Len(c), NEW released, released = Push(r, SubSeq(c, 1, n))
    PROVE  H264Right(e, s, SubSeq(c, n + 1, Len(c)), released.reader, released.units, w)
<1> DEFINE kinds == e[Len(e)]
           run == Len(e)
           d == SubSeq(c, n + 1, Len(c))
<1>1. PICK B, at, k, L, p : Stands(B, at, k, L, p, kinds, run, s, c, r, u, w)
  BY DEF H264Right
<1> HIDE DEF kinds, run, d
<1>2. PICK to, M : Stands(B, at, to, M, p, kinds, run, s, d, released.reader, released.units, w)
  BY <1>1, StandsRead DEF d
<1>3. QED BY <1>2 DEF H264Right, kinds, run, d

\* The H.264 pump flushes.
LEMMA RightFlush ==
    ASSUME NEW e, NEW s, NEW c, NEW r, NEW u, NEW w, H264Right(e, s, c, r, u, w), u = <<>>, c = <<>>,
           HasPendingPicture(r), NEW cut, cut = FlushPending(r)
    PROVE  H264Right(e, s, c, cut.reader, <<cut.unit>>, w)
<1> DEFINE kinds == e[Len(e)]
           run == Len(e)
<1>1. PICK B, at, k, L, p : Stands(B, at, k, L, p, kinds, run, s, c, r, u, w)
  BY DEF H264Right
<1> HIDE DEF kinds, run
<1>2. Stands(B, at, k + 1, L, p, kinds, run, s, c, cut.reader, <<cut.unit>>, w)
  BY <1>1, StandsFlush
<1>3. QED BY <1>2 DEF H264Right, kinds, run

\* The H.264 pump passes a picture over.
LEMMA RightSkip ==
    ASSUME NEW e, NEW s, NEW c, NEW r, NEW u, NEW w, H264Right(e, s, c, r, u, w), u # <<>>
    PROVE  w => H264Right(e, s, c, r, Tail(u), w)
<1> DEFINE kinds == e[Len(e)]
           run == Len(e)
<1>1. PICK B, at, k, L, p : Stands(B, at, k, L, p, kinds, run, s, c, r, u, w)
  BY DEF H264Right
<1> HIDE DEF kinds, run
<1>2. w => Stands(B, at, k, L, p + 1, kinds, run, s, c, r, Tail(u), w)
  BY <1>1, StandsSkip
<1>3. QED BY <1>2 DEF H264Right, kinds, run

\* The H.264 pump forwards a picture.
LEMMA RightSend ==
    ASSUME NEW e, NEW s, NEW c, NEW r, NEW u, NEW w, H264Right(e, s, c, r, u, w), u # <<>>,
           s \in Seq(Frame), w => Head(u).keyFrame,
           NEW f \in Frame, f.run = Len(e), ~f.config, f.data = Head(u).data
    PROVE  H264Right(e, Append(s, f), c, r, Tail(u), FALSE)
<1> DEFINE kinds == e[Len(e)]
           run == Len(e)
           t == Append(s, f)
<1>1. PICK B, at, k, L, p : Stands(B, at, k, L, p, kinds, run, s, c, r, u, w)
  BY DEF H264Right
<1>2. f.run = run /\ t = Append(s, f)
  OBVIOUS
<1> HIDE DEF kinds, run, t
<1>3. Stands(B, at, k, L, p + 1, kinds, run, t, c, r, Tail(u), FALSE)
  BY <1>1, <1>2, StandsSend
<1>4. \A x \in 1..Len(e) - 1 : ShownRight(t, x, e[x])
  <2> SUFFICES ASSUME NEW x \in 1..Len(e) - 1 PROVE ShownRight(t, x, e[x])
    OBVIOUS
  <2>1. ShownRight(s, x, e[x])
    BY DEF H264Right
  <2>2. x # run
    BY LenProperties DEF H264Right, run
  <2> HIDE DEF Frame
  <2>3. \A y : ShownRight(s, x, y) => ShownRight(t, x, y)
    <3>1. s \in Seq(Frame) /\ f \in Frame /\ t = Append(s, f) /\ Elsewhere(f, x)
      BY <1>2, <2>2 DEF Elsewhere
    <3>2. SameShown(s, t, x)
      BY ONLY <3>1, ShownElsewhere
    <3>3. QED BY ONLY <3>2 DEF SameShown
  <2>4. QED BY <2>1, <2>3
<1>5. QED BY <1>3, <1>4 DEF H264Right, kinds, run, t

\* The H.264 pump forwards parameter sets.
LEMMA RightConfig ==
    ASSUME NEW e, NEW s, NEW c, NEW r, NEW u, NEW w, H264Right(e, s, c, r, u, w),
           s \in Seq(Frame), NEW f \in Frame, f.config
    PROVE  H264Right(e, Append(s, f), c, r, u, w)
<1> DEFINE kinds == e[Len(e)]
           run == Len(e)
           t == Append(s, f)
<1>1. PICK B, at, k, L, p : Stands(B, at, k, L, p, kinds, run, s, c, r, u, w)
  BY DEF H264Right
<1>2. t = Append(s, f)
  OBVIOUS
<1> HIDE DEF kinds, run, t
<1>3. Stands(B, at, k, L, p, kinds, run, t, c, r, u, w)
  BY <1>1, StandsConfig DEF t
<1>4. \A x \in 1..Len(e) - 1 : ShownRight(t, x, e[x])
  <2> SUFFICES ASSUME NEW x \in 1..Len(e) - 1 PROVE ShownRight(t, x, e[x])
    OBVIOUS
  <2>1. ShownRight(s, x, e[x])
    BY DEF H264Right
  <2> HIDE DEF Frame
  <2>2. \A y : ShownRight(s, x, y) => ShownRight(t, x, y)
    <3>1. s \in Seq(Frame) /\ f \in Frame /\ t = Append(s, f) /\ Elsewhere(f, x)
      BY <1>2 DEF Elsewhere
    <3>2. SameShown(s, t, x)
      BY ONLY <3>1, ShownElsewhere
    <3>3. QED BY ONLY <3>2 DEF SameShown
  <2>3. QED BY <2>1, <2>2
<1>5. QED BY <1>3, <1>4 DEF H264Right, kinds, run, t

\* The encoder of the H.264 pump is started anew, with nothing left in the pipe.
LEMMA RightRestart ==
    ASSUME NEW e, NEW s, NEW c, NEW r, NEW u, NEW w, H264Right(e, s, c, r, u, w), u = <<>>, c = <<>>,
           s \in Seq(Frame), \A i \in DOMAIN s : s[i].run <= Len(e)
    PROVE  H264Right(Append(e, <<>>), s, c, NewReader, u, TRUE)
<1> DEFINE x == Append(e, <<>>)
           n == Len(e)
           m == n + 1
<1>1. e \in Seq(Seq(Kind)) /\ n \in Nat /\ n > 0
  BY LenProperties DEF H264Right
<1>2. x \in Seq(Seq(Kind)) /\ Len(x) = m /\ x[m] = <<>> /\ \A i \in 1..n : x[i] = e[i]
  <2>1. <<>> \in Seq(Kind)
    OBVIOUS
  <2> HIDE DEF Kind
  <2>2. QED BY <1>1, <2>1, AppendProperties
<1>3. ShownIn(s, m) = {}
  <2> SUFFICES ASSUME NEW i \in DOMAIN s PROVE s[i].run # m
    BY DEF ShownIn
  <2>1. s[i] \in Frame
    OBVIOUS
  <2>2. s[i].run \in Nat
    BY <2>1, BoundAssumption DEF Frame
  <2>3. QED BY <1>1, <2>2
<1>4. PICK B0, at0, k0, L0, p0 : Stands(B0, at0, k0, L0, p0, e[n], n, s, c, r, u, w)
  BY DEF H264Right
<1>5. encoder \in {"delimiting", "slicing"}
  BY <1>4 DEF Stands, Inside
<1> HIDE DEF x, m, n
<1>6. PICK B, at : Stands(B, at, 0, 0, 0, <<>>, m, s, <<>>, NewReader, <<>>, TRUE)
  BY <1>3, <1>5, StandsAnew
<1>7. Stands(B, at, 0, 0, 0, x[Len(x)], Len(x), s, c, NewReader, u, TRUE)
  BY <1>2, <1>6
<1>8. \A i \in 1..Len(x) - 1 : ShownRight(s, i, x[i])
  <2>1. \A i \in 1..n : ShownRight(s, i, e[i])
    BY RightShows DEF n
  <2>2. 1..Len(x) - 1 = 1..n
    BY <1>1, <1>2 DEF m
  <2>3. QED BY <1>2, <2>1, <2>2
<1>9. Len(x) > 0
  BY <1>1, <1>2 DEF m
<1>10. H264Right(x, s, c, NewReader, u, TRUE)
  BY <1>2, <1>7, <1>8, <1>9 DEF H264Right
<1>11. QED BY <1>10 DEF x

\* The H.264 pump starts.
LEMMA RightStarts ==
    ASSUME encoder \in {"delimiting", "slicing"}
    PROVE  H264Right(<<<<>>>>, <<>>, <<>>, NewReader, <<>>, TRUE)
<1> DEFINE x == <<<<>>>>
<1>1. x \in Seq(Seq(Kind)) /\ Len(x) = 1 /\ x[1] = <<>>
  <2>1. <<>> \in Seq(Kind)
    OBVIOUS
  <2> HIDE DEF Kind
  <2>2. QED BY <2>1
<1>2. ShownIn(<<>>, 1) = {}
  BY DEF ShownIn
<1> HIDE DEF x
<1>3. PICK B, at : Stands(B, at, 0, 0, 0, <<>>, 1, <<>>, <<>>, NewReader, <<>>, TRUE)
  BY <1>2, StandsAnew
<1>4. Stands(B, at, 0, 0, 0, x[Len(x)], Len(x), <<>>, <<>>, NewReader, <<>>, TRUE)
  BY <1>1, <1>3
<1>5. \A i \in 1..Len(x) - 1 : FALSE
  BY <1>1
<1>6. H264Right(x, <<>>, <<>>, NewReader, <<>>, TRUE)
  <2>1. Len(x) > 0
    BY <1>1
  <2>2. QED BY <1>1, <1>4, <1>5, <2>1 DEF H264Right
<1>7. QED BY <1>6 DEF x

-----------------------------------------------------------------------------
(* The JPEG pump *)

\* The JPEG stream: pictures of seven bytes, the start marker at the first of them and
\* the end marker at the sixth.
JpegOf(n) == <<255, 216, 255, 0, n, 255, 217>>
JpegByte(i) == JpegOf((i - 1) \div 7 + 1)[((i - 1) % 7) + 1]

\* The bytes a + 1 .. M of the stream.
Jpegs(a, M) == [i \in 1..M - a |-> JpegByte(a + i)]

\* Every byte is in a picture.
LEMMA BySevens == \A i \in Nat \ {0} : \E q \in Nat, x \in 0..6 : i = 7 * q + x + 1
<1> SUFFICES ASSUME NEW i \in Nat \ {0} PROVE \E q \in Nat, x \in 0..6 : i = 7 * q + x + 1
  OBVIOUS
<1> DEFINE j == i - 1
           q == j \div 7
           x == j % 7
<1>1. j \in Nat /\ i = j + 1
  OBVIOUS
<1> HIDE DEF j
<1>2. q \in Nat /\ x \in 0..6
  BY <1>1
<1>3. j = 7 * q + x
  BY <1>1
<1> HIDE DEF q, x
<1>4. i = 7 * q + x + 1
  BY <1>1, <1>2, <1>3
<1>5. QED BY <1>2, <1>4

\* The bytes of the stream, picture by picture.
LEMMA JpegByteIs == \A q \in Nat, x \in 0..6 : JpegByte(7 * q + x + 1) = JpegOf(q + 1)[x + 1]
<1> SUFFICES ASSUME NEW q \in Nat, NEW x \in 0..6 PROVE JpegByte(7 * q + x + 1) = JpegOf(q + 1)[x + 1]
  OBVIOUS
<1> DEFINE i == 7 * q + x + 1
<1>1. i - 1 = 7 * q + x
  OBVIOUS
<1>2. (7 * q + x) \div 7 = q
  OBVIOUS
<1>3. (7 * q + x) % 7 = x
  OBVIOUS
<1>4. (i - 1) \div 7 + 1 = q + 1 /\ ((i - 1) % 7) + 1 = x + 1
  BY <1>1, <1>2, <1>3
<1> HIDE DEF i
<1>5. JpegByte(i) = JpegOf(q + 1)[x + 1]
  BY <1>4 DEF JpegByte
<1>6. QED BY <1>5 DEF i

\* The bytes of a picture.
LEMMA JpegBytes ==
    /\ \A n : /\ JpegOf(n)[1] = 255 /\ JpegOf(n)[2] = 216 /\ JpegOf(n)[3] = 255 /\ JpegOf(n)[4] = 0
              /\ JpegOf(n)[5] = n /\ JpegOf(n)[6] = 255 /\ JpegOf(n)[7] = 217
    /\ \A n \in Nat : JpegOf(n) \in Seq(Nat) /\ Len(JpegOf(n)) = 7 /\ \A i \in 1..7 : JpegOf(n)[i] \in Nat
  BY DEF JpegOf

\* They are numbers.
LEMMA JpegByteNat == \A i \in Nat \ {0} : JpegByte(i) \in Nat
<1> SUFFICES ASSUME NEW i \in Nat \ {0} PROVE JpegByte(i) \in Nat
  OBVIOUS
<1>1. PICK q \in Nat, x \in 0..6 : i = 7 * q + x + 1
  BY BySevens
<1>2. JpegByte(i) = JpegOf(q + 1)[x + 1]
  BY <1>1, JpegByteIs
<1>3. x + 1 \in 1..7 /\ q + 1 \in Nat
  OBVIOUS
<1> DEFINE n == q + 1
           y == x + 1
<1> HIDE DEF n, y
<1>4. n \in Nat /\ y \in 1..7
  BY <1>3 DEF n, y
<1>5. JpegOf(n)[y] \in Nat
  BY <1>4, JpegBytes
<1>6. QED BY <1>2, <1>5 DEF n, y

\* Where the markers are.
LEMMA MarkersAre ==
    ASSUME NEW i \in Nat
    PROVE  /\ (JpegByte(i + 1) = 255 /\ JpegByte(i + 2) = 216) <=> \E q \in Nat : i = 7 * q
           /\ (JpegByte(i + 1) = 255 /\ JpegByte(i + 2) = 217) <=> \E q \in Nat : i = 7 * q + 5
<1>1. PICK q \in Nat, x \in 0..6 : i + 1 = 7 * q + x + 1
  <2>1. i + 1 \in Nat \ {0}
    OBVIOUS
  <2>2. QED BY <2>1, BySevens
<1>2. i = 7 * q + x
  BY <1>1
<1>3. JpegByte(i + 1) = JpegOf(q + 1)[x + 1]
  BY <1>1, JpegByteIs
<1>4. x < 6 => JpegByte(i + 2) = JpegOf(q + 1)[x + 2]
  <2> SUFFICES ASSUME x < 6 PROVE JpegByte(i + 2) = JpegOf(q + 1)[x + 2]
    OBVIOUS
  <2> DEFINE y == x + 1
  <2>1. y \in 0..6 /\ i + 2 = 7 * q + y + 1 /\ y + 1 = x + 2
    BY <1>2
  <2> HIDE DEF y
  <2>2. JpegByte(7 * q + y + 1) = JpegOf(q + 1)[y + 1]
    BY <2>1, JpegByteIs
  <2>3. QED BY <2>1, <2>2
<1>5. x = 0 <=> \E p \in Nat : i = 7 * p
  BY <1>2
<1>6. x = 5 <=> \E p \in Nat : i = 7 * p + 5
  BY <1>2
<1> DEFINE n == q + 1
           b == JpegByte(i + 1)
           d == JpegByte(i + 2)
<1>7. b = JpegOf(n)[x + 1] /\ (x < 6 => d = JpegOf(n)[x + 2])
  BY <1>3, <1>4
<1> HIDE DEF n, b, d
<1>8. /\ JpegOf(n)[1] = 255 /\ JpegOf(n)[2] = 216 /\ JpegOf(n)[3] = 255 /\ JpegOf(n)[4] = 0
      /\ JpegOf(n)[5] = n /\ JpegOf(n)[6] = 255 /\ JpegOf(n)[7] = 217
  BY JpegBytes
<1>9. x = 0 \/ x = 1 \/ x = 2 \/ x = 3 \/ x = 4 \/ x = 5 \/ x = 6
  OBVIOUS
<1>10. x = 0 => b = 255 /\ d = 216
  BY <1>7, <1>8
<1>11. x = 1 => b = 216
  BY <1>7, <1>8
<1>12. x = 2 => d = 0
  BY <1>7, <1>8
<1>13. x = 3 => b = 0
  BY <1>7, <1>8
<1>14. x = 4 => d = 255
  BY <1>7, <1>8
<1>15. x = 5 => b = 255 /\ d = 217
  BY <1>7, <1>8
<1>16. x = 6 => b = 217
  BY <1>7, <1>8
<1>17. (b = 255 /\ d = 216) <=> x = 0
  BY <1>9, <1>10, <1>11, <1>12, <1>13, <1>14, <1>15, <1>16
<1>18. (b = 255 /\ d = 217) <=> x = 5
  BY <1>9, <1>10, <1>11, <1>12, <1>13, <1>14, <1>15, <1>16
<1>19. QED BY <1>5, <1>6, <1>17, <1>18 DEF b, d

\* The bytes a + 1 .. M as a sequence.
LEMMA JpegsAre ==
    ASSUME NEW a \in Nat, NEW M \in Nat, a <= M
    PROVE  /\ Jpegs(a, M) \in Seq(Nat) /\ Len(Jpegs(a, M)) = M - a
           /\ \A i \in 1..M - a : Jpegs(a, M)[i] = JpegByte(a + i)
<1>1. ASSUME NEW i \in 1..M - a PROVE JpegByte(a + i) \in Nat
  <2>1. a + i \in Nat \ {0}
    OBVIOUS
  <2>2. QED BY <2>1, JpegByteNat
<1>2. M - a \in Nat
  OBVIOUS
<1>3. Jpegs(a, M) \in [1..M - a -> Nat]
  BY <1>1 DEF Jpegs
<1>4. \A i \in 1..M - a : Jpegs(a, M)[i] = JpegByte(a + i)
  BY DEF Jpegs
<1> DEFINE J == Jpegs(a, M)
           n == M - a
<1> HIDE DEF J, n
<1>5. J \in Seq(Nat) /\ Len(J) = n
  <2>1. J \in [1..n -> Nat] /\ n \in Nat
    BY <1>2, <1>3 DEF J, n
  <2>2. QED BY <2>1, SeqDef, LenProperties
<1>6. QED BY <1>4, <1>5 DEF J, n

\* A part of them.
LEMMA JpegsPart ==
    ASSUME NEW a \in Nat, NEW M \in Nat, a <= M, NEW m \in Nat, NEW n \in Nat, m <= n, n <= M - a,
           NEW l, l = a + m, NEW h, h = a + n
    PROVE  Bytes(Jpegs(a, M), m, n) = Jpegs(l, h)
<1> DEFINE J == Jpegs(a, M)
           x == SubSeq(J, m + 1, n)
           y == Jpegs(l, h)
<1>1. l \in Nat /\ h \in Nat /\ l <= h /\ h - l = n - m
  OBVIOUS
<1>2. J \in Seq(Nat) /\ Len(J) = M - a /\ \A i \in 1..M - a : J[i] = JpegByte(a + i)
  BY JpegsAre
<1> HIDE DEF J
<1>3. x \in Seq(Nat) /\ Len(x) = n - m /\ \A i \in 1..n - m : x[i] = J[m + i]
  BY <1>2, SubSeqIs
<1>4. y \in Seq(Nat) /\ Len(y) = n - m /\ \A i \in 1..n - m : y[i] = JpegByte(l + i)
  <2>1. Jpegs(l, h) \in Seq(Nat) /\ Len(Jpegs(l, h)) = h - l /\ \A i \in 1..h - l : Jpegs(l, h)[i] = JpegByte(l + i)
    BY <1>1, JpegsAre
  <2>2. QED BY <1>1, <2>1
<1>5. ASSUME NEW i \in 1..n - m PROVE x[i] = y[i]
  <2>1. m + i \in 1..M - a /\ a + (m + i) = l + i
    OBVIOUS
  <2> HIDE DEF x, y
  <2>2. QED BY <1>2, <1>3, <1>4, <2>1
<1> HIDE DEF x, y
<1>6. x = y
  BY <1>3, <1>4, <1>5, SeqEqual
<1>7. QED BY <1>6 DEF x, y, J, Bytes

\* Two parts that follow each other.
LEMMA JpegsJoin ==
    ASSUME NEW a \in Nat, NEW L \in Nat, NEW M \in Nat, a <= L, L <= M
    PROVE  Jpegs(a, L) \o Jpegs(L, M) = Jpegs(a, M)
<1> DEFINE x == Jpegs(a, L)
           y == Jpegs(L, M)
           z == Jpegs(a, M)
           xy == x \o y
<1>1. x \in Seq(Nat) /\ Len(x) = L - a /\ \A i \in 1..L - a : x[i] = JpegByte(a + i)
  BY JpegsAre
<1>2. y \in Seq(Nat) /\ Len(y) = M - L /\ \A i \in 1..M - L : y[i] = JpegByte(L + i)
  BY JpegsAre
<1>3. z \in Seq(Nat) /\ Len(z) = M - a /\ \A i \in 1..M - a : z[i] = JpegByte(a + i)
  BY JpegsAre
<1> HIDE DEF x, y, z
<1>4. /\ xy \in Seq(Nat) /\ Len(xy) = Len(x) + Len(y)
      /\ \A i \in 1..Len(x) : xy[i] = x[i]
      /\ \A i \in 1..Len(y) : xy[Len(x) + i] = y[i]
  BY <1>1, <1>2, Joined
<1> HIDE DEF xy
<1>5. ASSUME NEW i \in 1..M - a PROVE xy[i] = z[i]
  <2>1. CASE i <= L - a
    <3>1. i \in 1..L - a
      BY <2>1
    <3>2. QED BY <1>1, <1>3, <1>4, <3>1
  <2>2. CASE i > L - a
    <3> DEFINE j == i - (L - a)
    <3>1. j \in 1..M - L /\ (L - a) + j = i /\ L + j = a + i
      BY <2>2
    <3> HIDE DEF j
    <3>2. QED BY <1>1, <1>2, <1>3, <1>4, <3>1
  <2>3. i <= L - a \/ i > L - a
    OBVIOUS
  <2>4. QED BY <2>1, <2>2, <2>3
<1>6. Len(xy) = M - a
  BY <1>1, <1>2, <1>4
<1>7. xy = z
  BY <1>3, <1>4, <1>5, <1>6, SeqEqual
<1>8. QED BY <1>7 DEF x, y, z, xy

\* The least number of a set.
LEMMA LeastIs ==
    ASSUME NEW S \in SUBSET Nat, NEW n \in S, \A i \in S : n <= i
    PROVE  Min(S) = n
<1> DEFINE Least(i) == i \in S /\ \A j \in S : i <= j
<1>1. Least(n)
  OBVIOUS
<1>2. \A i : Least(i) => i = n
  <2> SUFFICES ASSUME NEW i, Least(i) PROVE i = n
    OBVIOUS
  <2>1. i \in Nat /\ n \in Nat /\ i <= n /\ n <= i
    OBVIOUS
  <2>2. QED BY <2>1
<1>3. Min(S) = CHOOSE i \in S : \A j \in S : i <= j
  BY DEF Min
<1>4. QED BY <1>1, <1>2, <1>3

\* A sequence of two bytes.
LEMMA PairIs ==
    ASSUME NEW s \in Seq(Nat), Len(s) = 2, NEW x \in Nat, NEW y \in Nat
    PROVE  s = <<x, y>> <=> s[1] = x /\ s[2] = y
<1> DEFINE t == <<x, y>>
<1>1. t \in Seq(Nat) /\ Len(t) = 2 /\ t[1] = x /\ t[2] = y
  OBVIOUS
<1> HIDE DEF t
<1>2. ASSUME s[1] = x, s[2] = y PROVE s = t
  <2>1. ASSUME NEW i \in 1..Len(s) PROVE s[i] = t[i]
    <3>1. i = 1 \/ i = 2
      OBVIOUS
    <3>2. QED BY <1>1, <1>2, <3>1
  <2>2. QED BY <1>1, <2>1, SeqEqual
<1>3. s = t => s[1] = x /\ s[2] = y
  BY <1>1
<1>4. QED BY <1>2, <1>3 DEF t

\* What find_marker can find in a part of the stream.
LEMMA JpegMarkers ==
    ASSUME NEW a \in Nat, NEW M \in Nat, a <= M, NEW from \in Nat
    PROVE  /\ Markers(Jpegs(a, M), StartOfImage, from)
              = {i \in from..M - a - 2 : \E q \in Nat : a + i = 7 * q}
           /\ Markers(Jpegs(a, M), EndOfImage, from)
              = {i \in from..M - a - 2 : \E q \in Nat : a + i = 7 * q + 5}
<1> DEFINE b == Jpegs(a, M)
<1>1. Len(b) - 2 = M - a - 2
  <2>1. Len(b) = M - a
    BY JpegsAre
  <2> HIDE DEF b
  <2>2. QED BY <2>1
<1>2. ASSUME NEW i \in from..M - a - 2
      PROVE  /\ Bytes(b, i, i + 2) = StartOfImage <=> \E q \in Nat : a + i = 7 * q
             /\ Bytes(b, i, i + 2) = EndOfImage <=> \E q \in Nat : a + i = 7 * q + 5
  <2> DEFINE l == a + i
             h == a + (i + 2)
             s == Jpegs(l, h)
  <2>1. Bytes(b, i, i + 2) = s
    <3> DEFINE j == i + 2
    <3>1. i \in Nat /\ j \in Nat /\ i <= j /\ j <= M - a /\ l = a + i /\ h = a + j
      OBVIOUS
    <3> HIDE DEF j, l, h
    <3>2. Bytes(Jpegs(a, M), i, j) = Jpegs(l, h)
      BY <3>1, JpegsPart
    <3>3. QED BY <3>2 DEF j
  <2>2. l \in Nat /\ h \in Nat /\ l <= h /\ h - l = 2
    OBVIOUS
  <2> HIDE DEF l, h, b
  <2>3. s \in Seq(Nat) /\ Len(s) = 2 /\ s[1] = JpegByte(l + 1) /\ s[2] = JpegByte(l + 2)
    <3>1. s \in Seq(Nat) /\ Len(s) = h - l /\ \A x \in 1..h - l : s[x] = JpegByte(l + x)
      BY <2>2, JpegsAre
    <3>2. 1 \in 1..h - l /\ 2 \in 1..h - l
      BY <2>2
    <3> HIDE DEF s
    <3>3. QED BY <2>2, <3>1, <3>2
  <2> HIDE DEF s
  <2>4. /\ s = <<255, 216>> <=> s[1] = 255 /\ s[2] = 216
        /\ s = <<255, 217>> <=> s[1] = 255 /\ s[2] = 217
    <3>1. 255 \in Nat /\ 216 \in Nat /\ 217 \in Nat
      OBVIOUS
    <3>2. s = <<255, 216>> <=> s[1] = 255 /\ s[2] = 216
      BY <2>3, <3>1, PairIs
    <3>3. s = <<255, 217>> <=> s[1] = 255 /\ s[2] = 217
      BY <2>3, <3>1, PairIs
    <3>4. QED BY <3>2, <3>3
  <2>5. /\ (JpegByte(l + 1) = 255 /\ JpegByte(l + 2) = 216) <=> \E q \in Nat : l = 7 * q
        /\ (JpegByte(l + 1) = 255 /\ JpegByte(l + 2) = 217) <=> \E q \in Nat : l = 7 * q + 5
    BY <2>2, MarkersAre
  <2>6. /\ s = <<255, 216>> <=> \E q \in Nat : l = 7 * q
        /\ s = <<255, 217>> <=> \E q \in Nat : l = 7 * q + 5
    BY <2>3, <2>4, <2>5
  <2>7. QED BY <2>1, <2>6 DEF StartOfImage, EndOfImage, l
<1>3. /\ Markers(b, StartOfImage, from) = {i \in from..Len(b) - 2 : Bytes(b, i, i + 2) = StartOfImage}
      /\ Markers(b, EndOfImage, from) = {i \in from..Len(b) - 2 : Bytes(b, i, i + 2) = EndOfImage}
  BY DEF Markers
<1> HIDE DEF b
<1>4. /\ Markers(b, StartOfImage, from) = {i \in from..M - a - 2 : \E q \in Nat : a + i = 7 * q}
      /\ Markers(b, EndOfImage, from) = {i \in from..M - a - 2 : \E q \in Nat : a + i = 7 * q + 5}
  BY <1>1, <1>2, <1>3
<1>5. QED BY <1>4 DEF b

\* What one turn makes of the bytes a + 1 .. M: nothing, or the first whole picture.
CutAt(a, M, cut, b) ==
    /\ b \in Nat /\ a <= b /\ b <= M /\ cut.rest = Jpegs(b, M)
    /\ \/ cut.pictures = <<>>
       \/ \E q \in Nat : cut.pictures = <<JpegOf(q + 1)>> /\ a <= 7 * q /\ 7 * (q + 1) <= b

\* The bytes of a whole picture.
LEMMA WholeJpeg == \A q \in Nat : Jpegs(7 * q, 7 * q + 7) = JpegOf(q + 1)
<1> SUFFICES ASSUME NEW q \in Nat PROVE Jpegs(7 * q, 7 * q + 7) = JpegOf(q + 1)
  OBVIOUS
<1> DEFINE l == 7 * q
           h == 7 * q + 7
           s == Jpegs(l, h)
           n == q + 1
           t == JpegOf(n)
<1>1. l \in Nat /\ h \in Nat /\ l <= h /\ h - l = 7 /\ n \in Nat
  OBVIOUS
<1>2. \A x \in 0..6 : JpegByte(l + x + 1) = t[x + 1]
  BY JpegByteIs
<1> HIDE DEF l, h, n
<1>3. s \in Seq(Nat) /\ Len(s) = 7 /\ \A i \in 1..7 : s[i] = JpegByte(l + i)
  <2>1. s \in Seq(Nat) /\ Len(s) = h - l /\ \A i \in 1..h - l : s[i] = JpegByte(l + i)
    BY <1>1, JpegsAre
  <2> HIDE DEF s
  <2>2. QED BY <1>1, <2>1
<1>4. t \in Seq(Nat) /\ Len(t) = 7
  BY <1>1, JpegBytes
<1> HIDE DEF s, t
<1>5. ASSUME NEW i \in 1..7 PROVE s[i] = t[i]
  <2> DEFINE x == i - 1
  <2>1. x \in 0..6 /\ l + x + 1 = l + i /\ x + 1 = i
    BY <1>1
  <2> HIDE DEF x
  <2>2. QED BY <1>2, <1>3, <2>1
<1>6. s = t
  BY <1>3, <1>4, <1>5, SeqEqual
<1>7. QED BY <1>6 DEF s, t, l, h, n

\* A turn of the loop cuts a whole picture, or none; it may pass over bytes.
LEMMA CutJpegIs ==
    ASSUME NEW a \in Nat, NEW M \in Nat, a <= M
    PROVE  \E b : CutAt(a, M, CutJpeg(Jpegs(a, M)), b)
<1> DEFINE J == Jpegs(a, M)
           starts == Markers(J, StartOfImage, 0)
           picture == Bytes(J, Min(starts), Len(J))
           ends == Markers(picture, EndOfImage, 2)
           cut == CutJpeg(J)
<1>1. cut = IF starts = {} THEN [rest |-> <<>>, pictures |-> <<>>]
            ELSE IF ends = {} THEN [rest |-> picture, pictures |-> <<>>]
            ELSE [rest |-> Bytes(picture, Min(ends) + 2, Len(picture)),
                  pictures |-> <<Bytes(picture, 0, Min(ends) + 2)>>]
  BY DEF CutJpeg
<1>2. starts = {i \in 0..M - a - 2 : \E q \in Nat : a + i = 7 * q}
  BY JpegMarkers
<1>3. Len(J) = M - a
  BY JpegsAre
<1> HIDE DEF cut
<1>4. CASE starts = {}
  <2>1. Jpegs(M, M) = <<>>
    <3>1. Jpegs(M, M) \in Seq(Nat) /\ Len(Jpegs(M, M)) = M - M /\ M - M = 0
      BY JpegsAre
    <3> DEFINE e == Jpegs(M, M)
    <3> HIDE DEF e
    <3>2. QED BY <3>1, EmptySeq DEF e
  <2>2. cut.rest = <<>> /\ cut.pictures = <<>>
    BY <1>1, <1>4
  <2>3. CutAt(a, M, cut, M)
    BY <2>1, <2>2 DEF CutAt
  <2>4. QED BY <2>3 DEF cut
<1>5. CASE starts # {}
  <2> DEFINE m == Min(starts)
  <2>1. m \in starts
    <3>1. starts \in SUBSET Nat
      BY <1>2
    <3> HIDE DEF starts
    <3>2. PICK i \in starts : \A j \in starts : i <= j
      BY <1>5, <3>1, LeastOf
    <3>3. Min(starts) = i
      BY <3>1, <3>2, LeastIs
    <3>4. QED BY <3>2, <3>3
  <2>2. m \in 0..M - a - 2 /\ \E q \in Nat : a + m = 7 * q
    BY <1>2, <2>1
  <2> HIDE DEF m
  <2>3. PICK q \in Nat : a + m = 7 * q
    BY <2>2
  <2> DEFINE l == 7 * q
  <2>4. m \in Nat /\ m <= M - a /\ l \in Nat /\ l = a + m /\ a <= l /\ l + 2 <= M /\ a + (M - a) = M
    BY <2>2, <2>3
  <2> HIDE DEF l
  <2>5. picture = Jpegs(l, M)
    <3> DEFINE n == M - a
    <3>1. n \in Nat /\ m <= n /\ n <= M - a /\ a + n = M
      BY <2>4
    <3>2. n = Len(J)
      BY <1>3
    <3> HIDE DEF n
    <3>3. Bytes(Jpegs(a, M), m, n) = Jpegs(l, M)
      BY <2>4, <3>1, JpegsPart
    <3>4. QED BY <3>2, <3>3 DEF m
  <2> HIDE DEF starts
  <2>6. ends = {i \in 2..M - l - 2 : \E p \in Nat : l + i = 7 * p + 5}
    <3>1. l \in Nat /\ l <= M /\ 2 \in Nat
      BY <2>4
    <3>2. Markers(Jpegs(l, M), EndOfImage, 2) = {i \in 2..M - l - 2 : \E p \in Nat : l + i = 7 * p + 5}
      BY <3>1, JpegMarkers
    <3>3. QED BY <2>5, <3>2
  <2>7. CASE ends = {}
    <3>1. cut.rest = picture /\ cut.pictures = <<>>
      BY <1>1, <1>5, <2>7
    <3> HIDE DEF picture
    <3>2. CutAt(a, M, cut, l)
      BY <2>4, <2>5, <3>1 DEF CutAt
    <3>3. QED BY <3>2 DEF cut
  <2>8. CASE ends # {}
    <3>1. \A i \in ends : 5 <= i /\ i <= M - l - 2 /\ i \in Nat
      <4> SUFFICES ASSUME NEW i \in ends PROVE 5 <= i /\ i <= M - l - 2 /\ i \in Nat
        OBVIOUS
      <4>1. i \in 2..M - l - 2
        BY <2>6
      <4>2. PICK p \in Nat : l + i = 7 * p + 5
        BY <2>6
      <4>3. 7 * q + i = 7 * p + 5
        BY <4>2 DEF l
      <4>4. QED BY <2>4, <4>1, <4>3
    <3>2. 5 \in ends /\ 5 <= M - l - 2
      <4> HIDE DEF ends
      <4>1. PICK i \in ends : TRUE
        BY <2>8
      <4>2. 5 <= M - l - 2 /\ 5 \in 2..M - l - 2
        BY <2>4, <3>1, <4>1
      <4>3. l + 5 = 7 * q + 5
        BY DEF l
      <4>4. QED BY <2>6, <4>2, <4>3
    <3>3. Min(ends) = 5
      <4> HIDE DEF ends
      <4>1. ends \in SUBSET Nat /\ \A i \in ends : 5 <= i
        BY <3>1
      <4>2. QED BY <3>2, <4>1, LeastIs
    <3> HIDE DEF ends
    <3> DEFINE n == M - l
               h == l + 7
    <3>4. Len(picture) = n
      <4>1. l \in Nat /\ l <= M
        BY <2>4
      <4>2. QED BY <2>5, <4>1, JpegsAre
    <3>5. n \in Nat /\ 7 <= n /\ l + n = M /\ h \in Nat /\ h <= M /\ a <= h /\ l <= M /\ l + 0 = l
      BY <2>4, <3>2
    <3> HIDE DEF n, h
    <3>6. Bytes(picture, 7, Len(picture)) = Jpegs(h, M)
      <4>1. n <= M - l /\ h = l + 7 /\ M = l + n
        BY <3>5 DEF n, h
      <4>2. Bytes(Jpegs(l, M), 7, n) = Jpegs(h, M)
        BY <2>4, <3>5, <4>1, JpegsPart
      <4>3. QED BY <2>5, <3>4, <4>2
    <3>7. Bytes(picture, 0, 7) = JpegOf(q + 1)
      <4>1. 7 <= M - l /\ h = l + 7 /\ l = l + 0
        BY <3>5 DEF n, h
      <4>2. Bytes(Jpegs(l, M), 0, 7) = Jpegs(l, h)
        BY <2>4, <3>5, <4>1, JpegsPart
      <4>3. Jpegs(l, h) = JpegOf(q + 1)
        BY WholeJpeg DEF l, h
      <4>4. QED BY <2>5, <4>2, <4>3
    <3>8. cut.rest = Jpegs(h, M) /\ cut.pictures = <<JpegOf(q + 1)>>
      <4>1. cut = [rest |-> Bytes(picture, Min(ends) + 2, Len(picture)),
                   pictures |-> <<Bytes(picture, 0, Min(ends) + 2)>>]
        BY <1>1, <1>5, <2>8
      <4>2. Min(ends) + 2 = 7
        BY <3>3
      <4>3. QED BY <3>6, <3>7, <4>1, <4>2
    <3>9. a <= 7 * q /\ 7 * (q + 1) <= h
      BY <2>4 DEF l, h
    <3>10. CutAt(a, M, cut, h)
      BY <3>5, <3>8, <3>9 DEF CutAt
    <3>11. QED BY <3>10 DEF cut
  <2>9. QED BY <2>7, <2>8
<1>6. QED BY <1>4, <1>5

\* One more element at the end of a sequence.
LEMMA OneMore ==
    ASSUME NEW S, NEW s \in Seq(S), NEW x \in S
    PROVE  /\ s \o <<x>> = Append(s, x) /\ Append(s, x) \in Seq(S)
           /\ Len(s) \in Nat /\ Len(Append(s, x)) = Len(s) + 1
           /\ \A i \in 1..Len(s) : Append(s, x)[i] = s[i]
           /\ Append(s, x)[Len(s) + 1] = x
<1>1. s \o <<x>> = Append(s, x)
  BY AppendIsConcat
<1>2. QED BY <1>1, AppendProperties, LenProperties

\* The pictures of the numbers nums, which are whole between the bytes a and b.
CutOut(a, b, pics, nums) ==
    /\ pics \in Seq(Seq(Nat)) /\ nums \in Seq(Nat) /\ Len(nums) = Len(pics)
    /\ \A i \in 1..Len(nums) : pics[i] = JpegOf(nums[i]) /\ a + 7 <= 7 * nums[i] /\ 7 * nums[i] <= b
    /\ \A i \in 2..Len(nums) : nums[i - 1] < nums[i]

\* What the loop of push has made of the bytes a + 1 .. M.
TurnedTo(a, M, st, b, nums) ==
    /\ b \in Nat /\ a <= b /\ b <= M /\ st.rest = Jpegs(b, M)
    /\ CutOut(a, b, st.pictures, nums)

\* One turn more keeps the pictures whole and in order.
LEMMA CutIs ==
    ASSUME NEW a \in Nat, NEW M \in Nat, NEW st, NEW b, NEW nums, TurnedTo(a, M, st, b, nums)
    PROVE  \E b2, nums2 : TurnedTo(a, M, Cut(st), b2, nums2)
<1> DEFINE cut == CutJpeg(st.rest)
           pics == st.pictures
           next == Cut(st)
           n == Len(nums)
<1>1. b \in Nat /\ a <= b /\ b <= M /\ st.rest = Jpegs(b, M) /\ CutOut(a, b, pics, nums)
  BY DEF TurnedTo
<1>2. PICK d : CutAt(b, M, cut, d)
  BY <1>1, CutJpegIs
<1>3. next.rest = cut.rest /\ next.pictures = pics \o cut.pictures
  BY DEF Cut
<1> HIDE DEF cut, next, pics, n
<1>4. /\ d \in Nat /\ b <= d /\ d <= M /\ cut.rest = Jpegs(d, M) /\ a <= d
      /\ \/ cut.pictures = <<>>
         \/ \E q \in Nat : cut.pictures = <<JpegOf(q + 1)>> /\ b <= 7 * q /\ 7 * (q + 1) <= d
  BY <1>1, <1>2 DEF CutAt
<1>5. /\ pics \in Seq(Seq(Nat)) /\ nums \in Seq(Nat) /\ n = Len(pics) /\ n \in Nat
      /\ \A i \in 1..n : pics[i] = JpegOf(nums[i]) /\ a + 7 <= 7 * nums[i] /\ 7 * nums[i] <= b
      /\ \A i \in 1..n : nums[i] \in Nat
      /\ \A i \in 2..n : nums[i - 1] < nums[i]
  BY <1>1, LenProperties DEF CutOut, n
<1>6. CASE cut.pictures = <<>>
  <2>1. next.pictures = pics
    BY <1>3, <1>5, <1>6, ConcatEmptySeq
  <2>2. \A i \in 1..n : 7 * nums[i] <= d
    <3>1. ASSUME NEW i \in 1..n PROVE 7 * nums[i] <= d
      <4>1. nums[i] \in Nat /\ 7 * nums[i] <= b /\ b \in Nat /\ d \in Nat /\ b <= d
        BY <1>1, <1>4, <1>5
      <4>2. QED BY ONLY <4>1
    <3>2. QED BY <3>1
  <2>3. CutOut(a, d, pics, nums)
    BY <1>5, <2>2 DEF CutOut, n
  <2>4. TurnedTo(a, M, next, d, nums)
    BY <1>3, <1>4, <2>1, <2>3 DEF TurnedTo
  <2>5. QED BY <2>4 DEF next
<1>7. CASE \E q \in Nat : cut.pictures = <<JpegOf(q + 1)>> /\ b <= 7 * q /\ 7 * (q + 1) <= d
  <2>1. PICK q \in Nat : cut.pictures = <<JpegOf(q + 1)>> /\ b <= 7 * q /\ 7 * (q + 1) <= d
    BY <1>7
  <2> DEFINE k == q + 1
             x == JpegOf(k)
             xs == Append(pics, x)
             ks == Append(nums, k)
             m == n + 1
  <2>2. k \in Nat /\ a + 7 <= 7 * k /\ 7 * k <= d /\ b < 7 * k
    BY <1>1, <2>1
  <2>3. cut.pictures = <<x>>
    BY <2>1
  <2> HIDE DEF k
  <2>4. x \in Seq(Nat)
    BY <2>2, JpegBytes
  <2> HIDE DEF x
  <2>5. /\ pics \o <<x>> = xs /\ xs \in Seq(Seq(Nat)) /\ Len(xs) = m
        /\ (\A i \in 1..n : xs[i] = pics[i]) /\ xs[m] = x
    <3>1. /\ pics \o <<x>> = xs /\ xs \in Seq(Seq(Nat)) /\ Len(xs) = Len(pics) + 1
          /\ (\A i \in 1..Len(pics) : xs[i] = pics[i]) /\ xs[Len(pics) + 1] = x
      BY <1>5, <2>4, OneMore
    <3> HIDE DEF xs
    <3>2. QED BY <1>5, <3>1
  <2>6. /\ ks \in Seq(Nat) /\ Len(ks) = m /\ (\A i \in 1..n : ks[i] = nums[i]) /\ ks[m] = k
    <3>1. /\ ks \in Seq(Nat) /\ Len(ks) = Len(nums) + 1
          /\ (\A i \in 1..Len(nums) : ks[i] = nums[i]) /\ ks[Len(nums) + 1] = k
      BY <1>5, <2>2, OneMore
    <3> HIDE DEF ks
    <3>2. QED BY <3>1 DEF n
  <2> HIDE DEF xs, ks, m
  <2>7. m \in Nat /\ m = n + 1 /\ \A i \in 1..m : i \in 1..n \/ i = m
    <3>1. n \in Nat /\ m = n + 1
      BY <1>5 DEF m
    <3>2. QED BY ONLY <3>1
  <2>8. \A i \in 1..m : xs[i] = JpegOf(ks[i]) /\ a + 7 <= 7 * ks[i] /\ 7 * ks[i] <= d
    <3> SUFFICES ASSUME NEW i \in 1..m PROVE xs[i] = JpegOf(ks[i]) /\ a + 7 <= 7 * ks[i] /\ 7 * ks[i] <= d
      OBVIOUS
    <3>1. CASE i = m
      BY <2>2, <2>5, <2>6, <3>1 DEF x
    <3>2. CASE i \in 1..n
      <4>1. /\ xs[i] = pics[i] /\ ks[i] = nums[i] /\ nums[i] \in Nat
            /\ pics[i] = JpegOf(nums[i]) /\ a + 7 <= 7 * nums[i] /\ 7 * nums[i] <= b
        BY <1>5, <2>5, <2>6, <3>2
      <4>2. 7 * nums[i] <= d
        BY <1>1, <1>4, <4>1
      <4>3. QED BY <4>1, <4>2
    <3>3. QED BY <2>7, <3>1, <3>2
  <2>9. \A i \in 2..m : ks[i - 1] < ks[i]
    <3> SUFFICES ASSUME NEW i \in 2..m PROVE ks[i - 1] < ks[i]
      OBVIOUS
    <3>1. i - 1 \in 1..n /\ (i = m \/ i \in 2..n) /\ (i = m => i - 1 = n)
      <4>1. n \in Nat /\ m = n + 1
        BY <1>5, <2>7
      <4>2. i \in 2..m
        OBVIOUS
      <4>3. QED BY ONLY <4>1, <4>2
    <3>2. ks[i - 1] = nums[i - 1] /\ nums[i - 1] \in Nat /\ 7 * nums[i - 1] <= b
      BY <1>5, <2>6, <3>1
    <3>3. CASE i = m
      BY <1>1, <2>2, <2>6, <3>2, <3>3
    <3>4. CASE i \in 2..n
      <4>1. i \in 1..n
        BY <3>4
      <4>2. ks[i] = nums[i] /\ nums[i - 1] < nums[i]
        BY <1>5, <2>6, <3>4, <4>1
      <4>3. QED BY <3>2, <4>2
    <3>5. QED BY <3>1, <3>3, <3>4
  <2>10. CutOut(a, d, xs, ks)
    <3>1. Len(ks) = Len(xs) /\ Len(ks) = m
      BY <2>5, <2>6
    <3>2. QED BY <2>5, <2>6, <2>8, <2>9, <3>1 DEF CutOut
  <2>11. next.pictures = xs
    BY <1>3, <2>3, <2>5
  <2>12. TurnedTo(a, M, next, d, ks)
    BY <1>3, <1>4, <2>10, <2>11 DEF TurnedTo
  <2>13. QED BY <2>12 DEF next
<1>8. QED BY <1>4, <1>6, <1>7

\* The loop of push as a function of its turns.
TurnOf(b, h, n) == IF n = 0 THEN [rest |-> b, pictures |-> <<>>] ELSE Cut(h[n - 1])
TurnsOf(b, N, h) == h = [n \in 0..N |-> TurnOf(b, h, n)]

\* There is a function of the turns.
LEMMA TurnsExist ==
    ASSUME NEW b, NEW N \in Nat
    PROVE  \E h : TurnsOf(b, N, h)
<1> DEFINE Made(m) == \E h : h = [n \in 0..m |-> TurnOf(b, h, n)]
           X == {m \in Nat : ~Made(m)}
<1>1. Made(0)
  <2> DEFINE g == [n \in 0..0 |-> [rest |-> b, pictures |-> <<>>]]
  <2>1. \A n \in 0..0 : n = 0
    OBVIOUS
  <2>2. g = [n \in 0..0 |-> TurnOf(b, g, n)]
    BY <2>1 DEF TurnOf
  <2> HIDE DEF g
  <2>3. QED BY <2>2
<1>2. ASSUME NEW m \in Nat \ {0}, Made(m - 1) PROVE Made(m)
  <2>1. PICK h : h = [n \in 0..m - 1 |-> TurnOf(b, h, n)]
    BY <1>2
  <2> DEFINE g == [n \in 0..m |-> IF n = m THEN Cut(h[m - 1]) ELSE h[n]]
  <2>2. \A n \in 0..m : n = m \/ n \in 0..m - 1
    OBVIOUS
  <2>3. \A n \in 0..m - 1 : n \in 0..m /\ n # m /\ (n # 0 => n - 1 \in 0..m - 1)
    OBVIOUS
  <2>4. \A n \in 0..m - 1 : g[n] = h[n]
    BY <2>3
  <2>5. \A n \in 0..m - 1 : h[n] = TurnOf(b, h, n)
    <3> SUFFICES ASSUME NEW n \in 0..m - 1 PROVE h[n] = TurnOf(b, h, n)
      OBVIOUS
    <3> DEFINE B(x) == TurnOf(b, h, x)
    <3>1. h = [x \in 0..m - 1 |-> B(x)]
      BY <2>1
    <3> HIDE DEF B
    <3>2. h[n] = B(n)
      BY <3>1
    <3>3. QED BY <3>2 DEF B
  <2>6. g[m] = Cut(h[m - 1]) /\ m - 1 \in 0..m - 1 /\ m # 0
    OBVIOUS
  <2> HIDE DEF g
  <2>7. \A n \in 0..m : g[n] = TurnOf(b, g, n)
    <3> SUFFICES ASSUME NEW n \in 0..m PROVE g[n] = TurnOf(b, g, n)
      OBVIOUS
    <3>1. CASE n = m
      BY <2>4, <2>6, <3>1 DEF TurnOf
    <3>2. CASE n \in 0..m - 1
      <4>1. n = 0 \/ n - 1 \in 0..m - 1
        BY <2>3, <3>2
      <4>2. g[n] = h[n] /\ h[n] = TurnOf(b, h, n) /\ (n = 0 \/ g[n - 1] = h[n - 1])
        BY <2>4, <2>5, <3>2, <4>1
      <4>3. QED BY <4>2 DEF TurnOf
    <3>3. QED BY <2>2, <3>1, <3>2
  <2>8. g = [n \in 0..m |-> g[n]]
    BY DEF g
  <2>9. g = [n \in 0..m |-> TurnOf(b, g, n)]
    BY <2>7, <2>8
  <2>10. QED BY <2>9
<1> HIDE DEF Made
<1>3. X = {}
  <2> SUFFICES ASSUME X # {} PROVE FALSE
    OBVIOUS
  <2>1. X \in SUBSET Nat
    OBVIOUS
  <2>2. PICK m \in X : \A i \in X : m <= i
    <3> HIDE DEF X
    <3>1. QED BY <2>1, LeastOf
  <2>3. m \in Nat \ {0} /\ m - 1 \in Nat /\ ~(m <= m - 1)
    BY <1>1
  <2>4. Made(m - 1)
    BY <2>2, <2>3
  <2>5. QED BY <1>2, <2>3, <2>4
<1>4. Made(N)
  BY <1>3
<1>5. QED BY <1>4 DEF Made, TurnsOf

\* So what a push cuts is whole and in order.
LEMMA PushJpegIs ==
    ASSUME NEW a \in Nat, NEW M \in Nat, a <= M, NEW all, all = Jpegs(a, M)
    PROVE  \E b, nums : TurnedTo(a, M, CutBy(all)[Turns(all)], b, nums)
<1> DEFINE N == Turns(all)
           f == CutBy(all)
<1>1. N \in Nat
  <2>1. Len(all) \in Nat
    BY JpegsAre
  <2> DEFINE l == Len(all)
  <2> HIDE DEF l
  <2>2. l \div 4 + 1 \in Nat
    BY <2>1 DEF l
  <2>3. QED BY <2>2 DEF Turns, l
<1>2. f = CHOOSE h : h = [n \in 0..N |-> TurnOf(all, h, n)]
  BY DEF CutBy, TurnOf
<1> HIDE DEF f, N
<1>3. f = [n \in 0..N |-> TurnOf(all, f, n)]
  <2>1. \E h : h = [n \in 0..N |-> TurnOf(all, h, n)]
    <3>1. \E h : TurnsOf(all, N, h)
      BY <1>1, TurnsExist
    <3>2. QED BY <3>1 DEF TurnsOf
  <2>2. QED BY <1>2, <2>1
<1>4. \A n \in 0..N : f[n] = TurnOf(all, f, n)
  <2> SUFFICES ASSUME NEW n \in 0..N PROVE f[n] = TurnOf(all, f, n)
    OBVIOUS
  <2> DEFINE B(x) == TurnOf(all, f, x)
  <2>1. f = [x \in 0..N |-> B(x)]
    BY <1>3
  <2> HIDE DEF B
  <2>2. f[n] = B(n)
    BY <2>1
  <2>3. QED BY <2>2 DEF B
<1> DEFINE P(n) == \E b, nums : TurnedTo(a, M, f[n], b, nums)
           X == {n \in 0..N : ~P(n)}
<1>5. P(0)
  <2>1. 0 \in 0..N
    BY <1>1
  <2>2. f[0] = [rest |-> all, pictures |-> <<>>]
    BY <1>4, <2>1 DEF TurnOf
  <2>3. CutOut(a, a, <<>>, <<>>)
    <3>1. <<>> \in Seq(Seq(Nat)) /\ <<>> \in Seq(Nat) /\ Len(<<>>) = 0
      OBVIOUS
    <3>2. (\A i \in 1..0 : FALSE) /\ (\A i \in 2..0 : FALSE)
      OBVIOUS
    <3>3. QED BY <3>1, <3>2 DEF CutOut
  <2>4. f[0].rest = all /\ f[0].pictures = <<>>
    BY <2>2
  <2>5. TurnedTo(a, M, f[0], a, <<>>)
    BY <2>3, <2>4 DEF TurnedTo
  <2>6. QED BY <2>5
<1>6. ASSUME NEW n \in 1..N, P(n - 1) PROVE P(n)
  <2>1. n \in 0..N /\ n # 0
    BY <1>1
  <2>2. f[n] = Cut(f[n - 1])
    BY <1>4, <2>1 DEF TurnOf
  <2> DEFINE st == f[n - 1]
  <2>3. PICK b, nums : TurnedTo(a, M, st, b, nums)
    BY <1>6
  <2> HIDE DEF st
  <2>4. \E b2, nums2 : TurnedTo(a, M, Cut(st), b2, nums2)
    BY <2>3, CutIs
  <2>5. QED BY <2>2, <2>4 DEF st
<1> HIDE DEF P
<1>7. X = {}
  <2> SUFFICES ASSUME X # {} PROVE FALSE
    OBVIOUS
  <2>1. X \in SUBSET Nat
    BY <1>1
  <2>2. PICK n \in X : \A i \in X : n <= i
    <3> HIDE DEF X
    <3>1. QED BY <2>1, LeastOf
  <2>3. n \in 1..N /\ n - 1 \in 0..N /\ ~(n <= n - 1)
    BY <1>1, <1>5
  <2>4. P(n - 1)
    BY <2>2, <2>3
  <2>5. QED BY <1>6, <2>3, <2>4
<1>8. P(N)
  BY <1>1, <1>7
<1>9. QED BY <1>8 DEF P, f, N

\* The numbers of pictures that end before byte a.
Ascending(nums, a) ==
    /\ nums \in Seq(Nat)
    /\ \A i \in 1..Len(nums) : 1 <= nums[i] /\ 7 * nums[i] <= a
    /\ \A i \in 2..Len(nums) : nums[i - 1] < nums[i]

\* Where the JPEG pump stands in a stream of E pictures: the reader holds the bytes
\* a + 1 .. L; the pictures nums were forwarded, or wait to be.
JpegAt(E, s, c, r, u, a, L, nums) ==
    /\ E \in Nat /\ a \in Nat /\ L \in Nat /\ a <= L /\ L <= 7 * E
    /\ r = [buffer |-> Jpegs(a, L), nals |-> <<>>, scanFrom |-> 0]
    /\ c = Jpegs(L, 7 * E)
    /\ Ascending(nums, a) /\ s \in Seq(Frame) /\ u \in Seq(Unit) /\ Len(nums) = Len(s) + Len(u)
    /\ \A i \in 1..Len(s) : s[i].data = JpegOf(nums[i])
    /\ \A i \in 1..Len(u) : u[i] = JpegUnit(JpegOf(nums[Len(s) + i]))

\* What holds of the JPEG pump, which never restarts its encoder.
JpegRight(e, s, c, r, u, w) ==
    /\ encoder = "jpeg" /\ (~w) /\ e \in Seq(Seq(Kind)) /\ Len(e) = 1
    /\ \E a, L, nums : JpegAt(Len(e[1]), s, c, r, u, a, L, nums)

\* What jpegenc writes.
LEMMA JpegCoded ==
    ASSUME encoder = "jpeg", NEW kind, NEW n \in Nat
    PROVE  Coded(kind, n) = JpegOf(n)
<1> DEFINE x == StartOfImage
           y == <<255, 0, n>>
           z == EndOfImage
           xy == x \o y
           s == xy \o z
<1>1. Coded(kind, n) = s
  BY DEF Coded
<1>2. x \in Seq(Nat) /\ Len(x) = 2 /\ x[1] = 255 /\ x[2] = 216
  BY DEF StartOfImage
<1>3. y \in Seq(Nat) /\ Len(y) = 3 /\ y[1] = 255 /\ y[2] = 0 /\ y[3] = n
  OBVIOUS
<1>4. z \in Seq(Nat) /\ Len(z) = 2 /\ z[1] = 255 /\ z[2] = 217
  BY DEF EndOfImage
<1> HIDE DEF x, y, z
<1>5. /\ xy \in Seq(Nat) /\ Len(xy) = Len(x) + Len(y)
      /\ \A i \in 1..Len(x) : xy[i] = x[i]
      /\ \A i \in 1..Len(y) : xy[Len(x) + i] = y[i]
  <2>1. x \in Seq(Nat) /\ y \in Seq(Nat)
    BY <1>2, <1>3
  <2>2. QED BY ONLY <2>1, Joined
<1> HIDE DEF xy
<1>6. Len(xy) = 5 /\ xy[1] = 255 /\ xy[2] = 216 /\ xy[3] = 255 /\ xy[4] = 0 /\ xy[5] = n
  BY <1>2, <1>3, <1>5
<1>7. /\ s \in Seq(Nat) /\ Len(s) = Len(xy) + Len(z)
      /\ \A i \in 1..Len(xy) : s[i] = xy[i]
      /\ \A i \in 1..Len(z) : s[Len(xy) + i] = z[i]
  <2>1. xy \in Seq(Nat) /\ z \in Seq(Nat)
    BY <1>4, <1>5
  <2>2. QED BY ONLY <2>1, Joined
<1> HIDE DEF s
<1>8. /\ Len(s) = 7 /\ s[1] = 255 /\ s[2] = 216 /\ s[3] = 255 /\ s[4] = 0 /\ s[5] = n
      /\ s[6] = 255 /\ s[7] = 217
  BY <1>4, <1>6, <1>7
<1> DEFINE t == JpegOf(n)
<1>9. /\ t \in Seq(Nat) /\ Len(t) = 7 /\ t[1] = 255 /\ t[2] = 216 /\ t[3] = 255 /\ t[4] = 0 /\ t[5] = n
      /\ t[6] = 255 /\ t[7] = 217
  BY JpegBytes
<1> HIDE DEF t
<1>10. ASSUME NEW i \in 1..7 PROVE s[i] = t[i]
  <2>1. i = 1 \/ i = 2 \/ i = 3 \/ i = 4 \/ i = 5 \/ i = 6 \/ i = 7
    OBVIOUS
  <2>2. /\ s[1] = t[1] /\ s[2] = t[2] /\ s[3] = t[3] /\ s[4] = t[4] /\ s[5] = t[5]
        /\ s[6] = t[6] /\ s[7] = t[7]
    BY ONLY <1>8, <1>9
  <2>3. QED BY ONLY <2>1, <2>2
<1>11. s = t
  <2>1. s \in Seq(Nat) /\ t \in Seq(Nat) /\ Len(s) = Len(t) /\ \A i \in 1..Len(s) : s[i] = t[i]
    BY <1>7, <1>8, <1>9, <1>10
  <2>2. QED BY <2>1, SeqEqual
<1>12. QED BY <1>1, <1>11 DEF t

\* A JPEG picture on its way to the socket is a unit.
LEMMA JpegUnitIs == \A n \in Nat : JpegUnit(JpegOf(n)) \in Unit
<1> SUFFICES ASSUME NEW n \in Nat PROVE JpegUnit(JpegOf(n)) \in Unit
  OBVIOUS
<1>1. JpegOf(n) \in Seq(Nat) /\ <<>> \in Seq(Nat)
  BY JpegBytes
<1>2. QED BY <1>1 DEF JpegUnit, Unit, Byte

\* The JPEG pump starts.
LEMMA JpegStarts ==
    ASSUME encoder = "jpeg"
    PROVE  JpegRight(<<<<>>>>, <<>>, <<>>, NewReader, <<>>, FALSE)
<1> DEFINE e == <<<<>>>>
<1>1. e \in Seq(Seq(Kind)) /\ Len(e) = 1 /\ e[1] = <<>>
  <2>1. <<>> \in Seq(Kind)
    OBVIOUS
  <2> HIDE DEF Kind
  <2>2. QED BY <2>1
<1>2. Jpegs(0, 0) = <<>>
  <2>1. Jpegs(0, 0) \in Seq(Nat) /\ Len(Jpegs(0, 0)) = 0 - 0
    BY JpegsAre
  <2> DEFINE j == Jpegs(0, 0)
  <2> HIDE DEF j
  <2>2. j \in Seq(Nat) /\ Len(j) = 0
    BY <2>1 DEF j
  <2>3. QED BY <2>2, EmptySeq DEF j
<1>3. NewReader = [buffer |-> Jpegs(0, 0), nals |-> <<>>, scanFrom |-> 0]
  BY <1>2 DEF NewReader
<1>4. <<>> \in Seq(Frame) /\ <<>> \in Seq(Unit) /\ <<>> \in Seq(Nat) /\ Len(<<>>) = 0 /\ 7 * 0 = 0
  <2> HIDE DEF Frame, Unit
  <2>1. QED OBVIOUS
<1>5. (\A i \in 1..0 : FALSE) /\ (\A i \in 2..0 : FALSE)
  OBVIOUS
<1>6. Ascending(<<>>, 0)
  BY <1>4, <1>5 DEF Ascending
<1> HIDE DEF Frame, Unit, NewReader
<1>7. JpegAt(0, <<>>, <<>>, NewReader, <<>>, 0, 0, <<>>)
  <2>1. /\ <<>> = Jpegs(0, 7 * 0) /\ 0 \in Nat /\ 0 <= 0 /\ 0 <= 7 * 0 /\ 0 = 0 + 0
    BY <1>2, <1>4
  <2>2. QED BY ONLY <1>3, <1>4, <1>5, <1>6, <2>1 DEF JpegAt
<1> HIDE DEF e
<1>8. JpegAt(Len(e[1]), <<>>, <<>>, NewReader, <<>>, 0, 0, <<>>)
  BY <1>1, <1>4, <1>7
<1>9. JpegRight(e, <<>>, <<>>, NewReader, <<>>, FALSE)
  BY <1>1, <1>8 DEF JpegRight
<1>10. QED BY <1>9 DEF e

\* Its encoder writes.
LEMMA JpegEncode ==
    ASSUME NEW e, NEW s, NEW c, NEW r, NEW u, NEW w, JpegRight(e, s, c, r, u, w), NEW kind \in Kind
    PROVE  JpegRight([e EXCEPT ![Len(e)] = Append(@, kind)], s,
                     c \o Coded(kind, Len(e[Len(e)]) + 1), r, u, w)
<1> DEFINE x == [e EXCEPT ![1] = Append(@, kind)]
           E == Len(e[1])
           d == c \o Coded(kind, E + 1)
<1>1. /\ encoder = "jpeg" /\ e \in Seq(Seq(Kind)) /\ Len(e) = 1
  BY DEF JpegRight
<1>2. e[1] \in Seq(Kind) /\ E \in Nat /\ Append(e[1], kind) \in Seq(Kind) /\ Len(Append(e[1], kind)) = E + 1
  <2> HIDE DEF Kind
  <2>1. e[1] \in Seq(Kind)
    <3>1. 1 \in 1..Len(e)
      BY <1>1
    <3>2. QED BY <1>1, <3>1, ElementOfSeq
  <2>2. QED BY <2>1, AppendProperties, LenProperties
<1>3. x \in Seq(Seq(Kind)) /\ Len(x) = 1 /\ Len(x[1]) = E + 1
  <2> HIDE DEF Kind
  <2>1. 1 \in 1..Len(e)
    BY <1>1
  <2>2. /\ x \in Seq(Seq(Kind)) /\ Len(x) = Len(e) /\ x[1] = Append(e[1], kind)
    <3> DEFINE k == Append(e[1], kind)
               y == [e EXCEPT ![1] = k]
    <3>1. x = y
      OBVIOUS
    <3>2. k \in Seq(Kind)
      BY <1>2
    <3> HIDE DEF x, k
    <3>3. y \in Seq(Seq(Kind)) /\ Len(y) = Len(e) /\ y[1] = k
      <4> DEFINE S == Seq(Kind)
      <4>1. e \in Seq(S) /\ k \in S
        BY <1>1, <3>2
      <4> HIDE DEF S
      <4>2. y \in Seq(S) /\ Len(y) = Len(e)
        BY <2>1, <4>1, ExceptSeq
      <4>3. 1 \in DOMAIN e
        BY <2>1, <4>1, LenProperties
      <4>4. y[1] = k
        BY <4>3
      <4>5. QED BY <4>2, <4>4 DEF S
    <3>4. QED BY <3>1, <3>3 DEF k
  <2> HIDE DEF x
  <2>3. QED BY <1>1, <1>2, <2>2
<1>4. PICK a, L, nums : JpegAt(E, s, c, r, u, a, L, nums)
  BY DEF JpegRight
<1> HIDE DEF E, x
<1>5. Coded(kind, E + 1) = JpegOf(E + 1)
  BY <1>1, <1>2, JpegCoded
<1> DEFINE m == 7 * E
           n == 7 * (E + 1)
<1>6. m \in Nat /\ n \in Nat /\ m <= n /\ n = m + 7
  BY <1>2
<1>7. Jpegs(m, n) = JpegOf(E + 1)
  <2>1. Jpegs(7 * E, 7 * E + 7) = JpegOf(E + 1)
    BY <1>2, WholeJpeg
  <2> DEFINE j == JpegOf(E + 1)
  <2>2. Jpegs(m, m + 7) = j
    BY <2>1
  <2> HIDE DEF m, n, j
  <2>3. Jpegs(m, n) = j
    BY <1>6, <2>2
  <2>4. QED BY <2>3 DEF j
<1>8. a \in Nat /\ L \in Nat /\ a <= L /\ L <= m /\ c = Jpegs(L, m)
  BY <1>4 DEF JpegAt
<1> HIDE DEF m, n
<1>9. d = Jpegs(L, n) /\ L <= n
  <2>1. Jpegs(L, m) \o Jpegs(m, n) = Jpegs(L, n)
    BY <1>6, <1>8, JpegsJoin
  <2>2. QED BY <1>5, <1>6, <1>7, <1>8, <2>1
<1> HIDE DEF d
<1>10. JpegAt(E + 1, s, d, r, u, a, L, nums)
  <2>1. E + 1 \in Nat
    BY <1>2
  <2>2. /\ a <= L /\ r = [buffer |-> Jpegs(a, L), nals |-> <<>>, scanFrom |-> 0]
        /\ Ascending(nums, a) /\ s \in Seq(Frame) /\ u \in Seq(Unit) /\ Len(nums) = Len(s) + Len(u)
        /\ \A i \in 1..Len(s) : s[i].data = JpegOf(nums[i])
        /\ \A i \in 1..Len(u) : u[i] = JpegUnit(JpegOf(nums[Len(s) + i]))
    BY <1>4 DEF JpegAt
  <2>3. QED BY <1>8, <1>9, <2>1, <2>2 DEF JpegAt, n
<1>11. JpegRight(x, s, d, r, u, w)
  <2>1. JpegAt(Len(x[1]), s, d, r, u, a, L, nums)
    BY <1>3, <1>10
  <2>2. QED BY <1>1, <1>3, <2>1 DEF JpegRight
<1>12. QED BY <1>1, <1>11 DEF x, d, E

\* It forwards a picture.
LEMMA JpegSend ==
    ASSUME NEW e, NEW s, NEW c, NEW r, NEW u, NEW w, JpegRight(e, s, c, r, u, w), u # <<>>,
           NEW f \in Frame, f.data = Head(u).data
    PROVE  JpegRight(e, Append(s, f), c, r, Tail(u), w)
<1> DEFINE E == Len(e[1])
           t == Append(s, f)
           v == Tail(u)
           m == Len(s)
           n == Len(u)
<1>1. PICK a, L, nums : JpegAt(E, s, c, r, u, a, L, nums)
  BY DEF JpegRight
<1>2. /\ s \in Seq(Frame) /\ u \in Seq(Unit) /\ Len(nums) = m + n
      /\ \A i \in 1..m : s[i].data = JpegOf(nums[i])
      /\ \A i \in 1..n : u[i] = JpegUnit(JpegOf(nums[m + i]))
  BY <1>1 DEF JpegAt
<1> HIDE DEF E, Frame, Unit
<1>3. m \in Nat /\ n \in Nat /\ n > 0
  BY <1>2, EmptySeq, LenProperties
<1>4. t \in Seq(Frame) /\ Len(t) = m + 1 /\ (\A i \in 1..m : t[i] = s[i]) /\ t[m + 1] = f
  BY <1>2, AppendProperties
<1>5. v \in Seq(Unit) /\ Len(v) = n - 1 /\ (\A i \in 1..Len(v) : v[i] = u[i + 1]) /\ Head(u) = u[1]
  BY <1>2, HeadTailProperties
<1> HIDE DEF t, v, m, n
<1>6. Len(nums) = Len(t) + Len(v)
  BY <1>2, <1>3, <1>4, <1>5
<1>7. \A i \in 1..Len(t) : t[i].data = JpegOf(nums[i])
  <2> SUFFICES ASSUME NEW i \in 1..m + 1 PROVE t[i].data = JpegOf(nums[i])
    BY <1>4
  <2>1. CASE i \in 1..m
    BY <1>2, <1>4, <2>1
  <2>2. CASE i = m + 1
    <3>1. 1 \in 1..n
      BY <1>3
    <3>2. u[1] = JpegUnit(JpegOf(nums[m + 1]))
      BY <1>2, <3>1
    <3>3. u[1].data = JpegOf(nums[m + 1])
      BY <3>2 DEF JpegUnit
    <3>4. QED BY <1>4, <1>5, <2>2, <3>3
  <2>3. i \in 1..m \/ i = m + 1
    BY <1>3
  <2>4. QED BY <2>1, <2>2, <2>3
<1>8. \A i \in 1..Len(v) : v[i] = JpegUnit(JpegOf(nums[Len(t) + i]))
  <2> SUFFICES ASSUME NEW i \in 1..Len(v) PROVE v[i] = JpegUnit(JpegOf(nums[Len(t) + i]))
    OBVIOUS
  <2>1. i + 1 \in 1..n /\ m + (i + 1) = Len(t) + i
    BY <1>3, <1>4, <1>5
  <2>2. u[i + 1] = JpegUnit(JpegOf(nums[m + (i + 1)]))
    BY <1>2, <2>1
  <2>3. QED BY <1>5, <2>1, <2>2
<1>9. JpegAt(E, t, c, r, v, a, L, nums)
  BY <1>1, <1>4, <1>5, <1>6, <1>7, <1>8 DEF JpegAt
<1>10. JpegRight(e, t, c, r, v, w)
  BY <1>9 DEF JpegRight, E
<1>11. QED BY <1>10 DEF t, v

\* The pictures cut from behind byte a follow those that end before it.
LEMMA NumbersJoin ==
    ASSUME NEW x, NEW y, NEW pics, NEW a \in Nat, NEW b \in Nat, a <= b, Ascending(x, a),
           CutOut(a, b, pics, y)
    PROVE  /\ Ascending(x \o y, b) /\ Len(x \o y) = Len(x) + Len(y) /\ Len(y) \in Nat /\ Len(x) \in Nat
           /\ \A i \in 1..Len(x) : (x \o y)[i] = x[i]
           /\ \A i \in 1..Len(y) : (x \o y)[Len(x) + i] = y[i]
           /\ \A i \in 1..Len(y) : y[i] \in Nat /\ pics[i] = JpegOf(y[i])
           /\ Len(pics) = Len(y) /\ pics \in Seq(Seq(Nat))
<1> DEFINE z == x \o y
           m == Len(x)
           n == Len(y)
<1>1. /\ x \in Seq(Nat) /\ m \in Nat /\ \A i \in 1..m : x[i] \in Nat /\ 1 <= x[i] /\ 7 * x[i] <= a
      /\ \A i \in 2..m : x[i - 1] < x[i]
  <2>1. x \in Seq(Nat)
    BY DEF Ascending
  <2>2. QED BY <2>1, LenProperties DEF Ascending
<1>2. /\ y \in Seq(Nat) /\ n \in Nat /\ pics \in Seq(Seq(Nat)) /\ Len(pics) = n
      /\ \A i \in 1..n : pics[i] = JpegOf(y[i]) /\ y[i] \in Nat /\ a + 7 <= 7 * y[i] /\ 7 * y[i] <= b
      /\ \A i \in 2..n : y[i - 1] < y[i]
  <2>1. y \in Seq(Nat)
    BY DEF CutOut
  <2>2. QED BY <2>1, LenProperties DEF CutOut
<1>3. /\ z \in Seq(Nat) /\ Len(z) = m + n
      /\ \A i \in 1..m : z[i] = x[i]
      /\ \A i \in 1..n : z[m + i] = y[i]
  BY <1>1, <1>2, Joined
<1> HIDE DEF z, m, n
<1>4. ASSUME NEW i \in 1..m + n
      PROVE  \/ i \in 1..m /\ z[i] = x[i]
             \/ \E j \in 1..n : i = m + j /\ z[i] = y[j]
  <2>1. CASE i <= m
    <3>1. i \in 1..m
      BY <1>1, <2>1
    <3>2. QED BY <1>3, <3>1
  <2>2. CASE i > m
    <3> DEFINE j == i - m
    <3>1. j \in 1..n /\ i = m + j
      BY <1>1, <1>2, <2>2
    <3> HIDE DEF j
    <3>2. QED BY <1>3, <3>1
  <2>3. i <= m \/ i > m
    BY <1>1, <1>2
  <2>4. QED BY <2>1, <2>2, <2>3
<1>5. \A i \in 1..m + n : 1 <= z[i] /\ 7 * z[i] <= b
  <2> SUFFICES ASSUME NEW i \in 1..m + n PROVE 1 <= z[i] /\ 7 * z[i] <= b
    OBVIOUS
  <2>1. CASE i \in 1..m /\ z[i] = x[i]
    <3>1. x[i] \in Nat /\ 1 <= x[i] /\ 7 * x[i] <= a
      BY <1>1, <2>1
    <3>2. QED BY <2>1, <3>1
  <2>2. CASE \E j \in 1..n : i = m + j /\ z[i] = y[j]
    <3>1. PICK j \in 1..n : i = m + j /\ z[i] = y[j]
      BY <2>2
    <3>2. y[j] \in Nat /\ a + 7 <= 7 * y[j] /\ 7 * y[j] <= b
      BY <1>2
    <3>3. QED BY <3>1, <3>2
  <2>3. QED BY <1>4, <2>1, <2>2
<1>6. \A i \in 2..m + n : z[i - 1] < z[i]
  <2> SUFFICES ASSUME NEW i \in 2..m + n PROVE z[i - 1] < z[i]
    OBVIOUS
  <2> DEFINE h == i - 1
  <2>1. h \in 1..m + n /\ i \in 1..m + n /\ i = h + 1
    BY <1>1, <1>2
  <2> HIDE DEF h
  <2>2. CASE i \in 1..m /\ z[i] = x[i]
    <3>1. h \in 1..m /\ i \in 2..m /\ i - 1 = h
      BY <1>1, <2>1, <2>2
    <3>2. z[h] = x[h] /\ x[h] < x[i]
      BY <1>1, <1>3, <3>1
    <3>3. QED BY <2>2, <3>1, <3>2
  <2>3. CASE \E j \in 1..n : i = m + j /\ z[i] = y[j]
    <3>1. PICK j \in 1..n : i = m + j /\ z[i] = y[j]
      BY <2>3
    <3>2. y[j] \in Nat /\ a + 7 <= 7 * y[j]
      BY <1>2
    <3>3. CASE j = 1
      <4>1. h = m /\ h \in 1..m
        BY <1>1, <2>1, <3>1, <3>3
      <4>2. z[h] = x[h] /\ x[h] \in Nat /\ 7 * x[h] <= a
        BY <1>1, <1>3, <4>1
      <4>3. z[h] < z[i]
        BY <3>1, <3>2, <4>2
      <4>4. QED BY <4>3 DEF h
    <3>4. CASE j # 1
      <4> DEFINE k == j - 1
      <4>1. k \in 1..n /\ j \in 2..n /\ h = m + k /\ j - 1 = k
        <5>1. m \in Nat /\ n \in Nat /\ i = m + j /\ i = h + 1 /\ h \in 1..m + n /\ j \in 1..n /\ j # 1
          BY <1>1, <1>2, <2>1, <3>1, <3>4
        <5>2. QED BY ONLY <5>1 DEF k
      <4> HIDE DEF k
      <4>2. z[h] = y[k]
        BY <1>3, <4>1
      <4>3. y[k] < y[j]
        BY <1>2, <4>1
      <4>4. z[h] < z[i]
        BY <3>1, <4>2, <4>3
      <4>5. QED BY <4>4 DEF h
    <3>5. QED BY <3>3, <3>4
  <2>4. QED BY <1>4, <2>1, <2>2, <2>3
<1>7. Ascending(z, b)
  BY <1>3, <1>5, <1>6 DEF Ascending
<1>8. QED BY <1>1, <1>2, <1>3, <1>7 DEF z, m, n

\* The pictures of a read.
JpegUnitsOf(pics) == [i \in DOMAIN pics |-> JpegUnit(pics[i])]

\* It reads.
LEMMA JpegRead ==
    ASSUME NEW e, NEW s, NEW c, NEW r, NEW u, NEW w, JpegRight(e, s, c, r, u, w), u = <<>>,
           NEW n \in 1..Len(c), NEW pushed, pushed = PushJpeg(r.buffer, SubSeq(c, 1, n))
    PROVE  JpegRight(e, s, SubSeq(c, n + 1, Len(c)), [r EXCEPT !.buffer = pushed.rest],
                     JpegUnitsOf(pushed.pictures), w)
<1> DEFINE E == Len(e[1])
           F == 7 * E
           d == SubSeq(c, n + 1, Len(c))
           v == JpegUnitsOf(pushed.pictures)
           q == [r EXCEPT !.buffer = pushed.rest]
<1>1. PICK a, L, nums : JpegAt(E, s, c, r, u, a, L, nums)
  BY DEF JpegRight
<1>2. /\ E \in Nat /\ a \in Nat /\ L \in Nat /\ a <= L /\ L <= F
      /\ r = [buffer |-> Jpegs(a, L), nals |-> <<>>, scanFrom |-> 0]
      /\ c = Jpegs(L, F)
      /\ Ascending(nums, a) /\ s \in Seq(Frame) /\ Len(nums) = Len(s) + Len(u)
      /\ \A i \in 1..Len(s) : s[i].data = JpegOf(nums[i])
  BY <1>1 DEF JpegAt
<1>3. F \in Nat
  BY <1>2
<1> HIDE DEF E, F, d, v, Unit, Frame
<1>4. Len(c) = F - L
  BY <1>2, <1>3, JpegsAre
<1> DEFINE M == L + n
<1>5. n \in Nat /\ n <= F - L /\ M \in Nat /\ L <= M /\ M <= F /\ M = L + n /\ a <= M
  BY <1>2, <1>3, <1>4
<1> HIDE DEF M
<1>6. SubSeq(c, 1, n) = Jpegs(L, M)
  <2>1. 0 <= n /\ L = L + 0 /\ 0 \in Nat
    BY <1>2, <1>5
  <2>2. Bytes(Jpegs(L, F), 0, n) = Jpegs(L, M)
    BY <1>2, <1>3, <1>5, <2>1, JpegsPart
  <2>3. QED BY <1>2, <2>2 DEF Bytes
<1>7. d = Jpegs(M, F)
  <2> DEFINE k == F - L
  <2>1. k \in Nat /\ n <= k /\ k <= F - L /\ F = L + k /\ k = Len(c)
    BY <1>2, <1>3, <1>4, <1>5
  <2> HIDE DEF k
  <2>2. Bytes(Jpegs(L, F), n, k) = Jpegs(M, F)
    BY <1>2, <1>3, <1>5, <2>1, JpegsPart
  <2>3. QED BY <1>2, <2>1, <2>2 DEF Bytes, d
<1>8. PICK b, more : TurnedTo(a, M, pushed, b, more)
  <2> DEFINE all == r.buffer \o SubSeq(c, 1, n)
  <2>1. pushed = CutBy(all)[Turns(all)]
    BY DEF PushJpeg
  <2>2. all = Jpegs(a, M)
    <3>1. r.buffer = Jpegs(a, L)
      BY <1>2
    <3>2. Jpegs(a, L) \o Jpegs(L, M) = Jpegs(a, M)
      BY <1>2, <1>5, JpegsJoin
    <3>3. QED BY <1>6, <3>1, <3>2
  <2> HIDE DEF all
  <2>3. \E b, more : TurnedTo(a, M, CutBy(all)[Turns(all)], b, more)
    BY <1>2, <1>5, <2>2, PushJpegIs
  <2>4. QED BY <2>1, <2>3
<1> DEFINE pics == pushed.pictures
           all == nums \o more
           m == Len(s)
<1>9. b \in Nat /\ a <= b /\ b <= M /\ pushed.rest = Jpegs(b, M) /\ CutOut(a, b, pics, more)
  BY <1>8 DEF TurnedTo
<1>10. m \in Nat /\ Len(nums) = m
  <2>1. Len(u) = 0
    OBVIOUS
  <2>2. m \in Nat
    BY <1>2, LenProperties
  <2>3. QED BY <1>2, <2>1, <2>2
<1>11. v = [i \in DOMAIN pics |-> JpegUnit(pics[i])]
  BY DEF v, JpegUnitsOf
<1> HIDE DEF pics, m
<1>12. /\ Ascending(all, b) /\ Len(all) = m + Len(more) /\ Len(more) \in Nat
       /\ \A i \in 1..m : all[i] = nums[i]
       /\ \A i \in 1..Len(more) : all[m + i] = more[i]
       /\ \A i \in 1..Len(more) : more[i] \in Nat /\ pics[i] = JpegOf(more[i])
       /\ Len(pics) = Len(more) /\ pics \in Seq(Seq(Nat))
  <2>1. /\ Ascending(all, b) /\ Len(all) = Len(nums) + Len(more) /\ Len(more) \in Nat
        /\ \A i \in 1..Len(nums) : all[i] = nums[i]
        /\ \A i \in 1..Len(more) : all[Len(nums) + i] = more[i]
        /\ \A i \in 1..Len(more) : more[i] \in Nat /\ pics[i] = JpegOf(more[i])
        /\ Len(pics) = Len(more) /\ pics \in Seq(Seq(Nat))
    <3>1. /\ Ascending(nums, a) /\ CutOut(a, b, pics, more) /\ a \in Nat /\ b \in Nat /\ a <= b
      BY <1>2, <1>9
    <3>2. QED BY ONLY <3>1, NumbersJoin
  <2> HIDE DEF all
  <2>2. QED BY <1>10, <2>1
<1> HIDE DEF all
<1> DEFINE k == Len(more)
<1>13. DOMAIN pics = 1..k
  BY <1>12, LenProperties
<1>14. \A i \in 1..k : v[i] = JpegUnit(JpegOf(more[i])) /\ JpegUnit(JpegOf(more[i])) \in Unit
  BY <1>11, <1>12, <1>13, JpegUnitIs
<1>15. v \in Seq(Unit) /\ Len(v) = k
  <2>1. v \in [1..k -> Unit]
    <3> HIDE DEF k
    <3>1. v = [i \in 1..k |-> JpegUnit(pics[i])]
      BY <1>11, <1>13
    <3>2. \A i \in 1..k : JpegUnit(pics[i]) \in Unit
      BY <1>14, <3>1
    <3>3. QED BY <3>1, <3>2
  <2>2. k \in Nat
    BY <1>12
  <2> HIDE DEF k
  <2>3. QED BY <2>1, <2>2, SeqDef, LenProperties
<1> HIDE DEF k
<1>16. q = [buffer |-> Jpegs(b, M), nals |-> <<>>, scanFrom |-> 0]
  BY <1>2, <1>9
<1> HIDE DEF q
<1>17. JpegAt(E, s, d, q, v, b, M, all)
  <2>1. Len(all) = Len(s) + Len(v)
    BY <1>12, <1>15 DEF k, m
  <2>2. \A i \in 1..Len(s) : s[i].data = JpegOf(all[i])
    BY <1>2, <1>12 DEF m
  <2>3. \A i \in 1..Len(v) : v[i] = JpegUnit(JpegOf(all[Len(s) + i]))
    BY <1>12, <1>14, <1>15 DEF m, k
  <2>4. E \in Nat /\ b \in Nat /\ M \in Nat /\ b <= M /\ M <= 7 * E /\ d = Jpegs(M, 7 * E)
    BY <1>2, <1>5, <1>7, <1>9 DEF F
  <2>5. QED BY <1>2, <1>12, <1>15, <1>16, <2>1, <2>2, <2>3, <2>4 DEF JpegAt
<1>18. JpegRight(e, s, d, q, v, w)
  BY <1>17 DEF JpegRight, E
<1>19. QED BY <1>18 DEF d, q, v

\* JpegShown for any sequence of frames.
JpegShownIn(s, kinds) ==
    \E which \in [DOMAIN s -> DOMAIN kinds] : \A i \in DOMAIN s :
        s[i].data = Coded("key", which[i]) /\ (i > 1 => which[i - 1] < which[i])

\* So what it sent are whole pictures in the order of the encoder.
LEMMA JpegShows ==
    ASSUME NEW e, NEW s, NEW c, NEW r, NEW u, NEW w, JpegRight(e, s, c, r, u, w)
    PROVE  JpegShownIn(s, e[1])
<1> DEFINE E == Len(e[1])
           m == Len(s)
<1>1. PICK a, L, nums : JpegAt(E, s, c, r, u, a, L, nums)
  BY DEF JpegRight
<1>2. e[1] \in Seq(Kind) /\ encoder = "jpeg"
  <2>1. e \in Seq(Seq(Kind)) /\ Len(e) = 1
    BY DEF JpegRight
  <2>2. 1 \in 1..Len(e)
    BY <2>1
  <2>3. e[1] \in Seq(Kind)
    BY <2>1, <2>2, ElementOfSeq
  <2>4. QED BY <2>3 DEF JpegRight
<1>3. DOMAIN e[1] = 1..E /\ E \in Nat
  BY <1>2, LenProperties
<1>4. /\ a \in Nat /\ L \in Nat /\ a <= L /\ L <= 7 * E
      /\ nums \in Seq(Nat) /\ s \in Seq(Frame) /\ u \in Seq(Unit) /\ Len(nums) = m + Len(u)
      /\ \A i \in 1..m : s[i].data = JpegOf(nums[i])
      /\ \A i \in 1..Len(nums) : 1 <= nums[i] /\ 7 * nums[i] <= a
      /\ \A i \in 2..Len(nums) : nums[i - 1] < nums[i]
  BY <1>1 DEF JpegAt, Ascending
<1> HIDE DEF E, m, Frame, Unit
<1>5. m \in Nat /\ DOMAIN s = 1..m /\ Len(u) \in Nat
  BY <1>4, LenProperties DEF m
<1>6. \A i \in 1..m : i \in 1..Len(nums) /\ nums[i] \in Nat /\ nums[i] \in 1..E
  <2> SUFFICES ASSUME NEW i \in 1..m PROVE i \in 1..Len(nums) /\ nums[i] \in Nat /\ nums[i] \in 1..E
    OBVIOUS
  <2>1. i \in 1..Len(nums)
    BY <1>4, <1>5
  <2>2. nums[i] \in Nat
    BY <1>4, <2>1, ElementOfSeq
  <2>3. 1 <= nums[i] /\ 7 * nums[i] <= a
    BY <1>4, <2>1
  <2> DEFINE x == nums[i]
  <2>4. x \in Nat /\ 1 <= x /\ 7 * x <= a
    BY <2>2, <2>3
  <2> HIDE DEF x
  <2>5. x \in 1..E
    BY <1>3, <1>4, <2>4
  <2>6. QED BY <2>1, <2>2, <2>5 DEF x
<1> DEFINE which == [i \in DOMAIN s |-> nums[i]]
<1>7. which \in [DOMAIN s -> DOMAIN e[1]]
  BY <1>3, <1>5, <1>6
<1>8. \A i \in 1..m : which[i] = nums[i]
  BY <1>5
<1> HIDE DEF which
<1>9. ASSUME NEW i \in DOMAIN s
      PROVE  s[i].data = Coded("key", which[i]) /\ (i > 1 => which[i - 1] < which[i])
  <2>1. i \in 1..m
    BY <1>5
  <2>2. Coded("key", nums[i]) = JpegOf(nums[i])
    BY <1>2, <1>6, <2>1, JpegCoded
  <2>3. i > 1 => i - 1 \in 1..m /\ i \in 2..Len(nums)
    BY <1>5, <1>6, <2>1
  <2>4. QED BY <1>4, <1>8, <2>1, <2>2, <2>3
<1>10. QED BY <1>7, <1>9 DEF JpegShownIn

\* The types of what it has.
LEMMA JpegTypes ==
    ASSUME NEW e, NEW s, NEW c, NEW r, NEW u, NEW w, JpegRight(e, s, c, r, u, w)
    PROVE  /\ e \in Seq(Seq(Kind)) /\ Len(e) = 1 /\ c \in Seq(Nat) /\ u \in Seq(Unit)
           /\ r \in [buffer : Seq(Nat), scanFrom : Nat, nals : Seq(Nal)]
           /\ \A i \in DOMAIN u : u[i].keyFrame = FALSE /\ u[i].parameterSets = <<>>
           /\ ~w
<1> DEFINE E == Len(e[1])
           F == 7 * E
<1>1. PICK a, L, nums : JpegAt(E, s, c, r, u, a, L, nums)
  BY DEF JpegRight
<1>2. /\ E \in Nat /\ a \in Nat /\ L \in Nat /\ a <= L /\ L <= F
      /\ r = [buffer |-> Jpegs(a, L), nals |-> <<>>, scanFrom |-> 0]
      /\ c = Jpegs(L, F) /\ u \in Seq(Unit)
      /\ \A i \in 1..Len(u) : u[i] = JpegUnit(JpegOf(nums[Len(s) + i]))
  BY <1>1 DEF JpegAt
<1>3. F \in Nat
  BY <1>2
<1> HIDE DEF E, F, Unit
<1>4. c \in Seq(Nat)
  BY <1>2, <1>3, JpegsAre
<1>5. r \in [buffer : Seq(Nat), scanFrom : Nat, nals : Seq(Nal)]
  <2>1. Jpegs(a, L) \in Seq(Nat) /\ <<>> \in Seq(Nal) /\ 0 \in Nat
    BY <1>2, JpegsAre, EmptySeq
  <2>2. QED BY <1>2, <2>1
<1>6. \A i \in DOMAIN u : u[i].keyFrame = FALSE /\ u[i].parameterSets = <<>>
  <2> SUFFICES ASSUME NEW i \in DOMAIN u PROVE u[i].keyFrame = FALSE /\ u[i].parameterSets = <<>>
    OBVIOUS
  <2>1. i \in 1..Len(u)
    BY <1>2, LenProperties
  <2>2. u[i] = JpegUnit(JpegOf(nums[Len(s) + i]))
    BY <1>2, <2>1
  <2>3. QED BY <2>2 DEF JpegUnit
<1>7. QED BY <1>2, <1>4, <1>5, <1>6 DEF JpegRight

-----------------------------------------------------------------------------
(* Either pump *)

\* What the pump stands for does not change while the encoder is the same.
PumpRight(e, s, c, r, u, w) ==
    /\ encoder \in Encoder
    /\ IF IsH264 THEN H264Right(e, s, c, r, u, w) ELSE JpegRight(e, s, c, r, u, w)

\* So it may be carried over a step.
LEMMA SameEncoder ==
    ASSUME encoder' = encoder, NEW e, NEW s, NEW c, NEW r, NEW u, NEW w
    PROVE  PumpRight(e, s, c, r, u, w)' <=> PumpRight(e, s, c, r, u, w)
<1>1. \A kind, n : Coded(kind, n)' = Coded(kind, n)
  BY DEF Coded
<1>2. \A kind, n : BlocksOf(kind, n)' = BlocksOf(kind, n)
  BY DEF BlocksOf
<1>3. \A kind, n : UnitOf(kind, n)' = UnitOf(kind, n)
  BY <1>1 DEF UnitOf
<1>4. \A kinds, p, k : UnitsOf(kinds, p, k)' = UnitsOf(kinds, p, k)
  BY <1>3 DEF UnitsOf
<1>5. \A B, kinds, at : Laid(B, kinds, at)' <=> Laid(B, kinds, at)
  BY <1>2 DEF Laid
<1>6. \A B, kinds, at, k, L : Inside(B, kinds, at, k, L)' <=> Inside(B, kinds, at, k, L)
  BY <1>5 DEF Inside
<1>7. \A run, kinds, which : ConsecutiveIn(s, run, kinds, which)' <=> ConsecutiveIn(s, run, kinds, which)
  BY <1>1 DEF ConsecutiveIn
<1>8. \A run, kinds, p : ShownTo(s, run, kinds, p)' <=> ShownTo(s, run, kinds, p)
  BY <1>7 DEF ShownTo
<1>9. \A run, kinds : ShownRight(s, run, kinds)' <=> ShownRight(s, run, kinds)
  BY <1>7 DEF ShownRight
<1>10. \A B, at, k, L, p, kinds, run :
         Stands(B, at, k, L, p, kinds, run, s, c, r, u, w)' <=> Stands(B, at, k, L, p, kinds, run, s, c, r, u, w)
  BY <1>4, <1>6, <1>8 DEF Stands
<1>11. H264Right(e, s, c, r, u, w)' <=> H264Right(e, s, c, r, u, w)
  BY <1>9, <1>10 DEF H264Right
<1>12. JpegRight(e, s, c, r, u, w)' <=> JpegRight(e, s, c, r, u, w)
  BY DEF JpegRight
<1>13. QED BY <1>11, <1>12 DEF PumpRight, IsH264

\* Parameter sets stand right ahead of every key frame.
Preceded(s) ==
    \A i \in DOMAIN s :
        s[i].keyFrame => /\ i > 1 /\ s[i - 1].config
                         /\ s[i - 1].run = s[i].run
                         /\ s[i - 1].data = ParameterSets

\* What holds of the frames sent while encoder number run is the last one.
SentRight(s, run) ==
    /\ s \in Seq(Frame) /\ Preceded(s)
    /\ \A i \in 1..Len(s) : s[i].seq = i - 1 /\ s[i].run <= run

\* The two frames of a key frame.
ConfigOf(unit, run, n) ==
    [run |-> run, seq |-> n, config |-> TRUE, keyFrame |-> FALSE, data |-> unit.parameterSets]
PictureOf(unit, run, n) ==
    [run |-> run, seq |-> n, config |-> FALSE, keyFrame |-> unit.keyFrame, data |-> unit.data]

\* What is sent for a unit are frames.
LEMMA FrameIs ==
    ASSUME NEW unit \in Unit, NEW run \in 1..MaxRuns, NEW n \in Nat
    PROVE  ConfigOf(unit, run, n) \in Frame /\ PictureOf(unit, run, n) \in Frame
  BY DEF ConfigOf, PictureOf, Unit, Frame

\* The parameter sets of a key frame are never empty.
LEMMA SetsAreThere == ParameterSets # <<>>
<1>1. SPS \in Seq(Nat) /\ Len(SPS) = 6 /\ PPS \in Seq(Nat)
  BY UnitsAreBlocks DEF SPS, PPS
<1>2. Len(SPS \o PPS) = Len(SPS) + Len(PPS) /\ Len(PPS) \in Nat
  BY <1>1, Joined
<1> DEFINE n == Len(PPS)
<1> HIDE DEF n
<1>3. Len(SPS \o PPS) = 6 + n /\ n \in Nat
  BY <1>1, <1>2 DEF n
<1>4. Len(ParameterSets) = 6 + n
  BY <1>3 DEF ParameterSets, SPS, PPS
<1>5. Len(<<>>) = 0
  OBVIOUS
<1>6. QED BY <1>3, <1>4, <1>5

\* One more frame.
LEMMA SentMore ==
    ASSUME NEW s, NEW run \in Nat, SentRight(s, run), NEW f \in Frame, f.seq = Len(s), f.run = run,
           f.keyFrame => /\ Len(s) > 0 /\ s[Len(s)].config /\ s[Len(s)].run = run
                         /\ s[Len(s)].data = ParameterSets
    PROVE  SentRight(Append(s, f), run) /\ Len(Append(s, f)) = Len(s) + 1
<1> DEFINE t == Append(s, f)
           n == Len(s)
<1>1. s \in Seq(Frame)
  BY DEF SentRight
<1> HIDE DEF Frame
<1>2. /\ t \in Seq(Frame) /\ n \in Nat /\ Len(t) = n + 1
      /\ DOMAIN s = 1..n /\ DOMAIN t = 1..n + 1
      /\ \A i \in 1..n : t[i] = s[i]
      /\ t[n + 1] = f
  BY <1>1, AppendedIs
<1> HIDE DEF t, n
<1>3. \A i \in 1..n : s[i].seq = i - 1 /\ s[i].run <= run
  BY DEF SentRight, n
<1>4. \A i \in 1..n + 1 : i \in 1..n \/ i = n + 1
  BY <1>2
<1>5. \A i \in 1..n + 1 : t[i].seq = i - 1 /\ t[i].run <= run
  <2> SUFFICES ASSUME NEW i \in 1..n + 1 PROVE t[i].seq = i - 1 /\ t[i].run <= run
    OBVIOUS
  <2>1. CASE i \in 1..n
    BY <1>2, <1>3, <2>1
  <2>2. CASE i = n + 1
    <3>1. f.seq = n /\ (n + 1) - 1 = n /\ run <= run
      BY <1>2 DEF n
    <3>2. QED BY <1>2, <2>2, <3>1
  <2>3. QED BY <1>4, <2>1, <2>2
<1>6. Preceded(t)
  <2> SUFFICES ASSUME NEW i \in 1..n + 1, t[i].keyFrame
               PROVE  /\ i > 1 /\ t[i - 1].config
                      /\ t[i - 1].run = t[i].run
                      /\ t[i - 1].data = ParameterSets
    BY <1>2 DEF Preceded
  <2>1. CASE i \in 1..n
    <3>1. t[i] = s[i] /\ i \in DOMAIN s
      BY <1>2, <2>1
    <3>2. /\ i > 1 /\ s[i - 1].config
          /\ s[i - 1].run = s[i].run
          /\ s[i - 1].data = ParameterSets
      BY <3>1 DEF SentRight, Preceded
    <3>3. i - 1 \in 1..n
      BY <1>2, <2>1, <3>2
    <3>4. QED BY <1>2, <3>1, <3>2, <3>3
  <2>2. CASE i = n + 1
    <3>1. t[i] = f /\ i - 1 = n
      BY <1>2, <2>2
    <3>2. n > 0 /\ s[n].config /\ s[n].run = run /\ s[n].data = ParameterSets
      BY <3>1 DEF n
    <3>3. n \in 1..n
      BY <1>2, <3>2
    <3>4. i > 1
      BY <1>2, <2>2, <3>2
    <3>5. QED BY <1>2, <3>1, <3>2, <3>3, <3>4
  <2>3. QED BY <1>4, <2>1, <2>2
<1>7. SentRight(t, run) /\ Len(t) = n + 1
  BY <1>2, <1>5, <1>6 DEF SentRight
<1>8. QED BY <1>7 DEF t, n

\* The frames of a picture, one by one.
LEMMA FramesAre ==
    ASSUME NEW unit \in Unit, Run \in 1..MaxRuns, frames \in Nat, NEW s \in Seq(Frame)
    PROVE  LET config == ConfigOf(unit, Run, frames)
               out == FramesOf(unit)
           IN  /\ unit.parameterSets = <<>> =>
                     /\ s \o out = Append(s, PictureOf(unit, Run, frames)) /\ Len(out) = 1
                     /\ \A n \in 0..Len(out) - 1 : n = 0 /\ s \o SubSeq(out, 1, n) = s
               /\ unit.parameterSets # <<>> =>
                     /\ s \o out = Append(Append(s, config), PictureOf(unit, Run, frames + 1))
                     /\ Len(out) = 2
                     /\ \A n \in 0..Len(out) - 1 :
                           \/ n = 0 /\ s \o SubSeq(out, 1, n) = s
                           \/ n = 1 /\ s \o SubSeq(out, 1, n) = Append(s, config)
<1> DEFINE c == ConfigOf(unit, Run, frames)
           p == PictureOf(unit, Run, frames)
           q == PictureOf(unit, Run, frames + 1)
           out == FramesOf(unit)
<1>1. c \in Frame /\ p \in Frame /\ q \in Frame
  <2> DEFINE m == frames + 1
  <2>1. m \in Nat
    OBVIOUS
  <2> HIDE DEF m
  <2>2. PictureOf(unit, Run, m) \in Frame
    BY <2>1, FrameIs
  <2>3. QED BY <2>2, FrameIs DEF m
<1>2. frames + 0 = frames
  OBVIOUS
<1>3. out = IF unit.parameterSets = <<>> THEN <<>> \o <<p>> ELSE <<c>> \o <<q>>
  BY <1>2 DEF FramesOf, ConfigOf, PictureOf
<1> HIDE DEF c, p, q, out, Frame, Unit
<1>4. /\ <<p>> \in Seq(Frame) /\ <<c>> \in Seq(Frame) /\ <<q>> \in Seq(Frame)
      /\ Len(<<p>>) = 1 /\ Len(<<c>>) = 1 /\ Len(<<q>>) = 1 /\ <<c>>[1] = c
  BY <1>1
<1>5. SubSeq(out, 1, 0) = <<>> /\ s \o <<>> = s
  BY SubSeqEmpty, ConcatEmptySeq
<1>6. CASE unit.parameterSets = <<>>
  <2>1. out = <<p>>
    BY <1>3, <1>4, <1>6, ConcatEmptySeq
  <2>2. s \o out = Append(s, p)
    BY <1>1, <2>1, OneMore
  <2>3. Len(out) = 1 /\ \A n \in 0..Len(out) - 1 : n = 0
    BY <1>4, <2>1
  <2>4. \A n \in 0..Len(out) - 1 : n = 0 /\ s \o SubSeq(out, 1, n) = s
    BY <1>5, <2>3
  <2>5. QED BY <1>6, <2>2, <2>3, <2>4 DEF out, p
<1>7. CASE unit.parameterSets # <<>>
  <2>1. out = <<c>> \o <<q>>
    BY <1>3, <1>7
  <2>2. s \o out = (s \o <<c>>) \o <<q>>
    BY <1>4, <2>1, ConcatAssociative
  <2>3. s \o <<c>> = Append(s, c) /\ Append(s, c) \in Seq(Frame)
    BY <1>1, OneMore
  <2>4. s \o out = Append(Append(s, c), q)
    <3> DEFINE t == Append(s, c)
    <3>1. t \in Seq(Frame)
      BY <2>3
    <3> HIDE DEF t
    <3>2. t \o <<q>> = Append(t, q)
      BY <1>1, <3>1, OneMore
    <3>3. QED BY <2>2, <2>3, <3>2 DEF t
  <2>5. out \in Seq(Frame) /\ Len(out) = 2 /\ out[1] = c
    <3>1. /\ out \in Seq(Frame) /\ Len(out) = Len(<<c>>) + Len(<<q>>)
          /\ \A i \in 1..Len(<<c>>) + Len(<<q>>) : out[i] = IF i <= Len(<<c>>) THEN <<c>>[i] ELSE <<q>>[i - Len(<<c>>)]
      BY <1>4, <2>1, ConcatProperties
    <3>2. QED BY <1>4, <3>1
  <2>6. SubSeq(out, 1, 1) = <<c>>
    <3> DEFINE x == SubSeq(out, 1, 1)
               y == <<c>>
    <3>1. \A i \in 1..1 : out[i] \in Frame
      BY <1>1, <2>5
    <3>2. x \in Seq(Frame) /\ Len(x) = 1 /\ x[1] = c
      <4>1. /\ x \in Seq(Frame) /\ Len(x) = IF 1 <= 1 THEN 1 - 1 + 1 ELSE 0
            /\ \A i \in 1..1 - 1 + 1 : x[i] = out[1 + i - 1]
        BY <3>1, SubSeqProperties
      <4>2. 1 \in 1..1 - 1 + 1 /\ 1 + 1 - 1 = 1
        OBVIOUS
      <4> HIDE DEF x
      <4>3. QED BY <2>5, <4>1, <4>2
    <3>3. y \in Seq(Frame) /\ Len(y) = 1 /\ y[1] = c
      BY <1>4
    <3> HIDE DEF x, y
    <3>4. \A i \in 1..Len(x) : x[i] = y[i]
      BY <3>2, <3>3
    <3>5. x = y
      BY <3>2, <3>3, <3>4, SeqEqual
    <3>6. QED BY <3>5 DEF x, y
  <2>7. \A n \in 0..Len(out) - 1 : n = 0 \/ n = 1
    BY <2>5
  <2>8. \A n \in 0..Len(out) - 1 : \/ n = 0 /\ s \o SubSeq(out, 1, n) = s
                                   \/ n = 1 /\ s \o SubSeq(out, 1, n) = Append(s, c)
    BY <1>5, <2>3, <2>6, <2>7
  <2>9. QED BY <1>7, <2>4, <2>5, <2>8 DEF out, c, q
<1>8. QED BY <1>6, <1>7

\* The types of what either pump has, and what its units carry.
LEMMA PumpTypes ==
    ASSUME NEW e, NEW s, NEW c, NEW r, NEW u, NEW w, PumpRight(e, s, c, r, u, w)
    PROVE  /\ e \in Seq(Seq(Kind)) /\ Len(e) > 0 /\ c \in Seq(Nat) /\ u \in Seq(Unit)
           /\ r \in [buffer : Seq(Nat), scanFrom : Nat, nals : Seq(Nal)]
           /\ \A i \in DOMAIN u : u[i].keyFrame => u[i].parameterSets = ParameterSets
           /\ ~IsH264 => /\ Len(e) = 1 /\ ~w
                         /\ \A i \in DOMAIN u : u[i].parameterSets = <<>>
<1> HIDE DEF Unit, Nal, Kind
<1>1. CASE IsH264
  <2>1. H264Right(e, s, c, r, u, w)
    BY <1>1 DEF PumpRight
  <2>2. /\ e \in Seq(Seq(Kind)) /\ c \in Seq(Nat) /\ u \in Seq(Unit)
        /\ r \in [buffer : Seq(Nat), scanFrom : Nat, nals : Seq(Nal)]
        /\ \A i \in DOMAIN u : \E n : \E kind \in Kind : u[i] = UnitOf(kind, n)
    BY <2>1, RightTypes
  <2>3. Len(e) > 0
    BY <2>1 DEF H264Right
  <2>4. \A i \in DOMAIN u : u[i].keyFrame => u[i].parameterSets = ParameterSets
    <3> SUFFICES ASSUME NEW i \in DOMAIN u PROVE u[i].keyFrame => u[i].parameterSets = ParameterSets
      OBVIOUS
    <3>1. PICK n, kind : u[i] = UnitOf(kind, n)
      BY <2>2
    <3>2. /\ u[i].keyFrame = (kind = "key")
          /\ u[i].parameterSets = IF kind = "key" THEN ParameterSets ELSE <<>>
      BY <3>1 DEF UnitOf
    <3>3. QED BY <3>2
  <2>5. QED BY <1>1, <2>2, <2>3, <2>4
<1>2. CASE ~IsH264
  <2>1. JpegRight(e, s, c, r, u, w)
    BY <1>2 DEF PumpRight
  <2>2. /\ e \in Seq(Seq(Kind)) /\ Len(e) = 1 /\ c \in Seq(Nat) /\ u \in Seq(Unit)
        /\ r \in [buffer : Seq(Nat), scanFrom : Nat, nals : Seq(Nal)]
        /\ \A i \in DOMAIN u : u[i].keyFrame = FALSE /\ u[i].parameterSets = <<>>
        /\ ~w
    BY <2>1, JpegTypes
  <2>3. Len(e) > 0
    BY <2>2
  <2>4. QED BY <2>2, <2>3
<1>3. QED BY <1>1, <1>2

\* Either pump forwards a picture.
LEMMA PumpSend ==
    ASSUME NEW e, NEW s, NEW c, NEW r, NEW u, NEW w, PumpRight(e, s, c, r, u, w), u # <<>>,
           s \in Seq(Frame), w => Head(u).keyFrame,
           NEW f \in Frame, f.run = Len(e), ~f.config, f.data = Head(u).data
    PROVE  PumpRight(e, Append(s, f), c, r, Tail(u), FALSE)
<1> HIDE DEF Frame
<1>1. CASE IsH264
  <2>1. H264Right(e, s, c, r, u, w)
    BY <1>1 DEF PumpRight
  <2>2. H264Right(e, Append(s, f), c, r, Tail(u), FALSE)
    BY <2>1, RightSend
  <2>3. QED BY <1>1, <2>2 DEF PumpRight
<1>2. CASE ~IsH264
  <2>1. JpegRight(e, s, c, r, u, w)
    BY <1>2 DEF PumpRight
  <2>2. JpegRight(e, Append(s, f), c, r, Tail(u), w)
    BY <2>1, JpegSend
  <2>3. JpegRight(e, Append(s, f), c, r, Tail(u), FALSE)
    BY <2>2 DEF JpegRight
  <2>4. QED BY <1>2, <2>3 DEF PumpRight
<1>3. QED BY <1>1, <1>2

\* The H.264 pump forwards parameter sets.
LEMMA PumpConfig ==
    ASSUME NEW e, NEW s, NEW c, NEW r, NEW u, NEW w, PumpRight(e, s, c, r, u, w), IsH264,
           s \in Seq(Frame), NEW f \in Frame, f.config
    PROVE  PumpRight(e, Append(s, f), c, r, u, w)
<1> HIDE DEF Frame
<1>1. H264Right(e, s, c, r, u, w)
  BY DEF PumpRight
<1>2. H264Right(e, Append(s, f), c, r, u, w)
  BY <1>1, RightConfig
<1>3. QED BY <1>2 DEF PumpRight

\* What goes out for the first picture, in full or up to a failed write.
LEMMA PumpForwards ==
    ASSUME PumpRight(encoded, sent, pipe, reader, units, waiting), SentRight(sent, Run),
           Run \in 1..MaxRuns, frames = Len(sent), units # <<>>, waiting => Head(units).keyFrame
    PROVE  LET out == FramesOf(Head(units))
               t == sent \o out
           IN  /\ PumpRight(encoded, t, pipe, reader, Tail(units), FALSE)
               /\ SentRight(t, Run) /\ Len(t) = frames + Len(out)
               /\ \A n \in 0..Len(out) - 1 :
                     /\ PumpRight(encoded, sent \o SubSeq(out, 1, n), pipe, reader, units, waiting)
                     /\ SentRight(sent \o SubSeq(out, 1, n), Run)
                     /\ Len(sent \o SubSeq(out, 1, n)) = frames + n
<1> DEFINE out == FramesOf(Head(units))
           unit == Head(units)
           sets == ConfigOf(unit, Run, frames)
           last == PictureOf(unit, Run, frames)
           next == PictureOf(unit, Run, frames + 1)
           more == Append(sent, sets)
<1> HIDE DEF Unit, Frame, Nal, Kind
<1>1. sent \in Seq(Frame) /\ frames \in Nat /\ Run \in Nat
  BY BoundAssumption, LenProperties DEF SentRight
<1>2. /\ units \in Seq(Unit) /\ unit \in Unit
      /\ unit.keyFrame => unit.parameterSets = ParameterSets
      /\ unit.parameterSets # <<>> => IsH264
  <2>1. /\ units \in Seq(Unit)
        /\ \A i \in DOMAIN units : units[i].keyFrame => units[i].parameterSets = ParameterSets
        /\ ~IsH264 => \A i \in DOMAIN units : units[i].parameterSets = <<>>
    BY PumpTypes
  <2>2. unit \in Unit /\ unit = units[1] /\ 1 \in DOMAIN units
    <3>1. Len(units) \in Nat \ {0} /\ DOMAIN units = 1..Len(units)
      BY <2>1, EmptySeq, LenProperties
    <3>2. unit = units[1] /\ unit \in Unit
      BY <2>1, HeadTailProperties
    <3>3. 1 \in DOMAIN units
      BY <3>1
    <3>4. QED BY <3>2, <3>3
  <2>3. QED BY <2>1, <2>2
<1>3. sets \in Frame /\ last \in Frame /\ next \in Frame
  <2> DEFINE m == frames + 1
  <2>1. m \in Nat
    BY <1>1
  <2> HIDE DEF m, unit
  <2>2. PictureOf(unit, Run, m) \in Frame
    BY <1>2, <2>1, FrameIs
  <2>3. ConfigOf(unit, Run, frames) \in Frame /\ PictureOf(unit, Run, frames) \in Frame
    BY <1>1, <1>2, FrameIs
  <2>4. QED BY <2>2, <2>3 DEF m
<1> HIDE DEF unit
<1>4. /\ unit.parameterSets = <<>> =>
            /\ sent \o out = Append(sent, last) /\ Len(out) = 1
            /\ \A n \in 0..Len(out) - 1 : n = 0 /\ sent \o SubSeq(out, 1, n) = sent
      /\ unit.parameterSets # <<>> =>
            /\ sent \o out = Append(more, next)
            /\ Len(out) = 2
            /\ \A n \in 0..Len(out) - 1 :
                  \/ n = 0 /\ sent \o SubSeq(out, 1, n) = sent
                  \/ n = 1 /\ sent \o SubSeq(out, 1, n) = more
  <2>1. out = FramesOf(unit)
    BY DEF unit
  <2> HIDE DEF out
  <2>2. QED BY <1>1, <1>2, <2>1, FramesAre
<1>5. /\ sets.run = Run /\ sets.seq = frames /\ sets.config /\ sets.keyFrame = FALSE
      /\ sets.data = unit.parameterSets
      /\ last.run = Run /\ last.seq = frames /\ ~last.config /\ last.keyFrame = unit.keyFrame
      /\ last.data = unit.data
      /\ next.run = Run /\ next.seq = frames + 1 /\ ~next.config /\ next.keyFrame = unit.keyFrame
      /\ next.data = unit.data
  BY DEF ConfigOf, PictureOf
<1> HIDE DEF out, sets, last, next, more
<1>6. CASE unit.parameterSets = <<>>
  <2>1. ~unit.keyFrame
    BY <1>2, <1>6, SetsAreThere
  <2>2. SentRight(Append(sent, last), Run) /\ Len(Append(sent, last)) = Len(sent) + 1
    BY <1>1, <1>3, <1>5, <2>1, SentMore
  <2>3. PumpRight(encoded, Append(sent, last), pipe, reader, Tail(units), FALSE)
    BY <1>1, <1>3, <1>5, PumpSend DEF unit, Run
  <2>4. frames + 0 = frames
    BY <1>1
  <2>5. QED BY <1>4, <1>6, <2>2, <2>3, <2>4 DEF out, unit
<1>7. CASE unit.parameterSets # <<>>
  <2>1. IsH264
    BY <1>2, <1>7
  <2>2. SentRight(more, Run) /\ Len(more) = frames + 1
    <3>1. SentRight(Append(sent, sets), Run) /\ Len(Append(sent, sets)) = Len(sent) + 1
      BY <1>1, <1>3, <1>5, SentMore
    <3>2. QED BY <3>1 DEF more
  <2>3. PumpRight(encoded, more, pipe, reader, units, waiting)
    <3>1. PumpRight(encoded, Append(sent, sets), pipe, reader, units, waiting)
      BY <1>1, <1>3, <1>5, <2>1, PumpConfig
    <3>2. QED BY <3>1 DEF more
  <2>4. more \in Seq(Frame)
    BY <2>2 DEF SentRight
  <2>5. more[frames + 1] = sets
    <3>1. Append(sent, sets)[Len(sent) + 1] = sets
      BY <1>1, <1>3, OneMore
    <3>2. QED BY <3>1 DEF more
  <2>6. SentRight(Append(more, next), Run) /\ Len(Append(more, next)) = Len(more) + 1
    <3>1. /\ next.seq = Len(more) /\ next.run = Run
          /\ next.keyFrame => /\ Len(more) > 0 /\ more[Len(more)].config /\ more[Len(more)].run = Run
                              /\ more[Len(more)].data = ParameterSets
      BY <1>1, <1>2, <1>5, <2>2, <2>5
    <3>2. QED BY <1>1, <1>3, <2>2, <3>1, SentMore
  <2>7. PumpRight(encoded, Append(more, next), pipe, reader, Tail(units), FALSE)
    BY <1>3, <1>5, <2>3, <2>4, PumpSend DEF unit, Run
  <2>8. Len(Append(more, next)) = frames + 2 /\ frames + 0 = frames
    BY <1>1, <2>2, <2>6
  <2>9. QED BY <1>4, <1>7, <2>2, <2>3, <2>6, <2>7, <2>8 DEF out, unit
<1>8. QED BY <1>6, <1>7

\* Where the pump stands is carried over a step that ends there.
LEMMA PumpStep ==
    ASSUME encoder' = encoder, PumpRight(encoded', sent', pipe', reader', units', waiting')
    PROVE  PumpRight(encoded, sent, pipe, reader, units, waiting)'
<1>1. \A e, s, c, r, u, w : PumpRight(e, s, c, r, u, w) => PumpRight(e, s, c, r, u, w)'
  BY SameEncoder
<1>2. QED BY <1>1

\* The pump stands somewhere in the stream of its encoder, what it sent is right and
\* numbered without a gap, and an encoder that is old has room for another.
EPInv ==
    /\ alive \in BOOLEAN /\ waiting \in BOOLEAN /\ recent \in BOOLEAN
    /\ Run \in 1..MaxRuns /\ requests \in 0..1 /\ outcome \in {"running", "finished", "failed"}
    /\ frames = Len(sent) /\ SentRight(sent, Run)
    /\ ~recent => Run < MaxRuns
    /\ PumpRight(encoded, sent, pipe, reader, units, waiting)

\* The invariant holds at first.
LEMMA EPInitInv == EPInit => EPInv
<1> SUFFICES ASSUME EPInit PROVE EPInv
  OBVIOUS
<1>1. /\ encoder \in Encoder /\ encoded = <<<<>>>> /\ pipe = <<>> /\ alive = TRUE /\ reader = NewReader
      /\ units = <<>> /\ waiting = IsH264 /\ recent = TRUE /\ requests = 0 /\ frames = 0 /\ sent = <<>>
      /\ outcome = "running"
  BY DEF EPInit
<1>2. Run \in 1..MaxRuns
  BY <1>1, BoundAssumption DEF Run
<1>3. frames = Len(sent) /\ SentRight(sent, Run)
  <2>1. sent \in Seq(Frame) /\ Len(sent) = 0 /\ DOMAIN sent = 1..0
    <3> HIDE DEF Frame
    <3>1. QED BY <1>1, EmptySeq, LenProperties
  <2>2. \A i \in 1..0 : FALSE
    OBVIOUS
  <2>3. QED BY <1>1, <2>1, <2>2 DEF SentRight, Preceded
<1>4. PumpRight(encoded, sent, pipe, reader, units, waiting)
  <2>1. CASE IsH264
    <3>1. encoder \in {"delimiting", "slicing"}
      BY <1>1, <2>1 DEF Encoder, IsH264
    <3>2. H264Right(<<<<>>>>, <<>>, <<>>, NewReader, <<>>, TRUE)
      BY <3>1, RightStarts
    <3>3. waiting = TRUE
      BY <1>1, <2>1
    <3>4. QED BY <1>1, <2>1, <3>2, <3>3 DEF PumpRight
  <2>2. CASE ~IsH264
    <3>1. encoder = "jpeg"
      BY <2>2 DEF IsH264
    <3>2. JpegRight(<<<<>>>>, <<>>, <<>>, NewReader, <<>>, FALSE)
      BY <3>1, JpegStarts
    <3>3. waiting = FALSE
      BY <1>1, <2>2
    <3>4. QED BY <1>1, <2>2, <3>2, <3>3 DEF PumpRight
  <2>3. QED BY <2>1, <2>2
<1>5. waiting \in BOOLEAN
  BY <1>1 DEF IsH264
<1>6. QED BY <1>1, <1>2, <1>3, <1>4, <1>5 DEF EPInv

\* A picture of the encoder keeps it.
LEMMA EPEncodeInv == ASSUME EPInv, NEW kind \in Kind, Encode(kind) PROVE EPInv'
<1> DEFINE x == [encoded EXCEPT ![Run] = Append(@, kind)]
           d == pipe \o Coded(kind, Len(encoded[Run]) + 1)
<1>1. /\ encoded' = x /\ pipe' = d
      /\ encoder' = encoder /\ alive' = alive /\ reader' = reader /\ units' = units /\ waiting' = waiting
      /\ recent' = recent /\ requests' = requests /\ frames' = frames /\ sent' = sent /\ outcome' = outcome
  BY DEF Encode, pumpVars
<1>2. PumpRight(encoded, sent, pipe, reader, units, waiting)
  BY DEF EPInv
<1>3. PumpRight(x, sent, d, reader, units, waiting)
  <2>1. CASE IsH264
    <3>1. H264Right(encoded, sent, pipe, reader, units, waiting)
      BY <1>2, <2>1 DEF PumpRight
    <3>2. H264Right(x, sent, d, reader, units, waiting)
      <4> HIDE DEF Kind
      <4>1. QED BY <3>1, RightEncode DEF Run
    <3>3. QED BY <1>2, <2>1, <3>2 DEF PumpRight
  <2>2. CASE ~IsH264
    <3>1. JpegRight(encoded, sent, pipe, reader, units, waiting)
      BY <1>2, <2>2 DEF PumpRight
    <3>2. JpegRight(x, sent, d, reader, units, waiting)
      <4> HIDE DEF Kind
      <4>1. QED BY <3>1, JpegEncode DEF Run
    <3>3. QED BY <1>2, <2>2, <3>2 DEF PumpRight
  <2>3. QED BY <2>1, <2>2
<1>4. Len(x) = Len(encoded)
  <2>1. encoded \in Seq(Seq(Kind)) /\ x \in Seq(Seq(Kind))
    <3> HIDE DEF x, d, Kind
    <3>1. QED BY <1>2, <1>3, PumpTypes
  <2>2. DOMAIN x = DOMAIN encoded
    OBVIOUS
  <2> HIDE DEF x
  <2>3. Len(x) \in Nat /\ Len(encoded) \in Nat /\ DOMAIN x = 1..Len(x) /\ DOMAIN encoded = 1..Len(encoded)
    BY <2>1, LenProperties
  <2> DEFINE a == Len(x)
             b == Len(encoded)
  <2>4. a \in Nat /\ b \in Nat /\ 1..a = 1..b
    BY <2>2, <2>3
  <2> HIDE DEF a, b
  <2>5. (a = 0 \/ a \in 1..a) /\ (b = 0 \/ b \in 1..b)
    BY <2>4
  <2>6. a <= b /\ b <= a
    BY <2>4, <2>5
  <2>7. a = b
    BY <2>4, <2>6
  <2>8. QED BY <2>7 DEF a, b
<1> HIDE DEF x, d
<1>5. Run' = Run
  BY <1>1, <1>4 DEF Run
<1>6. PumpRight(encoded, sent, pipe, reader, units, waiting)'
  BY <1>1, <1>3, PumpStep
<1>7. SentRight(sent, Run)'
  BY <1>1, <1>5 DEF EPInv, SentRight, Preceded
<1>8. QED BY <1>1, <1>5, <1>6, <1>7 DEF EPInv

\* A read keeps it, wherever it ends.
LEMMA EPReadInv == ASSUME EPInv, Read PROVE EPInv'
<1>1. PICK n \in 1..Len(pipe) : Take(n) /\ ReadUnits(SubSeq(pipe, 1, n))
  BY DEF Read
<1>2. /\ encoder' = encoder /\ encoded' = encoded /\ alive' = alive /\ waiting' = waiting
      /\ recent' = recent /\ requests' = requests /\ frames' = frames /\ sent' = sent /\ outcome' = outcome
      /\ units = <<>> /\ pipe' = SubSeq(pipe, n + 1, Len(pipe))
  BY <1>1 DEF Read, Take, Selecting, encoderVars
<1>3. PumpRight(encoded, sent, pipe, reader, units, waiting)
  BY DEF EPInv
<1>4. PumpRight(encoded, sent, pipe', reader', units', waiting)
  <2> DEFINE d == SubSeq(pipe, n + 1, Len(pipe))
  <2>1. CASE IsH264
    <3> DEFINE released == Push(reader, SubSeq(pipe, 1, n))
    <3>1. reader' = released.reader /\ units' = released.units
      BY <1>1, <2>1 DEF ReadUnits
    <3>2. released = Push(reader, SubSeq(pipe, 1, n)) /\ H264Right(encoded, sent, pipe, reader, units, waiting)
      BY <1>3, <2>1 DEF PumpRight
    <3> HIDE DEF released
    <3>3. H264Right(encoded, sent, d, released.reader, released.units, waiting)
      BY <1>2, <3>2, RightRead
    <3> HIDE DEF d
    <3>4. PumpRight(encoded, sent, d, released.reader, released.units, waiting)
      BY <1>3, <2>1, <3>3 DEF PumpRight
    <3>5. QED BY <1>2, <3>1, <3>4 DEF d
  <2>2. CASE ~IsH264
    <3> DEFINE pushed == PushJpeg(reader.buffer, SubSeq(pipe, 1, n))
               r == [reader EXCEPT !.buffer = pushed.rest]
               u == JpegUnitsOf(pushed.pictures)
    <3>1. reader' = r /\ units' = u
      BY <1>1, <2>2 DEF ReadUnits, JpegUnitsOf
    <3>2. /\ pushed = PushJpeg(reader.buffer, SubSeq(pipe, 1, n))
          /\ JpegRight(encoded, sent, pipe, reader, units, waiting)
      BY <1>3, <2>2 DEF PumpRight
    <3> HIDE DEF pushed
    <3>3. JpegRight(encoded, sent, d, r, u, waiting)
      BY <1>2, <3>2, JpegRead
    <3> HIDE DEF d, r, u
    <3>4. PumpRight(encoded, sent, d, r, u, waiting)
      BY <1>3, <2>2, <3>3 DEF PumpRight
    <3>5. QED BY <1>2, <3>1, <3>4 DEF d
  <2>3. QED BY <2>1, <2>2
<1>5. PumpRight(encoded, sent, pipe, reader, units, waiting)'
  BY <1>2, <1>4, PumpStep
<1>6. Run' = Run
  BY <1>2 DEF Run
<1>7. SentRight(sent, Run)'
  BY <1>2, <1>6 DEF EPInv, SentRight, Preceded
<1>8. QED BY <1>2, <1>5, <1>6, <1>7 DEF EPInv

\* A flush keeps it: the pipe is silent, so the picture is whole.
LEMMA EPFlushInv == ASSUME EPInv, Flush PROVE EPInv'
<1> DEFINE cut == FlushPending(reader)
<1>1. /\ encoder' = encoder /\ encoded' = encoded /\ pipe' = pipe /\ alive' = alive /\ waiting' = waiting
      /\ recent' = recent /\ requests' = requests /\ frames' = frames /\ sent' = sent /\ outcome' = outcome
      /\ units = <<>> /\ pipe = <<>> /\ HasPendingPicture(reader)
      /\ reader' = cut.reader /\ units' = <<cut.unit>>
  BY DEF Flush, Selecting, PipeSilent, encoderVars
<1>2. PumpRight(encoded, sent, pipe, reader, units, waiting)
  BY DEF EPInv
<1>3. cut = FlushPending(reader)
  OBVIOUS
<1> HIDE DEF cut
<1>4. IsH264
  <2> SUFFICES ASSUME ~IsH264 PROVE FALSE
    OBVIOUS
  <2>1. JpegRight(encoded, sent, pipe, reader, units, waiting)
    BY <1>2 DEF PumpRight
  <2>2. PICK a, L, nums : JpegAt(Len(encoded[1]), sent, pipe, reader, units, a, L, nums)
    BY <2>1 DEF JpegRight
  <2>3. reader.nals = <<>>
    BY <2>2 DEF JpegAt
  <2>4. QED BY <1>1, <2>3 DEF HasPendingPicture
<1>5. H264Right(encoded, sent, pipe, reader, units, waiting)
  BY <1>2, <1>4 DEF PumpRight
<1>6. H264Right(encoded, sent, pipe, cut.reader, <<cut.unit>>, waiting)
  BY <1>1, <1>3, <1>5, RightFlush
<1>7. PumpRight(encoded, sent, pipe, cut.reader, <<cut.unit>>, waiting)
  BY <1>2, <1>4, <1>6 DEF PumpRight
<1>8. PumpRight(encoded, sent, pipe, reader, units, waiting)'
  BY <1>1, <1>7, PumpStep
<1>9. Run' = Run
  BY <1>1 DEF Run
<1>10. SentRight(sent, Run)'
  BY <1>1, <1>9 DEF EPInv, SentRight, Preceded
<1>11. QED BY <1>1, <1>8, <1>9, <1>10 DEF EPInv

\* A new encoder keeps it: the pipe is silent, so no byte of the old one is left.
LEMMA EPRestartInv == ASSUME EPInv, RestartEncoder PROVE EPInv'
<1> DEFINE x == Append(encoded, <<>>)
<1>1. /\ encoder' = encoder /\ encoded' = x /\ pipe' = pipe /\ alive' = alive /\ waiting' = TRUE
      /\ recent' = TRUE /\ requests' = 0 /\ frames' = frames /\ sent' = sent /\ outcome' = outcome
      /\ units = <<>> /\ pipe = <<>> /\ IsH264 /\ ~recent
      /\ reader' = NewReader /\ units' = units
  BY DEF RestartEncoder, Selecting, PipeSilent
<1>2. PumpRight(encoded, sent, pipe, reader, units, waiting) /\ SentRight(sent, Run)
  BY DEF EPInv
<1>3. Run \in Nat /\ Run + 1 \in 1..MaxRuns
  BY <1>1, BoundAssumption DEF EPInv
<1>4. Run' = Run + 1
  <2>1. encoded \in Seq(Seq(Kind))
    <3> HIDE DEF Kind
    <3>1. QED BY <1>2, PumpTypes
  <2>2. <<>> \in Seq(Kind)
    OBVIOUS
  <2> HIDE DEF Kind
  <2>3. Len(x) = Len(encoded) + 1
    BY <2>1, <2>2, AppendProperties
  <2>4. QED BY <1>1, <2>3 DEF Run
<1>5. sent \in Seq(Frame) /\ \A i \in 1..Len(sent) : sent[i].seq = i - 1 /\ sent[i].run <= Run
  BY <1>2 DEF SentRight
<1>6. \A i \in DOMAIN sent : sent[i].run <= Len(encoded)
  <2> HIDE DEF Frame
  <2>1. QED BY <1>5, LenProperties DEF Run
<1>7. H264Right(encoded, sent, pipe, reader, units, waiting)
  BY <1>1, <1>2 DEF PumpRight
<1>8. H264Right(x, sent, pipe, NewReader, units, TRUE)
  <2> HIDE DEF Frame, NewReader
  <2>1. QED BY <1>1, <1>5, <1>6, <1>7, RightRestart
<1> HIDE DEF x
<1>9. PumpRight(x, sent, pipe, NewReader, units, TRUE)
  BY <1>1, <1>2, <1>8 DEF PumpRight
<1>10. PumpRight(encoded, sent, pipe, reader, units, waiting)'
  BY <1>1, <1>9, PumpStep
<1>11. SentRight(sent, Run)'
  <2>1. \A i \in 1..Len(sent) : sent[i].seq = i - 1 /\ sent[i].run <= Run + 1
    <3> SUFFICES ASSUME NEW i \in 1..Len(sent) PROVE sent[i].seq = i - 1 /\ sent[i].run <= Run + 1
      OBVIOUS
    <3>1. sent[i] \in Frame
      BY <1>5, ElementOfSeq
    <3>2. sent[i].run \in Nat
      BY <3>1, BoundAssumption DEF Frame
    <3>3. QED BY <1>3, <1>5, <3>2
  <2>2. SentRight(sent, Run + 1)
    BY <1>2, <1>5, <2>1 DEF SentRight
  <2>3. QED BY <1>1, <1>4, <2>2 DEF SentRight, Preceded
<1>12. (Run \in 1..MaxRuns)' /\ (~recent => Run < MaxRuns)' /\ (frames = Len(sent))'
  BY <1>1, <1>3, <1>4 DEF EPInv
<1>13. alive' \in BOOLEAN /\ waiting' \in BOOLEAN /\ recent' \in BOOLEAN
  BY <1>1 DEF EPInv
<1>14. requests' \in 0..1 /\ outcome' \in {"running", "finished", "failed"}
  BY <1>1 DEF EPInv
<1>15. QED BY <1>10, <1>11, <1>12, <1>13, <1>14 DEF EPInv

\* Passing a picture over keeps it.
LEMMA EPSkipInv == ASSUME EPInv, SkipUnit PROVE EPInv'
<1> DEFINE v == Tail(units)
<1>1. /\ encoder' = encoder /\ encoded' = encoded /\ pipe' = pipe /\ alive' = alive /\ waiting' = waiting
      /\ recent' = recent /\ requests' = requests /\ frames' = frames /\ sent' = sent /\ outcome' = outcome
      /\ reader' = reader /\ units' = v /\ units # <<>> /\ waiting
  BY DEF SkipUnit, encoderVars
<1>2. PumpRight(encoded, sent, pipe, reader, units, waiting)
  BY DEF EPInv
<1>3. IsH264
  <2>1. ~IsH264 => ~waiting
    BY <1>2, PumpTypes
  <2>2. QED BY <1>1, <2>1
<1>4. H264Right(encoded, sent, pipe, reader, units, waiting)
  BY <1>2, <1>3 DEF PumpRight
<1>5. waiting => H264Right(encoded, sent, pipe, reader, v, waiting)
  BY <1>1, <1>4, RightSkip
<1> HIDE DEF v
<1>6. PumpRight(encoded, sent, pipe, reader, v, waiting)
  BY <1>1, <1>2, <1>3, <1>5 DEF PumpRight
<1>7. PumpRight(encoded, sent, pipe, reader, units, waiting)'
  BY <1>1, <1>6, PumpStep
<1>8. Run' = Run
  BY <1>1 DEF Run
<1>9. SentRight(sent, Run)'
  BY <1>1, <1>8 DEF EPInv, SentRight, Preceded
<1>10. QED BY <1>1, <1>7, <1>8, <1>9 DEF EPInv

\* Forwarding keeps it, also up to a failed write.
LEMMA EPForwardInv == ASSUME EPInv, ForwardUnit \/ SendFails PROVE EPInv'
<1> DEFINE out == FramesOf(Head(units))
<1>1. /\ PumpRight(encoded, sent, pipe, reader, units, waiting) /\ SentRight(sent, Run)
      /\ Run \in 1..MaxRuns /\ frames = Len(sent)
  BY DEF EPInv
<1>2. units # <<>> /\ (waiting => Head(units).keyFrame)
  BY DEF ForwardUnit, SendFails
<1>3. /\ PumpRight(encoded, sent \o out, pipe, reader, Tail(units), FALSE)
      /\ SentRight(sent \o out, Run) /\ Len(sent \o out) = frames + Len(out)
      /\ \A n \in 0..Len(out) - 1 :
            /\ PumpRight(encoded, sent \o SubSeq(out, 1, n), pipe, reader, units, waiting)
            /\ SentRight(sent \o SubSeq(out, 1, n), Run)
            /\ Len(sent \o SubSeq(out, 1, n)) = frames + n
  BY <1>1, <1>2, PumpForwards
<1>4. CASE ForwardUnit
  <2> DEFINE t == sent \o out
             v == Tail(units)
  <2>1. /\ encoder' = encoder /\ encoded' = encoded /\ pipe' = pipe /\ alive' = alive /\ waiting' = FALSE
        /\ recent' = recent /\ requests' = requests /\ outcome' = outcome /\ reader' = reader
        /\ units' = v /\ sent' = t /\ frames' = frames + Len(out)
    BY <1>4 DEF ForwardUnit, encoderVars
  <2>2. PumpRight(encoded, t, pipe, reader, v, FALSE) /\ SentRight(t, Run) /\ Len(t) = frames + Len(out)
    BY <1>3
  <2> HIDE DEF t, v, out
  <2>3. PumpRight(encoded, sent, pipe, reader, units, waiting)'
    BY <2>1, <2>2, PumpStep
  <2>4. Run' = Run
    BY <2>1 DEF Run
  <2>5. SentRight(sent, Run)'
    BY <2>1, <2>2, <2>4 DEF SentRight, Preceded
  <2>6. QED BY <2>1, <2>2, <2>3, <2>4, <2>5 DEF EPInv
<1>5. CASE SendFails
  <2>1. PICK n \in 0..Len(out) - 1 : sent' = sent \o SubSeq(out, 1, n) /\ frames' = frames + n
    BY <1>5 DEF SendFails
  <2>2. /\ encoder' = encoder /\ encoded' = encoded /\ pipe' = pipe /\ alive' = FALSE /\ waiting' = waiting
        /\ recent' = recent /\ requests' = requests /\ outcome' = "failed" /\ reader' = reader
        /\ units' = units
    BY <1>5 DEF SendFails, End, encoderVars, pumpVars
  <2> DEFINE t == sent \o SubSeq(out, 1, n)
  <2>3. /\ PumpRight(encoded, t, pipe, reader, units, waiting) /\ SentRight(t, Run) /\ Len(t) = frames + n
        /\ sent' = t /\ frames' = frames + n
    BY <1>3, <2>1
  <2> HIDE DEF t, out
  <2>4. PumpRight(encoded, sent, pipe, reader, units, waiting)'
    BY <2>2, <2>3, PumpStep
  <2>5. Run' = Run
    BY <2>2 DEF Run
  <2>6. SentRight(sent, Run)'
    BY <2>3, <2>5 DEF SentRight, Preceded
  <2>7. QED BY <2>2, <2>3, <2>4, <2>5, <2>6 DEF EPInv
<1>6. QED BY <1>4, <1>5

\* Everything else leaves the stream and the frames alone.
LEMMA EPOtherInv ==
    ASSUME EPInv, UNCHANGED <<encoderVars, pipe, pumpVars, frames, sent>>,
           alive' \in BOOLEAN, recent' \in BOOLEAN, ~recent' => Run < MaxRuns, requests' \in 0..1,
           outcome' \in {"running", "finished", "failed"}
    PROVE  EPInv'
<1>1. /\ encoder' = encoder /\ encoded' = encoded /\ pipe' = pipe /\ waiting' = waiting
      /\ frames' = frames /\ sent' = sent /\ reader' = reader /\ units' = units
  BY DEF encoderVars, pumpVars
<1>2. PumpRight(encoded, sent, pipe, reader, units, waiting)'
  BY <1>1, PumpStep DEF EPInv
<1>3. Run' = Run
  BY <1>1 DEF Run
<1>4. SentRight(sent, Run)'
  BY <1>1, <1>3 DEF EPInv, SentRight, Preceded
<1>5. QED BY <1>1, <1>2, <1>3, <1>4 DEF EPInv

\* Every step keeps it.
LEMMA EPNextInv == EPInv /\ [EPNext]_epVars => EPInv'
<1> SUFFICES ASSUME EPInv, [EPNext]_epVars PROVE EPInv'
  OBVIOUS
<1>1. /\ alive \in BOOLEAN /\ recent \in BOOLEAN /\ requests \in 0..1
      /\ outcome \in {"running", "finished", "failed"} /\ (~recent => Run < MaxRuns)
  BY DEF EPInv
<1>2. CASE EncoderExits
  <2>1. /\ UNCHANGED <<encoderVars, pipe, pumpVars, frames, sent>>
        /\ alive' = FALSE /\ recent' = recent /\ requests' = requests /\ outcome' = outcome
    BY <1>2 DEF EncoderExits
  <2>2. QED BY <1>1, <2>1, EPOtherInv
<1>3. CASE RequestKeyFrame
  <2>1. /\ UNCHANGED <<encoderVars, pipe, pumpVars, frames, sent>>
        /\ alive' = alive /\ recent' = recent /\ requests' = 1 /\ outcome' = outcome
    BY <1>3 DEF RequestKeyFrame
  <2>2. QED BY <1>1, <2>1, EPOtherInv
<1>4. CASE SecondPasses
  <2>1. /\ UNCHANGED <<encoderVars, pipe, pumpVars, frames, sent>>
        /\ alive' = alive /\ recent' = FALSE /\ requests' = requests /\ outcome' = outcome
        /\ Run < MaxRuns
    BY <1>4 DEF SecondPasses
  <2>2. QED BY <1>1, <2>1, EPOtherInv
<1>5. CASE PumpStops \/ EndOfPipe
  <2>1. /\ UNCHANGED <<encoderVars, pipe, pumpVars, frames, sent>>
        /\ alive' = FALSE /\ recent' = recent /\ requests' = requests
        /\ outcome' \in {"finished", "failed"}
    BY <1>5 DEF PumpStops, EndOfPipe, Finish, End
  <2>2. QED BY <1>1, <2>1, EPOtherInv
<1>6. CASE RestartFails
  <2>1. /\ UNCHANGED <<encoderVars, pipe, pumpVars, frames, sent>>
        /\ alive' = FALSE /\ recent' = recent /\ requests' = requests /\ outcome' = "failed"
    BY <1>6 DEF RestartFails, End
  <2>2. QED BY <1>1, <2>1, EPOtherInv
<1>7. CASE IgnoreRequest
  <2>1. /\ UNCHANGED <<encoderVars, pipe, pumpVars, frames, sent>>
        /\ alive' = alive /\ recent' = recent /\ requests' = 0 /\ outcome' = outcome
    BY <1>7 DEF IgnoreRequest
  <2>2. QED BY <1>1, <2>1, EPOtherInv
<1>8. CASE UNCHANGED epVars
  <2>1. /\ UNCHANGED <<encoderVars, pipe, pumpVars, frames, sent>>
        /\ alive' = alive /\ recent' = recent /\ requests' = requests /\ outcome' = outcome
    BY <1>8 DEF epVars
  <2>2. QED BY <1>1, <2>1, EPOtherInv
<1>9. CASE \E kind \in Kind : Encode(kind)
  BY <1>9, EPEncodeInv
<1>10. QED
  BY <1>2, <1>3, <1>4, <1>5, <1>6, <1>7, <1>8, <1>9, EPReadInv, EPFlushInv, EPRestartInv, EPSkipInv,
     EPForwardInv DEF EPNext

\* It is an invariant.
LEMMA EPInvIsInvariant == EPSpec => []EPInv
<1>1. EPInit => EPInv
  BY EPInitInv
<1>2. EPInv /\ [EPNext]_epVars => EPInv'
  BY EPNextInv
<1>3. QED BY <1>1, <1>2, PTL DEF EPSpec

\* It implies the types.
LEMMA EPInvTypes == EPInv => EPTypeOK
<1> SUFFICES ASSUME EPInv PROVE EPTypeOK
  OBVIOUS
<1>1. /\ encoded \in Seq(Seq(Kind)) /\ pipe \in Seq(Nat) /\ units \in Seq(Unit)
      /\ reader \in [buffer : Seq(Nat), scanFrom : Nat, nals : Seq(Nal)]
  <2>1. PumpRight(encoded, sent, pipe, reader, units, waiting)
    BY DEF EPInv
  <2> HIDE DEF Unit, Nal, Kind
  <2>2. QED BY <2>1, PumpTypes
<1>2. encoder \in Encoder
  BY DEF EPInv, PumpRight
<1>3. sent \in Seq(Frame) /\ frames \in Nat
  <2>1. sent \in Seq(Frame) /\ frames = Len(sent)
    BY DEF EPInv, SentRight
  <2> HIDE DEF Frame
  <2>2. QED BY <2>1, LenProperties
<1>4. reader \in [buffer : Seq(Byte), scanFrom : Nat,
                   nals : Seq([start : Nat, kind : 0..31, firstSlice : BOOLEAN])]
  BY <1>1 DEF Byte, Nal
<1>5. pipe \in Seq(Byte)
  BY <1>1 DEF Byte
<1>6. /\ alive \in BOOLEAN /\ waiting \in BOOLEAN /\ recent \in BOOLEAN /\ Run \in 1..MaxRuns
      /\ requests \in 0..1 /\ outcome \in {"running", "finished", "failed"}
  BY DEF EPInv
<1> HIDE DEF Unit, Frame, Kind, Byte, Encoder, Run
<1>7. QED BY <1>1, <1>2, <1>3, <1>4, <1>5, <1>6 DEF EPTypeOK

\* It implies what the decoder needs.
LEMMA EPInvShows == EPInv => PicturesAreWhole /\ KeyFramesCarryConfig
<1> SUFFICES ASSUME EPInv PROVE PicturesAreWhole /\ KeyFramesCarryConfig
  OBVIOUS
<1>1. PumpRight(encoded, sent, pipe, reader, units, waiting) /\ SentRight(sent, Run)
  BY DEF EPInv
<1>2. KeyFramesCarryConfig
  BY <1>1 DEF SentRight, Preceded, KeyFramesCarryConfig
<1>3. \A i \in DOMAIN sent : sent[i].seq = i - 1
  <2>1. sent \in Seq(Frame) /\ \A i \in 1..Len(sent) : sent[i].seq = i - 1
    BY <1>1 DEF SentRight
  <2> HIDE DEF Frame
  <2>2. QED BY <2>1, LenProperties
<1>4. IsH264 => \A run \in 1..Run : H264Shown(run)
  <2> SUFFICES ASSUME IsH264, NEW run \in 1..Run PROVE H264Shown(run)
    OBVIOUS
  <2>1. H264Right(encoded, sent, pipe, reader, units, waiting)
    BY <1>1 DEF PumpRight
  <2>2. ShownRight(sent, run, encoded[run])
    BY <2>1, RightShows DEF Run
  <2>3. PICK which \in [ShownIn(sent, run) -> DOMAIN encoded[run]] :
          ConsecutiveIn(sent, run, encoded[run], which)
    BY <2>2 DEF ShownRight
  <2>4. ShownIn(sent, run) = Shown(run)
    BY DEF ShownIn, Shown
  <2> DEFINE S == Shown(run)
             kinds == encoded[run]
  <2>5. which \in [S -> DOMAIN kinds] /\ ShownIn(sent, run) = S
    BY <2>3, <2>4
  <2> HIDE DEF S, kinds
  <2>6. \A i \in S : /\ sent[i].data = Coded(kinds[which[i]], which[i])
                     /\ IF Before(S, i) = {} THEN kinds[which[i]] = "key"
                        ELSE which[i] = which[Max(Before(S, i))] + 1
    BY <2>3, <2>5 DEF ConsecutiveIn, kinds
  <2>7. \A i \in S : LET before == {j \in S : j < i}
                    IN  /\ sent[i].data = Coded(kinds[which[i]], which[i])
                        /\ IF before = {} THEN kinds[which[i]] = "key"
                           ELSE which[i] = which[Max(before)] + 1
    BY <2>6 DEF Before
  <2>8. \E w \in [S -> DOMAIN kinds] :
          \A i \in S : LET before == {j \in S : j < i}
                      IN  /\ sent[i].data = Coded(kinds[w[i]], w[i])
                          /\ IF before = {} THEN kinds[w[i]] = "key"
                             ELSE w[i] = w[Max(before)] + 1
    BY <2>5, <2>7
  <2>9. QED BY <2>8 DEF H264Shown, S, kinds
<1>5. ~IsH264 => JpegShown
  <2> SUFFICES ASSUME ~IsH264 PROVE JpegShown
    OBVIOUS
  <2>1. JpegRight(encoded, sent, pipe, reader, units, waiting)
    BY <1>1 DEF PumpRight
  <2>2. JpegShownIn(sent, encoded[1])
    BY <2>1, JpegShows
  <2>3. QED BY <2>2 DEF JpegShownIn, JpegShown
<1>6. EPTypeOK
  BY EPInvTypes
<1>7. QED BY <1>2, <1>3, <1>4, <1>5, <1>6 DEF PicturesAreWhole

\* Of every H.264 encoder the client gets consecutive pictures, each the very bytes of
\* one access unit, from a key frame on; JPEG pictures arrive whole and in order; and the
\* frames are numbered without a gap: wherever a read of the pipe ends, whenever the idle
\* flush comes, and across restarts of the encoder and a write that fails half way.
THEOREM PicturesStayWhole == EPSpec => []PicturesAreWhole
<1>1. EPInv => PicturesAreWhole
  BY EPInvShows
<1>2. QED BY <1>1, EPInvIsInvariant, PTL

\* Right ahead of every key frame, not only of the first, the client has got the parameter
\* sets of the same encoder: a decoder rebuilt at any key frame can start.
THEOREM KeyFramesStayReady == EPSpec => []KeyFramesCarryConfig
<1>1. EPInv => KeyFramesCarryConfig
  BY EPInvShows
<1>2. QED BY <1>1, EPInvIsInvariant, PTL
=============================================================================
