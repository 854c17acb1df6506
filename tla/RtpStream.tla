------------------------------ MODULE RtpStream ------------------------------
(***************************************************************************)
(* RtpStreamReader and rtp_payload (src/audio.rs): Opus packets out of the *)
(* stream of length-prefixed RTP frames (RFC 4571) that the encoder        *)
(* writes.  Bytes are numbers; reads of the pipe may end anywhere.         *)
(***************************************************************************)
EXTENDS Naturals, Sequences

CONSTANT MaxRtpFrame  \* MAX_RTP_FRAME_BYTES

ASSUME FrameLimitAssumption == MaxRtpFrame \in Nat

\* u16::from_be_bytes of the two bytes from offset on.
BigEndian(b, offset) == 256 * b[offset + 1] + b[offset + 2]

FixedHeader == 12
Version(p) == p[1] \div 64
Padded(p) == (p[1] \div 32) % 2 = 1
Extended(p) == (p[1] \div 16) % 2 = 1
CsrcCount(p) == p[1] % 16

\* Where the payload begins: behind the CSRC list and the header extension.
PayloadStart(p) ==
    LET fixed == FixedHeader + 4 * CsrcCount(p)
    IN  IF Extended(p) THEN fixed + 4 + 4 * BigEndian(p, fixed + 2) ELSE fixed

\* Mutant of UnpaddedLength: the padding goes out with the packet.
PaddedLength(p) == Len(p)

\* The bytes in front of the padding, whose length is its last byte.
UnpaddedLength(p) == IF Padded(p) THEN Len(p) - p[Len(p)] ELSE Len(p)

WellFormed(p) ==
    /\ Len(p) >= FixedHeader /\ Version(p) = 2
    /\ Extended(p) => Len(p) >= FixedHeader + 4 * CsrcCount(p) + 4
    /\ Padded(p) => p[Len(p)] <= Len(p)
    /\ PayloadStart(p) <= UnpaddedLength(p)

\* rtp_payload; a packet it rejects is skipped like one without a payload.
RtpPayload(p) ==
    IF WellFormed(p) THEN SubSeq(p, PayloadStart(p) + 1, UnpaddedLength(p)) ELSE <<>>

ValidLength(n) == n \in 1..MaxRtpFrame

\* All bytes of the frame that begins at the offset have arrived.
Complete(b, offset) == Len(b) - offset >= 2 + BigEndian(b, offset)

\* One turn of the loop in push, at the offset where a frame begins: what stays in the
\* buffer, the packets released, and whether every length was a possible one, given
\* what the turns from a later offset on yield.
Turn(b, later, offset) ==
    LET Stop(valid) ==
            [rest |-> SubSeq(b, offset + 1, Len(b)), packets |-> <<>>, valid |-> valid]
        end == offset + 2 + BigEndian(b, offset)
        payload == RtpPayload(SubSeq(b, offset + 3, end))
    IN  IF Len(b) - offset < 2 THEN Stop(TRUE)
        ELSE IF ~ValidLength(BigEndian(b, offset)) THEN Stop(FALSE)
        ELSE IF ~Complete(b, offset) THEN Stop(TRUE)
        ELSE IF payload = <<>> THEN later[end]
        ELSE [later[end] EXCEPT !.packets = <<payload>> \o @]

\* The loop, from each offset on.
Turns(b) ==
    LET from[offset \in 0..Len(b)] == Turn(b, from, offset)
    IN  from

PushRtp(buffer, chunk) == Turns(buffer \o chunk)[0]
=============================================================================
