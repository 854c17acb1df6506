---------------------------- MODULE JpegSplitter -----------------------------
(***************************************************************************)
(* JpegStreamReader (src/screen.rs): cuts a stream of concatenated JPEG    *)
(* pictures at their first and last marker.  Bytes are numbers, offsets    *)
(* count from 0 as in the code, and reads of the pipe may end anywhere.    *)
(***************************************************************************)
EXTENDS Naturals, Sequences, FiniteSetsExt

StartOfImage == <<255, 216>>
EndOfImage == <<255, 217>>

\* The bytes first .. end - 1 of b.
Bytes(b, first, end) == SubSeq(b, first + 1, end)

\* Where find_marker could find the marker; it takes the first one.
Markers(b, marker, from) == {i \in from..Len(b) - 2 : Bytes(b, i, i + 2) = marker}

\* Mutant of CutJpeg: bytes ahead of the picture stay in front of it.
CutJpegInPlace(b) ==
    LET ends == Markers(b, EndOfImage, 2)
    IN  IF Markers(b, StartOfImage, 0) = {} THEN [rest |-> <<>>, pictures |-> <<>>]
        ELSE IF ends = {} THEN [rest |-> b, pictures |-> <<>>]
        ELSE [rest |-> Bytes(b, Min(ends) + 2, Len(b)), pictures |-> <<Bytes(b, 0, Min(ends) + 2)>>]

\* One turn of the loop in push.  Without a first marker the buffer is thrown away,
\* half a marker at its end included.
CutJpeg(b) ==
    LET starts == Markers(b, StartOfImage, 0)
        picture == Bytes(b, Min(starts), Len(b))
        ends == Markers(picture, EndOfImage, 2)
    IN  IF starts = {} THEN [rest |-> <<>>, pictures |-> <<>>]
        ELSE IF ends = {} THEN [rest |-> picture, pictures |-> <<>>]
        ELSE [rest |-> Bytes(picture, Min(ends) + 2, Len(picture)),
              pictures |-> <<Bytes(picture, 0, Min(ends) + 2)>>]

\* One more turn.
Cut(last) ==
    LET cut == CutJpeg(last.rest)
    IN  [rest |-> cut.rest, pictures |-> last.pictures \o cut.pictures]

\* What is left and cut after so many turns; a picture has four bytes at least.
Turns(b) == Len(b) \div 4 + 1
CutBy(b) ==
    LET after[n \in 0..Turns(b)] ==
            IF n = 0 THEN [rest |-> b, pictures |-> <<>>] ELSE Cut(after[n - 1])
    IN  after

PushJpeg(buffer, chunk) == CutBy(buffer \o chunk)[Turns(buffer \o chunk)]
=============================================================================
