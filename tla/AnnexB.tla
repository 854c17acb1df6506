------------------------------- MODULE AnnexB -------------------------------
(***************************************************************************)
(* AnnexBStreamReader (src/screen.rs): cuts the byte stream of an H.264    *)
(* encoder into access units.  Bytes are numbers, offsets count from 0 as  *)
(* in the code, and reads of the pipe may end anywhere.                    *)
(***************************************************************************)
EXTENDS Integers, Sequences, SequencesExt, FiniteSetsExt

CONSTANT MaxBuffer  \* MAX_ANNEX_B_BUFFER

ASSUME BufferAssumption == MaxBuffer \in Nat

NewReader == [buffer |-> <<>>, nals |-> <<>>, scanFrom |-> 0]

\* The bytes first .. end - 1 of b.
Slice(b, first, end) == SubSeq(b, first + 1, end)
Clipped(n) == Max({n, 0})

-----------------------------------------------------------------------------
(* NAL units *)

IsSlice(nal) == nal.kind \in 1..5

\* A start code and the two bytes behind it classify the unit; the zero of a
\* four-byte start code belongs to it.
NalAt(b, i) ==
    [start      |-> IF i > 0 /\ b[i] = 0 THEN i - 1 ELSE i,
     kind       |-> b[i + 4] % 32,
     firstSlice |-> b[i + 5] >= 128]

StartsAccessUnit(nal, hasSlice) ==
    \/ nal.kind = 9
    \/ nal.kind \in {6, 7, 8, 13, 14, 15} /\ hasSlice
    \/ nal.kind \in 1..5 /\ hasSlice /\ nal.firstSlice

StartCode(b, i) == b[i + 1] = 0 /\ b[i + 2] = 0 /\ b[i + 3] = 1

\* The units known once a scan has looked at every offset before i.
Seen(reader, end) ==
    LET b == reader.buffer
        before[i \in reader.scanFrom..end] ==
            IF i = reader.scanFrom THEN reader.nals
            ELSE IF StartCode(b, i - 1) THEN Append(before[i - 1], NalAt(b, i - 1))
            ELSE before[i - 1]
    IN  before

\* Only the bytes the last scan could not classify are looked at again.
Scan(reader) ==
    LET end == Clipped(Len(reader.buffer) - 4)
    IN  [buffer |-> reader.buffer, nals |-> Seen(reader, end)[end], scanFrom |-> end]

-----------------------------------------------------------------------------
(* Access units *)

\* The units that open the next picture; next_boundary takes the first one.
Boundaries(nals) ==
    {i \in 2..Len(nals) : StartsAccessUnit(nals[i], \E j \in 1..i - 1 : IsSlice(nals[j]))}

HasPendingPicture(reader) == \E i \in DOMAIN reader.nals : IsSlice(reader.nals[i])

\* Where the i-th unit ends if the picture ends at end.
NalEnd(nals, i, end) == IF i < Len(nals) THEN nals[i + 1].start ELSE end

\* The first count units as a picture, the reader without the bytes before end.
TakeAccessUnit(reader, count, end) ==
    LET nals == reader.nals
        taken == SubSeq(nals, 1, count)
        set(i) == IF nals[i].kind \in {7, 8}
                  THEN Slice(reader.buffer, nals[i].start, NalEnd(nals, i, end)) ELSE <<>>
        rest == SubSeq(nals, count + 1, Len(nals))
    IN  [unit |-> [data |-> Slice(reader.buffer, nals[1].start, end),
                   keyFrame |-> \E i \in DOMAIN taken : taken[i].kind = 5,
                   parameterSets |-> FlattenSeq([i \in DOMAIN taken |-> set(i)])],
         reader |-> [buffer |-> Slice(reader.buffer, end, Len(reader.buffer)),
                     nals |-> [i \in DOMAIN rest |-> [rest[i] EXCEPT !.start = @ - end]],
                     scanFrom |-> Clipped(reader.scanFrom - end)]]

\* One turn of the loop of push: the first picture whose successor has begun.
Release(last) ==
    LET nals == last.reader.nals
        next == Min(Boundaries(nals))
        cut == TakeAccessUnit(last.reader, next - 1, nals[next].start)
    IN  IF Boundaries(nals) = {} THEN last
        ELSE [reader |-> cut.reader, units |-> Append(last.units, cut.unit)]

\* What is released after so many turns; a picture has a unit at least.
Turned(reader) ==
    LET after[n \in 0..Len(reader.nals)] ==
            IF n = 0 THEN [reader |-> reader, units |-> <<>>] ELSE Release(after[n - 1])
    IN  after

Released(reader) == Turned(reader)[Len(reader.nals)]

\* A reader whose buffer outgrows its limit forgets it and resynchronises.
Push(reader, chunk) ==
    LET released == Released(Scan([reader EXCEPT !.buffer = @ \o chunk]))
    IN  IF Len(released.reader.buffer) > MaxBuffer
        THEN [released EXCEPT !.reader = NewReader] ELSE released

\* flush_pending: the buffered picture, without waiting for its successor.
FlushPending(reader) == TakeAccessUnit(reader, Len(reader.nals), Len(reader.buffer))
=============================================================================
