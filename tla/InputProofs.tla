---------------------------- MODULE InputProofs -----------------------------
(***************************************************************************)
(* Proofs about the two input backends.  HyprlandPointer: buttons and keys *)
(* follow the motion before them and the newest target wins, for every     *)
(* size of the desktop and every set of motions.  VirtualInput: what the   *)
(* daemon remembers of its devices is what the kernel has, and the wheel   *)
(* follows the finger, for any number of clients.                          *)
(***************************************************************************)
EXTENDS HyprlandPointer, VirtualInput, SequenceTheorems, TLAPS

-----------------------------------------------------------------------------
(* Arithmetic *)

\* The extremes of two numbers.
LEMMA OfTwo ==
    ASSUME NEW a \in Int, NEW b \in Int
    PROVE  /\ Min({a, b}) = IF a <= b THEN a ELSE b
           /\ Max({a, b}) = IF a >= b THEN a ELSE b
<1>1. Min({a, b}) = IF a <= b THEN a ELSE b
  <2>1. \E x \in {a, b} : \A y \in {a, b} : x <= y
    OBVIOUS
  <2>2. Min({a, b}) \in {a, b} /\ \A y \in {a, b} : Min({a, b}) <= y
    BY <2>1 DEF Min
  <2>3. QED BY <2>2
<1>2. Max({a, b}) = IF a >= b THEN a ELSE b
  <2>1. \E x \in {a, b} : \A y \in {a, b} : x >= y
    OBVIOUS
  <2>2. Max({a, b}) \in {a, b} /\ \A y \in {a, b} : Max({a, b}) >= y
    BY <2>1 DEF Max
  <2>3. QED BY <2>2
<1>3. QED BY <1>1, <1>2

\* The wheel keeps less than one step for later.
LEMMA WheelKeepsLess ==
    ASSUME NEW r \in Int, NEW finish \in BOOLEAN
    PROVE  /\ Left(r, finish) \in -Threshold + 1..Threshold - 1
           /\ Steps(r, finish) \in Int /\ Magnitude(Steps(r, finish)) \in Nat
<1>1. Magnitude(r) \in Nat /\ Magnitude(r) \div Threshold \in Nat
  BY DEF Magnitude, Threshold
<1>2. /\ Magnitude(r) - (Magnitude(r) \div Threshold) * Threshold \in 0..Threshold - 1
  BY <1>1 DEF Threshold
<1>3. CASE RoundsUp(r, finish)
  BY <1>3 DEF Left, Steps, Sign, Threshold, Magnitude
<1>4. CASE ~RoundsUp(r, finish)
  BY <1>1, <1>2, <1>4 DEF Left, Steps, Truncated, Sign, Magnitude, Threshold
<1>5. QED BY <1>3, <1>4

\* Positions stay on the desktop.
LEMMA Positions ==
    ASSUME NEW f \in Int
    PROVE  /\ Clamp(f) \in 0..2 * MaxPos
           /\ f \in 0..2 * MaxPos => Round(f) \in Pos
           /\ \A p \in Pos : Round(2 * p) = p
<1>1. MaxPos \in Nat
  BY InputAssumption
<1>2. Max({f, 0}) = IF f >= 0 THEN f ELSE 0
  BY OfTwo
<1>3. Clamp(f) = IF Max({f, 0}) <= 2 * MaxPos THEN Max({f, 0}) ELSE 2 * MaxPos
  BY <1>1, <1>2, OfTwo DEF Clamp
<1>4. QED BY <1>1, <1>2, <1>3 DEF Round, Pos

-----------------------------------------------------------------------------
(* The inductive invariant *)

\* The worker is at a target exactly while one is in flight.
InFlightIsWorkers == worker \in {"dispatch", "moved", "failed"} <=> inFlight # None

\* The newest target is the one that is waiting, or in flight, or was acknowledged,
\* unless its motion failed.
TargetIsLatest ==
    /\ pending # None => pending = Target
    /\ pending = None /\ inFlight # None => inFlight = Target
    /\ pending = None /\ inFlight = None => cursor = Target \/ lastError \/ told

\* What was acknowledged is where the cursor is, unless a motion failed.
CursorIsSeen ==
    /\ worker = "moved" => desktop = inFlight
    /\ worker \in {"asleep", "take"} => desktop = cursor \/ lastError \/ told

\* A target that waits has the worker's attention.
WorkerKnows == worker = "asleep" /\ pending # None => wake \/ command = "notify"

\* Events are dispatched while nothing moves.
DispatchesAtRest ==
    command = "dispatch" =>
       /\ todo > 0 /\ pending = None /\ inFlight = None
       /\ desktop = Target \/ told

MotionInv ==
    /\ TypeOK
    /\ InFlightIsWorkers /\ TargetIsLatest /\ CursorIsSeen /\ WorkerKnows /\ DispatchesAtRest

\* The backend starts with its cursor where the compositor's is.
LEMMA InitInv == Init => MotionInv
<1> SUFFICES ASSUME Init PROVE MotionInv
  OBVIOUS
<1>1. MaxPos \in Nat /\ desktop \in Int
  BY InputAssumption DEF Init, Pos
<1>2. Target = desktop
  BY <1>1, Positions DEF Init, Target
<1>3. TypeOK
  <2>1. 2 * desktop \in 0..2 * MaxPos /\ 0 \in 0..MaxSteps
    BY <1>1 DEF Init, Pos, MaxSteps
  <2>2. 0 \in -Threshold + 1..Threshold - 1
    BY DEF Threshold
  <2>3. QED BY <2>1, <2>2 DEF Init, TypeOK
<1>4. QED
  BY <1>2, <1>3 DEF Init, MotionInv, InFlightIsWorkers, TargetIsLatest, CursorIsSeen,
                    WorkerKnows, DispatchesAtRest

\* A failure that is reported changes nothing else.
LEMMA ReportInv == MotionInv /\ command # "notify" /\ ReportError => MotionInv'
<1> SUFFICES ASSUME MotionInv, command # "notify", ReportError PROVE MotionInv'
  OBVIOUS
<1>1. 0 \in 0..MaxSteps /\ Target' = Target
  BY DEF ReportError, MaxSteps, Target
<1>2. TypeOK'
  BY <1>1 DEF MotionInv, ReportError, TypeOK
<1>3. InFlightIsWorkers' /\ TargetIsLatest' /\ CursorIsSeen'
  BY <1>1 DEF MotionInv, ReportError, InFlightIsWorkers, TargetIsLatest, CursorIsSeen
<1>4. WorkerKnows'
  BY DEF MotionInv, ReportError, WorkerKnows
<1>5. DispatchesAtRest'
  BY DEF ReportError, DispatchesAtRest
<1>6. QED BY <1>2, <1>3, <1>4, <1>5 DEF MotionInv

\* Motion, relative or absolute: the target is the latest, or becomes it.
LEMMA MoveInv ==
    ASSUME NEW f \in Int
    PROVE  MotionInv /\ MoveTo(f) => MotionInv'
<1> SUFFICES ASSUME MotionInv, MoveTo(f) PROVE MotionInv'
  OBVIOUS
<1>1. fine' \in 0..2 * MaxPos /\ Target' \in Pos /\ Target' = Round(fine')
  <2>1. fine' \in 0..2 * MaxPos
    BY Positions DEF MoveTo
  <2>2. fine' \in Int
    BY <2>1, InputAssumption
  <2>3. QED BY <2>1, <2>2, Positions DEF Target
<1>2. CASE Latest = Target'
  BY <1>1, <1>2 DEF MotionInv, MoveTo, TypeOK, InFlightIsWorkers, TargetIsLatest,
     CursorIsSeen, WorkerKnows, DispatchesAtRest, Latest
<1>3. CASE Latest # Target'
  <2>1. pending' = Target' /\ command' = "notify" /\ pending' # None
    BY <1>1, <1>3 DEF MoveTo, Pos, None
  <2>2. QED
    BY <1>1, <2>1 DEF MotionInv, MoveTo, TypeOK, InFlightIsWorkers, TargetIsLatest,
       CursorIsSeen, WorkerKnows, DispatchesAtRest
<1>4. QED BY <1>2, <1>3

\* Events are issued when the worker is idle and no failure waits to be reported.
LEMMA IssueInv ==
    ASSUME NEW n \in 0..MaxSteps
    PROVE  MotionInv /\ Flushed /\ Issue(n) /\ remainder' \in -Threshold + 1..Threshold - 1
             => MotionInv'
<1> SUFFICES ASSUME MotionInv, Flushed, Issue(n), remainder' \in -Threshold + 1..Threshold - 1
             PROVE  MotionInv'
  OBVIOUS
<1>1. worker \in {"asleep", "take"} /\ (desktop = Target \/ told)
  BY DEF MotionInv, TypeOK, Flushed, InFlightIsWorkers, TargetIsLatest, CursorIsSeen
<1>2. QED
  BY <1>1 DEF MotionInv, Flushed, Issue, stateVars, TypeOK, InFlightIsWorkers, TargetIsLatest,
     CursorIsSeen, WorkerKnows, DispatchesAtRest, Target, MaxSteps

\* Every step of a handler, the worker or the compositor keeps the invariant.
LEMMA NextInv == MotionInv /\ [Next]_vars => MotionInv'
<1> SUFFICES ASSUME MotionInv, [Next]_vars PROVE MotionInv'
  OBVIOUS
<1>1. CASE MoveReports \/ FlushReports
  BY <1>1, ReportInv DEF MoveReports, FlushReports
<1>2. CASE PointerMove
  <2>1. PICK d \in MoveDelta : MoveTo(fine + d)
    BY <1>2 DEF PointerMove
  <2>2. fine + d \in Int
    BY InputAssumption DEF MotionInv, TypeOK
  <2>3. QED BY <2>1, <2>2, MoveInv
<1>3. CASE PointerMoveAbsolute
  <2>1. PICK p \in Pos : MoveTo(2 * p)
    BY <1>3 DEF PointerMoveAbsolute
  <2>2. 2 * p \in Int
    BY InputAssumption DEF Pos
  <2>3. QED BY <2>1, <2>2, MoveInv
<1>4. CASE NotifyWorker \/ BeginFlush \/ FlushWaits \/ FlushWakes
  <2> USE DEF MotionInv, stateVars, TypeOK, InFlightIsWorkers, TargetIsLatest, CursorIsSeen,
          WorkerKnows, DispatchesAtRest, Target
  <2>1. CASE NotifyWorker
    BY <2>1 DEF NotifyWorker
  <2>2. CASE BeginFlush
    BY <2>2 DEF BeginFlush
  <2>3. CASE FlushWaits \/ FlushWakes
    BY <2>3 DEF FlushWaits, FlushWakes
  <2>4. QED BY <1>4, <2>1, <2>2, <2>3
<1>5. CASE Events
  <2>1. PICK n \in 0..2 : Issue(n)
    BY <1>5 DEF Events
  <2>2. n \in 0..MaxSteps
    BY DEF MaxSteps
  <2>3. Flushed /\ remainder' \in -Threshold + 1..Threshold - 1
    BY <1>5 DEF Events, MotionInv, TypeOK
  <2>4. QED BY <2>1, <2>2, <2>3, IssueInv
<1>6. CASE Scroll
  <2>1. PICK d \in ScrollDelta, finish \in BOOLEAN :
           /\ Issue(Min({MaxSteps, Magnitude(Steps(remainder + d, finish))}))
           /\ remainder' = Left(remainder + d, finish)
    BY <1>6 DEF Scroll
  <2>2. remainder + d \in Int
    BY InputAssumption DEF MotionInv, TypeOK, Threshold
  <2>3. /\ remainder' \in -Threshold + 1..Threshold - 1
        /\ Magnitude(Steps(remainder + d, finish)) \in Nat
    BY <2>1, <2>2, WheelKeepsLess
  <2>4. Min({MaxSteps, Magnitude(Steps(remainder + d, finish))}) \in 0..MaxSteps
    BY <2>3, OfTwo DEF MaxSteps
  <2>5. Flushed
    BY <1>6 DEF Scroll
  <2>6. QED BY <2>1, <2>3, <2>4, <2>5, IssueInv
<1>7. CASE Dispatch
  BY <1>7 DEF Dispatch, MotionInv, stateVars, TypeOK, InFlightIsWorkers, TargetIsLatest,
     CursorIsSeen, WorkerKnows, DispatchesAtRest, Target, MaxSteps
<1>8. CASE WorkerWakes
  BY <1>8 DEF WorkerWakes, MotionInv, clientVars, stateVars, TypeOK, InFlightIsWorkers,
     TargetIsLatest, CursorIsSeen, WorkerKnows, DispatchesAtRest, Target
<1>9. CASE WorkerTakes \/ WorkerFindsNothing
  BY <1>9 DEF WorkerTakes, WorkerFindsNothing, MotionInv, clientVars, TypeOK,
     InFlightIsWorkers, TargetIsLatest, CursorIsSeen, WorkerKnows, DispatchesAtRest, Target
<1>10. CASE CursorMoves \/ DispatchFails
  BY <1>10 DEF CursorMoves, DispatchFails, MotionInv, clientVars, stateVars, TypeOK,
     InFlightIsWorkers, TargetIsLatest, CursorIsSeen, WorkerKnows, DispatchesAtRest, Target,
     None
<1>11. CASE WorkerDone
  BY <1>11 DEF WorkerDone, Answered, MotionInv, clientVars, TypeOK, InFlightIsWorkers,
     TargetIsLatest, CursorIsSeen, WorkerKnows, DispatchesAtRest, Target
<1>12. CASE UNCHANGED vars
  BY <1>12 DEF vars, MotionInv, clientVars, stateVars, TypeOK, InFlightIsWorkers,
     TargetIsLatest, CursorIsSeen, WorkerKnows, DispatchesAtRest, Target
<1>13. QED
  BY <1>1, <1>2, <1>3, <1>4, <1>5, <1>6, <1>7, <1>8, <1>9, <1>10, <1>11, <1>12 DEF Next

\* The invariant holds of every reachable state.
THEOREM Invariance == Spec => []MotionInv
  BY InitInv, NextInv, PTL DEF Spec

-----------------------------------------------------------------------------
(* What the invariant gives *)

\* A button, key or scroll is dispatched with the cursor where the client put it,
\* unless the client was told that the motion failed (flush_pointer, input.rs).
THEOREM EventsAfterMotion == Spec => []EventsFollowMotion
<1>1. MotionInv => EventsFollowMotion
  BY DEF MotionInv, DispatchesAtRest, EventsFollowMotion
<1>2. QED BY <1>1, Invariance, PTL

\* Coalesced motion is not lost: when the worker sleeps and nothing will wake it, the
\* cursor is at the newest target, or a failure is kept for the client or was reported.
THEOREM NewestTarget == Spec => []NewestTargetWins
<1>1. MotionInv => NewestTargetWins
  BY DEF MotionInv, TypeOK, InFlightIsWorkers, TargetIsLatest, CursorIsSeen, WorkerKnows,
         NewestTargetWins
<1>2. QED BY <1>1, Invariance, PTL
-----------------------------------------------------------------------------
(* The uinput devices: proofs about VirtualInput, whose wheel is the same *)

\* A key may be down without being remembered only if it is the shift of a symbol.
KeysTracked == held \ {"LEFTSHIFT"} \subseteq pressedKeys

\* What is remembered of buttons and controls is what the kernel has, except of those
\* whose last write failed.
ButtonsTracked == \A b \in Button \ unsure : b \in pressedButtons <=> b \in down
PadTracked ==
    \A c \in ToSet(Control) \ unsure : padState[c] # Unset => padValue[c] = padState[c]

\* The wheel keeps what the finger is ahead, and perhaps what the gesture before it left.
WheelTracked == ~slipped => owed - scrollRemainder \in -3..3

DevicesInv ==
    /\ VITypeOK /\ WheelTracked /\ ButtonsTracked /\ PadTracked
    /\ faults = 0 => KeysTracked /\ unsure = {}

\* The calls of key that a handler makes, and the events a device takes.
KeyCalls == [keysym : Keysym, value : Value]
KeyEvent == [code : Code, value : Value]

\* The shift of a symbol, if it has one.
LEMMA ShiftBatch ==
    ASSUME NEW keysym \in Keysym, NEW value \in Value
    PROVE  LET batch == Shift(Mapping(keysym), value)
           IN  /\ batch \in Seq(KeyEvent) /\ Len(batch) \in Nat /\ Len(batch) <= 1
               /\ \A j \in 1..Len(batch) : batch[j] = Event("LEFTSHIFT", value)
<1>1. Event("LEFTSHIFT", value) \in KeyEvent
  BY DEF Event, KeyEvent, Code
<1>2. CASE Mapping(keysym).shift
  <2>1. Shift(Mapping(keysym), value) = <<Event("LEFTSHIFT", value)>>
    BY <1>2 DEF Shift
  <2>2. \A e \in KeyEvent : <<e>> \in Seq(KeyEvent) /\ Len(<<e>>) = 1 /\ <<e>>[1] = e
    OBVIOUS
  <2>3. QED BY <1>1, <2>1, <2>2
<1>3. CASE ~Mapping(keysym).shift
  <2>1. Shift(Mapping(keysym), value) = <<>>
    BY <1>3 DEF Shift
  <2>2. QED BY <2>1
<1>4. QED BY <1>2, <1>3

\* A key of the table.
LEMMA MappedKeys ==
    ASSUME NEW keysym \in Keysym
    PROVE  Mapping(keysym).code \in Code /\ Mapping(keysym).shift \in BOOLEAN
  BY DEF Mapping, Keysym, Code

\* A call of key writes its own event and perhaps one of shift.
LEMMA KeyBatch ==
    ASSUME NEW call \in KeyCalls
    PROVE  LET events == KeyEvents(call)
           IN  /\ events \in Seq(KeyEvent) /\ Len(events) \in Nat /\ Len(events) <= 2
               /\ Track(call) \in KeyEvent
               /\ \A j \in 1..Len(events) :
                     events[j].code # "LEFTSHIFT" => events[j] = Track(call)
               /\ \E j \in 1..Len(events) : events[j] = Track(call)
<1> DEFINE shift == Shift(Mapping(call.keysym), call.value)
           own == Track(call)
           events == KeyEvents(call)
<1>1. call.keysym \in Keysym /\ call.value \in {0, 1}
  BY DEF KeyCalls, Value
<1>2. /\ shift \in Seq(KeyEvent) /\ Len(shift) \in Nat /\ Len(shift) <= 1
      /\ \A j \in 1..Len(shift) : shift[j].code = "LEFTSHIFT"
  BY <1>1, ShiftBatch DEF Value, Event
<1>3. own \in KeyEvent
  BY <1>1, MappedKeys DEF Track, Event, KeyEvent, Value
<1>4. events = IF call.value = 1 THEN Append(shift, own) ELSE <<own>> \o shift
  BY <1>1 DEF KeyEvents, Track
<1> HIDE DEF shift, own, events
<1>5. /\ events \in Seq(KeyEvent) /\ Len(events) = Len(shift) + 1
      /\ \A j \in 1..Len(events) : events[j].code # "LEFTSHIFT" => events[j] = own
      /\ \E j \in 1..Len(events) : events[j] = own
  <2>1. CASE call.value = 1
    <3>1. events = Append(shift, own)
      BY <1>4, <2>1
    <3>2. /\ events \in Seq(KeyEvent) /\ Len(events) = Len(shift) + 1
          /\ events[Len(shift) + 1] = own /\ \A j \in 1..Len(shift) : events[j] = shift[j]
      BY <1>2, <1>3, <3>1, AppendProperties
    <3>3. QED BY <1>2, <3>2
  <2>2. CASE call.value # 1
    <3>1. <<own>> \in Seq(KeyEvent) /\ Len(<<own>>) = 1 /\ <<own>>[1] = own
      BY <1>3
    <3>2. /\ events \in Seq(KeyEvent) /\ Len(events) = 1 + Len(shift)
          /\ \A j \in 1..1 + Len(shift) :
                events[j] = IF j <= 1 THEN <<own>>[j] ELSE shift[j - 1]
      BY <1>2, <1>4, <2>2, <3>1, ConcatProperties
    <3>3. events[1] = own /\ \A j \in 2..1 + Len(shift) : events[j] = shift[j - 1]
      BY <1>2, <3>1, <3>2
    <3>4. QED BY <1>2, <3>2, <3>3
  <2>3. QED BY <2>1, <2>2
<1>6. QED BY <1>2, <1>3, <1>5 DEF events, own

\* A character is its key, down and up, between the events of shift.
LEMMA StrokeBatch ==
    ASSUME NEW keysym \in Keysym
    PROVE  LET events == Stroke(keysym)
           IN  /\ events \in Seq(KeyEvent) /\ Len(events) \in Nat /\ Len(events) <= 4
               /\ \A j \in 1..Len(events) :
                     events[j].code # "LEFTSHIFT" /\ events[j].value = 1 =>
                        j + 1 <= Len(events) /\ events[j + 1] = Event(events[j].code, 0)
<1> DEFINE mapping == Mapping(keysym)
           first == Shift(mapping, 1)
           last == Shift(mapping, 0)
           press == Event(mapping.code, 1)
           release == Event(mapping.code, 0)
           events == Stroke(keysym)
<1>1. /\ first \in Seq(KeyEvent) /\ Len(first) \in Nat /\ Len(first) <= 1
      /\ \A j \in 1..Len(first) : first[j].code = "LEFTSHIFT"
      /\ last \in Seq(KeyEvent) /\ Len(last) \in Nat /\ Len(last) <= 1
      /\ \A j \in 1..Len(last) : last[j].code = "LEFTSHIFT"
  BY ShiftBatch DEF Value, Event
<1>2. press \in KeyEvent /\ release \in KeyEvent
  BY MappedKeys DEF Event, KeyEvent, Value
<1>3. release.value = 0 /\ release = Event(press.code, 0)
  BY DEF Event
<1>4. events = first \o <<press, release>> \o last
  BY DEF Stroke
<1> HIDE DEF mapping, first, last, press, release, events
<1>5. /\ <<press, release>> \in Seq(KeyEvent) /\ Len(<<press, release>>) = 2
      /\ <<press, release>>[1] = press /\ <<press, release>>[2] = release
  BY <1>2
<1>6. /\ first \o <<press, release>> \in Seq(KeyEvent)
      /\ Len(first \o <<press, release>>) = Len(first) + 2
      /\ \A j \in 1..Len(first) + 2 :
            (first \o <<press, release>>)[j] =
               IF j <= Len(first) THEN first[j] ELSE <<press, release>>[j - Len(first)]
  BY <1>1, <1>5, ConcatProperties
<1>7. /\ events \in Seq(KeyEvent) /\ Len(events) = Len(first) + 2 + Len(last)
      /\ \A j \in 1..Len(first) + 2 + Len(last) :
            events[j] = IF j <= Len(first) + 2 THEN (first \o <<press, release>>)[j]
                        ELSE last[j - (Len(first) + 2)]
  BY <1>1, <1>4, <1>6, ConcatProperties
<1>8. /\ \A j \in 1..Len(first) : events[j].code = "LEFTSHIFT"
      /\ events[Len(first) + 1] = press /\ events[Len(first) + 2] = release
      /\ \A j \in Len(first) + 3..Len(events) : events[j].code = "LEFTSHIFT"
  <2>1. \A j \in 1..Len(first) : events[j].code = "LEFTSHIFT"
    BY <1>1, <1>6, <1>7
  <2>2. events[Len(first) + 1] = press /\ events[Len(first) + 2] = release
    BY <1>1, <1>5, <1>6, <1>7
  <2>3. ASSUME NEW j \in Len(first) + 3..Len(events)
        PROVE  events[j].code = "LEFTSHIFT"
    <3>1. j - (Len(first) + 2) \in 1..Len(last) /\ events[j] = last[j - (Len(first) + 2)]
      BY <1>1, <1>7
    <3>2. QED BY <1>1, <3>1
  <2>4. QED BY <2>1, <2>2, <2>3
<1>9. ASSUME NEW j \in 1..Len(events), events[j].code # "LEFTSHIFT", events[j].value = 1
      PROVE  j = Len(first) + 1
  BY <1>1, <1>3, <1>7, <1>8, <1>9
<1>10. QED BY <1>1, <1>3, <1>7, <1>8, <1>9 DEF events

\* What is down after some events was down before or is the code of one of them.
LEMMA AfterCodes ==
    ASSUME NEW codes, NEW events, codes \subseteq Code, \A e \in events : e.code \in Code
    PROVE  After(codes, events) \subseteq Code
  BY DEF After

\* A code is down after some events if the last one of it says so, or if there is none
\* and it was down before.
LEMMA AfterCase ==
    ASSUME NEW codes, NEW events, NEW c \in After(codes, events)
    PROVE  \/ \E e \in events :
                 /\ e.code = c /\ e.value = 1
                 /\ \A f \in events : f.code = c => f.at <= e.at
           \/ c \in codes /\ \A e \in events : e.code # c
  BY DEF After

\* The other way round.
LEMMA AfterThere ==
    ASSUME NEW codes, NEW events, NEW c
    PROVE  /\ (\E e \in events :
                    /\ e.code = c /\ e.value = 1
                    /\ \A f \in events : f.code = c => f.at <= e.at)
                 => c \in After(codes, events)
           /\ c \in codes /\ (\A e \in events : e.code # c)
                 => c \in After(codes, events)
  BY DEF After

\* Some events are those of n batches, of the last one the first k, in their places.
InPlace(events, batches, n, k) ==
    /\ \A e \in events : \E i \in 1..n : \E j \in 1..Len(batches[i]) :
          /\ batches[i][j] \in KeyEvent /\ e.at = 4 * i + j
          /\ e.code = batches[i][j].code /\ e.value = batches[i][j].value
    /\ \A i \in 1..n : \A j \in 1..Len(batches[i]) :
          (i = n => j <= k) =>
             \E e \in events : /\ e.at = 4 * i + j /\ e.code = batches[i][j].code
                               /\ e.value = batches[i][j].value

\* The events that were written are those of the batches.
LEMMA EmittedIs ==
    ASSUME NEW batches, NEW n \in Nat, NEW k \in 0..Len(batches[n]),
           \A i \in 1..n : /\ batches[i] \in Seq(KeyEvent)
                           /\ Len(batches[i]) \in Nat /\ Len(batches[i]) <= 4
    PROVE  InPlace(Emitted(batches, n, k), batches, n, k)
<1>1. \A i \in 1..n : /\ batches[i] \in Seq(KeyEvent)
                      /\ Len(batches[i]) \in Nat /\ Len(batches[i]) <= 4
  OBVIOUS
<1>2. \A t, e : /\ At(t, e).at = t /\ At(t, e).code = e.code
                /\ At(t, e).value = e.value
  BY DEF At
<1>3. ASSUME NEW e \in Emitted(batches, n, k)
      PROVE  \E i \in 1..n : \E j \in 1..Len(batches[i]) :
                 /\ batches[i][j] \in KeyEvent /\ e.at = 4 * i + j
                 /\ e.code = batches[i][j].code /\ e.value = batches[i][j].value
  <2>1. PICK p \in (1..n) \X (1..4) :
           /\ p[2] <= IF p[1] = n THEN k ELSE Len(batches[p[1]])
           /\ e = At(4 * p[1] + p[2], batches[p[1]][p[2]])
    BY DEF Emitted
  <2>2. PICK i \in 1..n, j \in 1..4 :
           /\ j <= IF i = n THEN k ELSE Len(batches[i])
           /\ e = At(4 * i + j, batches[i][j])
    BY <2>1
  <2>3. j \in 1..Len(batches[i])
    <3>1. j <= Len(batches[i])
      BY <1>1, <2>2
    <3>2. QED BY <1>1, <3>1
  <2>4. batches[i][j] \in KeyEvent
    BY <1>1, <2>3
  <2>5. e.at = 4 * i + j /\ e.code = batches[i][j].code /\ e.value = batches[i][j].value
    BY <1>2, <2>2
  <2>6. QED BY <2>3, <2>4, <2>5
<1>4. ASSUME NEW i \in 1..n, NEW j \in 1..Len(batches[i]), i = n => j <= k
      PROVE  \E e \in Emitted(batches, n, k) :
                /\ e.at = 4 * i + j /\ e.code = batches[i][j].code
                /\ e.value = batches[i][j].value
  <2>1. j \in 1..4
    <3>1. Len(batches[i]) \in Nat /\ Len(batches[i]) <= 4
      BY <1>1
    <3>2. QED BY <3>1
  <2>2. /\ <<i, j>> \in (1..n) \X (1..4) /\ <<i, j>>[1] = i /\ <<i, j>>[2] = j
        /\ j <= IF i = n THEN k ELSE Len(batches[i])
    BY <1>1, <1>4, <2>1
  <2>3. At(4 * i + j, batches[i][j]) \in Emitted(batches, n, k)
    BY <2>2 DEF Emitted
  <2>4. /\ At(4 * i + j, batches[i][j]).at = 4 * i + j
        /\ At(4 * i + j, batches[i][j]).code = batches[i][j].code
        /\ At(4 * i + j, batches[i][j]).value = batches[i][j].value
    BY <1>2
  <2>5. QED BY <2>3, <2>4
<1>5. QED BY <1>3, <1>4 DEF InPlace

\* A handler that got through without a fault wrote everything.
LEMMA WritesFaults ==
    ASSUME NEW batches, NEW n, NEW k, Writes(batches, n, k),
           MaxFaults \in Nat, faults \in 0..MaxFaults
    PROVE  /\ faults' \in 0..MaxFaults
           /\ faults' = 0 => faults = 0 /\ n = Len(batches) /\ k = Len(batches[n])
  BY DEF Writes, Failing

\* What every handler of keys leaves.
KeysKept ==
    /\ held' \subseteq Code /\ pressedKeys' \subseteq Code
    /\ faults' \in 0..MaxFaults
    /\ faults' = 0 => faults = 0 /\ KeysTracked'

\* Calls of key remember what they press, up to the call that fails.
LEMMA CallsStep ==
    ASSUME MaxFaults \in Nat, DevicesInv, NEW calls \in Seq(KeyCalls), Calls(calls)
    PROVE  KeysKept
<1> DEFINE batches == [i \in DOMAIN calls |-> KeyEvents(calls[i])]
<1>1. PICK n \in 1..Len(calls), k \in 0..2 :
         /\ Writes(batches, n, k)
         /\ pressedKeys' = After(pressedKeys, {At(i, Track(calls[i])) : i \in 1..n})
  BY DEF Calls
<1> DEFINE emitted == Emitted(batches, n, k)
           tracked == {At(i, Track(calls[i])) : i \in 1..n}
<1>2. /\ Len(calls) \in Nat /\ DOMAIN calls = 1..Len(calls) /\ Len(batches) = Len(calls)
      /\ \A i \in 1..Len(calls) : calls[i] \in KeyCalls /\ batches[i] = KeyEvents(calls[i])
  <2>1. \A i \in 1..Len(calls) : calls[i] \in KeyCalls
    OBVIOUS
  <2>2. QED BY <2>1
<1>3. ASSUME NEW i \in 1..Len(calls)
      PROVE  /\ batches[i] \in Seq(KeyEvent) /\ Len(batches[i]) \in Nat /\ Len(batches[i]) <= 2
             /\ Track(calls[i]) \in KeyEvent
             /\ \A j \in 1..Len(batches[i]) :
                   batches[i][j].code # "LEFTSHIFT" => batches[i][j] = Track(calls[i])
             /\ \E j \in 1..Len(batches[i]) : batches[i][j] = Track(calls[i])
  BY <1>2, KeyBatch
<1>4. \A i \in 1..Len(calls) : /\ batches[i] \in Seq(KeyEvent)
                               /\ Len(batches[i]) \in Nat /\ Len(batches[i]) <= 4
  <2> HIDE DEF batches
  <2>1. QED BY <1>3
<1>5. n \in 1..Len(calls) /\ n \in Nat /\ k \in 0..Len(batches[n])
  <2>1. k \in 0..Len(batches[n])
    BY <1>1 DEF Writes
  <2> HIDE DEF batches
  <2>2. QED BY <1>2, <2>1
<1>6. held' = After(held, emitted)
  BY <1>1 DEF Writes
<1>7. /\ \A i \in 1..n : \E t \in tracked :
            t.at = i /\ t.code = Track(calls[i]).code /\ t.value = Track(calls[i]).value
      /\ \A t \in tracked : \E i \in 1..n :
            t.at = i /\ t.code = Track(calls[i]).code /\ t.value = Track(calls[i]).value
  <2>1. \A i \in 1..n : LET t == At(i, Track(calls[i]))
                       IN  /\ t \in tracked /\ t.at = i
                           /\ t.code = Track(calls[i]).code
                           /\ t.value = Track(calls[i]).value
    BY DEF At
  <2>2. \A t \in tracked : \E i \in 1..n : t = At(i, Track(calls[i]))
    OBVIOUS
  <2> HIDE DEF tracked
  <2>3. QED BY <2>1, <2>2
<1> HIDE DEF batches, emitted, tracked
<1>8. InPlace(emitted, batches, n, k)
  <2>1. \A i \in 1..n : /\ batches[i] \in Seq(KeyEvent)
                        /\ Len(batches[i]) \in Nat /\ Len(batches[i]) <= 4
    BY <1>2, <1>4, <1>5
  <2>2. k \in 0..Len(batches[n]) /\ n \in Nat
    BY <1>5
  <2> HIDE DEF emitted
  <2>3. emitted = Emitted(batches, n, k)
    BY DEF emitted
  <2>4. QED BY <2>1, <2>2, <2>3, EmittedIs
<1>9. held' \subseteq Code
  <2>1. \A e \in emitted : e.code \in Code
    BY <1>8 DEF InPlace, KeyEvent
  <2>2. QED BY <1>6, <2>1, AfterCodes DEF DevicesInv, VITypeOK
<1>10. pressedKeys' \subseteq Code
  <2>1. ASSUME NEW t \in tracked PROVE t.code \in Code
    <3>1. PICK i \in 1..n : t.code = Track(calls[i]).code
      BY <1>7
    <3>2. i \in 1..Len(calls)
      BY <1>5
    <3>3. QED BY <1>3, <3>1, <3>2 DEF KeyEvent
  <2>2. QED BY <1>1, <2>1, AfterCodes DEF DevicesInv, VITypeOK, tracked
<1>11. /\ faults' \in 0..MaxFaults
       /\ faults' = 0 => faults = 0 /\ n = Len(batches) /\ k = Len(batches[n])
  BY <1>1, WritesFaults DEF DevicesInv, VITypeOK
<1>12. ASSUME faults' = 0 PROVE KeysTracked'
  <2>1. SUFFICES ASSUME NEW c \in held', c # "LEFTSHIFT" PROVE c \in pressedKeys'
    BY DEF KeysTracked
  <2>2. ASSUME NEW t \in tracked, t.code = c
        PROVE  \E e \in emitted : \E j \in 1..2 :
                  e.code = c /\ e.at = 4 * t.at + j /\ e.value = t.value
    <3>1. PICK i \in 1..n : t.at = i /\ t.code = Track(calls[i]).code
                            /\ t.value = Track(calls[i]).value
      BY <1>7
    <3>2. i \in 1..Len(calls)
      BY <1>2, <1>5
    <3>3. /\ Len(batches[i]) \in Nat /\ Len(batches[i]) <= 2
          /\ \E j \in 1..Len(batches[i]) : batches[i][j] = Track(calls[i])
      BY <1>3, <3>2
    <3>4. PICK j \in 1..Len(batches[i]) : batches[i][j] = Track(calls[i])
      BY <3>3
    <3>5. j \in 1..2 /\ (i = n => j <= k)
      <4>1. k = Len(batches[n])
        BY <1>11, <1>12
      <4>2. QED BY <3>3, <4>1
    <3>6. PICK e \in emitted : /\ e.at = 4 * i + j /\ e.code = batches[i][j].code
                               /\ e.value = batches[i][j].value
      BY <1>8, <3>5 DEF InPlace
    <3>7. QED BY <2>2, <3>1, <3>4, <3>5, <3>6
  <2>3. CASE \E e \in emitted : /\ e.code = c /\ e.value = 1
                                /\ \A f \in emitted : f.code = c => f.at <= e.at
    <3>1. PICK e \in emitted : /\ e.code = c /\ e.value = 1
                               /\ \A f \in emitted : f.code = c => f.at <= e.at
      BY <2>3
    <3>2. PICK i \in 1..n : \E j \in 1..Len(batches[i]) :
             /\ e.at = 4 * i + j /\ e.code = batches[i][j].code
             /\ e.value = batches[i][j].value
      BY <1>8 DEF InPlace
    <3>3. PICK j \in 1..Len(batches[i]) :
             /\ e.at = 4 * i + j /\ e.code = batches[i][j].code
             /\ e.value = batches[i][j].value
      BY <3>2
    <3>4. batches[i][j] = Track(calls[i]) /\ j \in 1..2
      <4>1. i \in 1..Len(calls) /\ batches[i][j].code # "LEFTSHIFT"
        BY <1>2, <1>5, <2>1, <3>1, <3>3
      <4>2. batches[i][j] = Track(calls[i]) /\ Len(batches[i]) \in Nat /\ Len(batches[i]) <= 2
        BY <1>3, <3>3, <4>1
      <4>3. QED BY <4>2
    <3>5. PICK t \in tracked : t.at = i /\ t.code = c /\ t.value = 1
      <4>1. Track(calls[i]).code = c /\ Track(calls[i]).value = 1
        BY <3>1, <3>3, <3>4
      <4>2. QED BY <1>7, <4>1
    <3>6. ASSUME NEW f \in tracked, f.code = c PROVE f.at <= t.at
      <4>1. PICK g \in emitted, l \in 1..2 : g.code = c /\ g.at = 4 * f.at + l
        BY <2>2, <3>6
      <4>2. f.at \in 1..n
        BY <1>7
      <4>3. 4 * f.at + l <= 4 * i + j
        BY <3>1, <3>3, <4>1
      <4>4. QED BY <3>4, <3>5, <4>2, <4>3
    <3>7. QED BY <1>1, <3>5, <3>6, AfterThere DEF tracked
  <2>4. CASE c \in held /\ \A e \in emitted : e.code # c
    <3>1. c \in pressedKeys
      BY <1>11, <1>12, <2>1, <2>4 DEF DevicesInv, KeysTracked
    <3>2. \A t \in tracked : t.code # c
      BY <2>2, <2>4
    <3>3. QED BY <1>1, <3>1, <3>2, AfterThere DEF tracked
  <2>5. QED BY <1>6, <2>1, <2>3, <2>4, AfterCase
<1>13. QED BY <1>9, <1>10, <1>11, <1>12 DEF KeysKept

\* Text that is typed leaves no key down.
LEMMA TypeStep ==
    ASSUME MaxFaults \in Nat, DevicesInv, NEW keysyms \in Seq(Keysym), Type(keysyms)
    PROVE  KeysKept
<1> DEFINE batches == [i \in DOMAIN keysyms |-> Stroke(keysyms[i])]
<1>1. PICK n \in 1..Len(keysyms), k \in 0..4 : Writes(batches, n, k)
  BY DEF Type
<1> DEFINE emitted == Emitted(batches, n, k)
<1>2. /\ Len(keysyms) \in Nat /\ DOMAIN keysyms = 1..Len(keysyms)
      /\ Len(batches) = Len(keysyms)
      /\ \A i \in 1..Len(keysyms) : keysyms[i] \in Keysym /\ batches[i] = Stroke(keysyms[i])
  <2>1. \A i \in 1..Len(keysyms) : keysyms[i] \in Keysym
    OBVIOUS
  <2>2. QED BY <2>1
<1>3. ASSUME NEW i \in 1..Len(keysyms)
      PROVE  /\ batches[i] \in Seq(KeyEvent) /\ Len(batches[i]) \in Nat /\ Len(batches[i]) <= 4
             /\ \A j \in 1..Len(batches[i]) :
                   batches[i][j].code # "LEFTSHIFT" /\ batches[i][j].value = 1 =>
                      /\ j + 1 <= Len(batches[i])
                      /\ batches[i][j + 1] = Event(batches[i][j].code, 0)
  BY <1>2, StrokeBatch
<1>4. \A i \in 1..Len(keysyms) : /\ batches[i] \in Seq(KeyEvent)
                                 /\ Len(batches[i]) \in Nat /\ Len(batches[i]) <= 4
  <2> HIDE DEF batches
  <2>1. QED BY <1>3
<1>5. n \in 1..Len(keysyms) /\ n \in Nat /\ k \in 0..Len(batches[n])
  <2>1. k \in 0..Len(batches[n])
    BY <1>1 DEF Writes
  <2> HIDE DEF batches
  <2>2. QED BY <1>2, <2>1
<1>6. held' = After(held, emitted) /\ pressedKeys' = pressedKeys
  BY <1>1 DEF Writes, Type
<1> HIDE DEF batches, emitted
<1>7. InPlace(emitted, batches, n, k)
  <2>1. \A i \in 1..n : /\ batches[i] \in Seq(KeyEvent)
                        /\ Len(batches[i]) \in Nat /\ Len(batches[i]) <= 4
    BY <1>2, <1>4, <1>5
  <2>2. k \in 0..Len(batches[n]) /\ n \in Nat
    BY <1>5
  <2> HIDE DEF emitted
  <2>3. emitted = Emitted(batches, n, k)
    BY DEF emitted
  <2>4. QED BY <2>1, <2>2, <2>3, EmittedIs
<1>8. held' \subseteq Code /\ pressedKeys' \subseteq Code
  <2>1. \A e \in emitted : e.code \in Code
    BY <1>7 DEF InPlace, KeyEvent
  <2>2. QED BY <1>6, <2>1, AfterCodes DEF DevicesInv, VITypeOK
<1>9. /\ faults' \in 0..MaxFaults
      /\ faults' = 0 => faults = 0 /\ n = Len(batches) /\ k = Len(batches[n])
  BY <1>1, WritesFaults DEF DevicesInv, VITypeOK
<1>10. ASSUME faults' = 0 PROVE KeysTracked'
  <2>1. SUFFICES ASSUME NEW c \in held', c # "LEFTSHIFT" PROVE c \in held
    BY <1>6, <1>9, <1>10 DEF DevicesInv, KeysTracked
  <2>2. ASSUME NEW e \in emitted, e.code = c, e.value = 1
        PROVE  \E f \in emitted : f.code = c /\ ~(f.at <= e.at)
    <3>1. PICK i \in 1..n : \E j \in 1..Len(batches[i]) :
             /\ batches[i][j] \in KeyEvent /\ e.at = 4 * i + j
             /\ e.code = batches[i][j].code /\ e.value = batches[i][j].value
      BY <1>7 DEF InPlace
    <3>2. PICK j \in 1..Len(batches[i]) :
             /\ batches[i][j] \in KeyEvent /\ e.at = 4 * i + j
             /\ e.code = batches[i][j].code /\ e.value = batches[i][j].value
      BY <3>1
    <3>3. /\ j + 1 <= Len(batches[i]) /\ batches[i][j + 1] = Event(c, 0)
          /\ Len(batches[i]) \in Nat /\ Len(batches[i]) <= 4
      <4>1. i \in 1..Len(keysyms) /\ batches[i][j].code = c /\ batches[i][j].value = 1
        BY <1>2, <1>5, <2>2, <3>2
      <4>2. QED BY <1>3, <2>1, <4>1
    <3>4. j + 1 \in 1..Len(batches[i]) /\ (i = n => j + 1 <= k)
      BY <1>9, <1>10, <3>3
    <3>5. PICK f \in emitted : f.at = 4 * i + (j + 1) /\ f.code = batches[i][j + 1].code
      BY <1>7, <3>4 DEF InPlace
    <3>6. f.code = c
      BY <3>3, <3>5 DEF Event
    <3>7. QED BY <3>2, <3>5, <3>6
  <2>3. QED BY <1>6, <2>1, <2>2, AfterCase
<1>11. QED BY <1>8, <1>9, <1>10 DEF KeysKept

\* The devices start at rest.
LEMMA DevicesInit == MaxFaults \in Nat /\ VIInit => DevicesInv
<1> SUFFICES ASSUME MaxFaults \in Nat, VIInit PROVE DevicesInv
  OBVIOUS
<1>1. 0 \in -Threshold + 1..Threshold - 1
  BY DEF Threshold
<1>2. /\ padState \in [ToSet(Control) -> Value \cup {Unset}]
      /\ padValue \in [ToSet(Control) -> Value]
      /\ \A c \in ToSet(Control) : padState[c] = Unset
  BY DEF VIInit, NewPad, Neutral, Value
<1>3. VITypeOK
  <2>1. 0 \in 0..MaxFaults /\ 0 \in Int
    OBVIOUS
  <2>2. padExists = FALSE /\ ready \in BOOLEAN /\ padAvailable \in BOOLEAN
    BY DEF VIInit
  <2>3. QED BY <1>1, <1>2, <2>1, <2>2 DEF VIInit, VITypeOK
<1>4. KeysTracked /\ ButtonsTracked /\ PadTracked /\ WheelTracked /\ unsure = {}
  BY <1>2 DEF VIInit, KeysTracked, ButtonsTracked, PadTracked, WheelTracked
<1>5. QED BY <1>3, <1>4 DEF DevicesInv

\* A handler of keys leaves the other devices alone.
LEMMA KeysOnly ==
    ASSUME DevicesInv, KeysKept,
           UNCHANGED <<connected, ready, buttonVars, wheelVars, padVars, unsure>>
    PROVE  DevicesInv'
<1>1. VITypeOK'
  BY DEF DevicesInv, KeysKept, VITypeOK, buttonVars, wheelVars, padVars
<1>2. WheelTracked' /\ ButtonsTracked' /\ PadTracked'
  BY DEF DevicesInv, WheelTracked, ButtonsTracked, PadTracked, wheelVars, buttonVars, padVars
<1>3. faults' = 0 => KeysTracked' /\ unsure' = {}
  BY DEF DevicesInv, KeysKept
<1>4. QED BY <1>1, <1>2, <1>3 DEF DevicesInv

\* A shortcut is a sequence of calls of key.
LEMMA CallsOf ==
    ASSUME NEW keysyms \in Seq(Keysym), NEW value \in Value
    PROVE  [i \in DOMAIN keysyms |-> Call(keysyms[i], value)] \in Seq(KeyCalls)
<1>1. \A keysym \in Keysym : Call(keysym, value) \in KeyCalls
  BY DEF Call, KeyCalls
<1>2. /\ DOMAIN keysyms = 1..Len(keysyms) /\ Len(keysyms) \in Nat
      /\ \A i \in 1..Len(keysyms) : keysyms[i] \in Keysym
  OBVIOUS
<1>3. \A i \in 1..Len(keysyms) : Call(keysyms[i], value) \in KeyCalls
  BY <1>1, <1>2
<1>4. [i \in 1..Len(keysyms) |-> Call(keysyms[i], value)] \in Seq(KeyCalls)
  BY <1>2, <1>3
<1>5. QED BY <1>2, <1>4

\* A shortcut keeps the invariant of the devices.
LEMMA ShortcutStep ==
    ASSUME MaxFaults \in Nat, DevicesInv, NEW keysyms \in Seq(Keysym), Shortcut(keysyms)
    PROVE  DevicesInv'
<1> DEFINE All(value, keys) == [i \in DOMAIN keys |-> Call(keys[i], value)]
<1>1. Reverse(keysyms) \in Seq(Keysym)
  BY DEF Reverse
<1>2. All(1, keysyms) \in Seq(KeyCalls) /\ All(0, Reverse(keysyms)) \in Seq(KeyCalls)
  BY <1>1, CallsOf DEF Value
<1>3. Calls(All(1, keysyms) \o All(0, Reverse(keysyms)))
  BY DEF Shortcut
<1> HIDE DEF All
<1>4. KeysKept
  BY <1>2, <1>3, CallsStep, ConcatProperties
<1>5. QED BY <1>4, KeysOnly DEF Shortcut

\* Single keys, shortcuts, text and the paste.
LEMMA KeyboardStep ==
    ASSUME MaxFaults \in Nat, DevicesInv,
           \/ \E keysym \in Keysym, value \in Value : Key(keysym, value)
           \/ \E keysyms \in {<<"ctrl", "plain">>, <<"ctrl", "shift", "shifted">>} :
                 Shortcut(keysyms)
           \/ Type(<<"plain", "shifted">>) \/ Paste
    PROVE  DevicesInv'
<1>1. /\ <<"ctrl", "plain">> \in Seq(Keysym)
      /\ <<"ctrl", "shift", "shifted">> \in Seq(Keysym)
      /\ <<"plain", "shifted">> \in Seq(Keysym)
  BY DEF Keysym
<1>2. ASSUME NEW keysym \in Keysym, NEW value \in Value, Key(keysym, value)
      PROVE  DevicesInv'
  <2>1. Call(keysym, value) \in KeyCalls
    BY DEF Call, KeyCalls
  <2>2. \A call \in KeyCalls : <<call>> \in Seq(KeyCalls)
    OBVIOUS
  <2>3. KeysKept
    BY <1>2, <2>1, <2>2, CallsStep DEF Key
  <2>4. QED BY <1>2, <2>3, KeysOnly DEF Key
<1>3. CASE Type(<<"plain", "shifted">>)
  <2>1. KeysKept
    BY <1>1, <1>3, TypeStep
  <2>2. QED BY <1>3, <2>1, KeysOnly DEF Type
<1>4. CASE Paste
  <2>1. \A a, b, c, d \in KeyCalls : <<a, b, c, d>> \in Seq(KeyCalls)
    OBVIOUS
  <2>2. /\ Call("ctrl", 1) \in KeyCalls /\ Call("plain", 1) \in KeyCalls
        /\ Call("plain", 0) \in KeyCalls /\ Call("ctrl", 0) \in KeyCalls
    BY DEF Call, KeyCalls, Keysym, Value
  <2>3. KeysKept
    BY <1>4, <2>1, <2>2, CallsStep DEF Paste
  <2>4. QED BY <1>4, <2>3, KeysOnly DEF Paste
<1>5. QED BY <1>1, <1>2, <1>3, <1>4, ShortcutStep

\* No control of the gamepad is a button of the pointer.
LEMMA ControlsAreNoButtons == \A b \in Button : b \notin ToSet(Control)
  BY DEF Button, Control, ToSet

\* A button is written when its state changes, and remembered.
LEMMA ButtonStep ==
    ASSUME MaxFaults \in Nat, DevicesInv, NEW b \in Button, NEW value \in Value,
           PointerButton(b, value)
    PROVE  DevicesInv'
<1> DEFINE written == After(down, {At(1, Event(b, value))})
<1>1. written = IF value = 1 THEN down \cup {b} ELSE down \ {b}
  BY DEF After, At, Event, Value
<1> HIDE DEF written
<1>2. /\ pressedButtons' = IF value = 1 THEN pressedButtons \cup {b} ELSE pressedButtons \ {b}
      /\ \/ down' = written /\ unsure' = unsure \ {b} /\ faults' = faults
         \/ /\ down' \in {down, written} /\ unsure' = unsure \cup {b}
            /\ faults < MaxFaults /\ faults' = faults + 1
      /\ UNCHANGED <<connected, ready, keyVars, wheelVars, padVars>>
  BY DEF PointerButton, Written, NotWritten, Failing, written
<1>3. faults' \in 0..MaxFaults /\ (faults' = 0 => faults = 0 /\ unsure' = unsure \ {b})
  BY <1>2 DEF DevicesInv, VITypeOK
<1>4. VITypeOK'
  BY <1>1, <1>2, <1>3 DEF DevicesInv, VITypeOK, keyVars, wheelVars, padVars
<1>5. ButtonsTracked'
  BY <1>1, <1>2 DEF DevicesInv, ButtonsTracked
<1>6. PadTracked' /\ WheelTracked'
  BY <1>2, ControlsAreNoButtons
     DEF DevicesInv, PadTracked, WheelTracked, wheelVars, padVars
<1>7. faults' = 0 => KeysTracked' /\ unsure' = {}
  BY <1>2, <1>3 DEF DevicesInv, KeysTracked, keyVars
<1>8. QED BY <1>4, <1>5, <1>6, <1>7 DEF DevicesInv

\* What a finish leaves is rounded up, or no more than an eighth of a step.
LEMMA FinishLeaves ==
    ASSUME NEW r \in Int, NEW finish \in BOOLEAN, finish
    PROVE  Left(r, finish) \in -3..3
<1>1. CASE RoundsUp(r, finish)
  BY <1>1 DEF Left
<1>2. CASE ~RoundsUp(r, finish)
  <2>1. r \in -3..3 /\ Magnitude(r) \in 0..3
    BY <1>2 DEF RoundsUp, Magnitude
  <2>2. Magnitude(r) \div Threshold = 0
    BY <2>1 DEF Threshold
  <2>3. Steps(r, finish) = 0
    BY <1>2, <2>2 DEF Steps, Truncated, Sign
  <2>4. Left(r, finish) = r
    <3>1. Left(r, finish) = r - 0 * Threshold
      BY <1>2, <2>3 DEF Left
    <3>2. r - 0 * Threshold = r
      BY DEF Threshold
    <3>3. QED BY <3>1, <3>2
  <2>5. QED BY <2>1, <2>4
<1>3. QED BY <1>1, <1>2

\* Until it ends, a motion leaves what its steps did not move.
LEMMA MotionLeaves ==
    ASSUME NEW r \in Int, NEW finish \in BOOLEAN, ~finish
    PROVE  Left(r, finish) = r - Steps(r, finish) * Threshold
  BY DEF Left, RoundsUp

\* The wheel keeps what the finger is ahead.
LEMMA WheelStep ==
    ASSUME MaxFaults \in Nat, DevicesInv, NEW delta \in WheelDelta, NEW finish \in BOOLEAN,
           ScrollWheel(delta, finish)
    PROVE  DevicesInv'
<1> DEFINE r == scrollRemainder + delta
           moved == Steps(r, finish)
<1>1. scrollRemainder \in Int /\ delta \in Int /\ r \in Int
  BY DeviceAssumption DEF DevicesInv, VITypeOK, Threshold
<1>2. /\ Left(r, finish) \in -Threshold + 1..Threshold - 1
      /\ moved \in Int
  BY <1>1, WheelKeepsLess
<1>3. /\ scrollRemainder' = Left(r, finish)
      /\ UNCHANGED <<connected, ready, keyVars, buttonVars, padVars, unsure>>
  BY DEF ScrollWheel
<1>4. \/ /\ owed' = IF finish THEN 0 ELSE owed + delta - moved * Threshold
         /\ slipped' = (~finish /\ (slipped \/ FALSE)) /\ faults' = faults
      \/ /\ \E steps \in {0, moved} :
                owed' = IF finish THEN 0 ELSE owed + delta - steps * Threshold
         /\ slipped' = (~finish /\ (slipped \/ TRUE))
         /\ faults < MaxFaults /\ faults' = faults + 1
  BY DEF ScrollWheel, Failing
<1>5. owed \in Int /\ Threshold = 24 /\ slipped \in BOOLEAN
  BY DEF DevicesInv, VITypeOK, Threshold
<1>6. owed' \in Int /\ slipped' \in BOOLEAN
  <2>1. \A steps \in {0, moved} : owed + delta - steps * Threshold \in Int
    BY <1>1, <1>2, <1>5
  <2>2. owed' \in Int
    <3> HIDE DEF moved, r
    <3>1. QED BY <1>4, <2>1
  <2>3. slipped' \in BOOLEAN
    BY <1>4
  <2>4. QED BY <2>2, <2>3
<1>7. faults' \in 0..MaxFaults /\ (faults' = 0 => faults = 0)
  BY <1>4 DEF DevicesInv, VITypeOK
<1>8. VITypeOK'
  BY <1>2, <1>3, <1>6, <1>7
     DEF DevicesInv, VITypeOK, keyVars, buttonVars, padVars, Threshold
<1>9. WheelTracked'
  <2>1. CASE finish
    <3>1. owed' = 0 /\ scrollRemainder' \in -3..3
      BY <1>1, <1>3, <1>4, <2>1, FinishLeaves
    <3>2. \A n \in -3..3 : 0 - n \in -3..3
      OBVIOUS
    <3>3. owed' - scrollRemainder' \in -3..3
      BY <3>1, <3>2
    <3>4. QED BY <3>3 DEF WheelTracked
  <2>2. CASE ~finish
    <3>1. SUFFICES ASSUME ~slipped' PROVE owed' - scrollRemainder' \in -3..3
      BY DEF WheelTracked
    <3>2. ~slipped /\ owed' = owed + delta - moved * Threshold
      BY <1>4, <2>2, <3>1
    <3>3. scrollRemainder' = r - moved * Threshold
      BY <1>1, <1>3, <2>2, MotionLeaves
    <3>4. owed - scrollRemainder \in -3..3
      BY <3>2 DEF DevicesInv, WheelTracked
    <3>5. moved * Threshold \in Int
      BY <1>2, <1>5
    <3>6. QED BY <1>1, <1>5, <3>2, <3>3, <3>4, <3>5
  <2>3. QED BY <2>1, <2>2
<1>10. QED
  BY <1>3, <1>7, <1>8, <1>9
     DEF DevicesInv, KeysTracked, ButtonsTracked, PadTracked, keyVars, buttonVars, padVars

\* What the steps of the gamepad leave of it.
PadKept ==
    /\ padState' \in [ToSet(Control) -> Value \cup {Unset}]
    /\ padValue' \in [ToSet(Control) -> Value]
    /\ unsure' \subseteq Button \cup ToSet(Control)
    /\ \A b \in Button : b \in unsure' <=> b \in unsure
    /\ faults' \in 0..MaxFaults
    /\ faults' = 0 => faults = 0 /\ unsure' = {}
    /\ PadTracked'

\* A reset remembers what it wrote, of every control it got to.
LEMMA ResetKeeps ==
    ASSUME MaxFaults \in Nat, DevicesInv, Reset
    PROVE  PadKept
<1>1. PICK n \in 0..Len(Control) :
         /\ padState' = Zeroed(padState, First(n)) /\ padValue' = Zeroed(padValue, First(n))
         /\ unsure' = unsure \ First(n)
         /\ faults' = faults \/ (faults < MaxFaults /\ faults' = faults + 1)
  BY DEF Reset, Failing
<1>2. /\ faults' \in 0..MaxFaults
      /\ faults' = 0 => faults = 0 /\ unsure' = {}
  BY <1>1 DEF DevicesInv, VITypeOK
<1>3. /\ unsure' \subseteq Button \cup ToSet(Control)
      /\ \A b \in Button : b \in unsure' <=> b \in unsure
  <2>1. First(n) \subseteq ToSet(Control)
    BY DEF First, ToSet, Control
  <2>2. unsure \subseteq Button \cup ToSet(Control)
    BY DEF DevicesInv, VITypeOK
  <2>3. QED BY <1>1, <2>1, <2>2, ControlsAreNoButtons
<1>4. /\ padState \in [ToSet(Control) -> Value \cup {Unset}]
      /\ padValue \in [ToSet(Control) -> Value]
  BY DEF DevicesInv, VITypeOK
<1>5. /\ padState' \in [ToSet(Control) -> Value \cup {Unset}]
      /\ padValue' \in [ToSet(Control) -> Value]
  BY <1>1, <1>4 DEF Value, Zeroed
<1>6. PadTracked'
  BY <1>1, <1>4 DEF DevicesInv, PadTracked, Zeroed
<1>7. QED BY <1>2, <1>3, <1>5, <1>6 DEF PadKept

\* An event of a control is written when its state changes, and remembered.
LEMMA ControlKeeps ==
    ASSUME MaxFaults \in Nat, DevicesInv, NEW c \in ToSet(Control), NEW value \in Value,
           ControllerEvent(c, value)
    PROVE  PadKept
<1>1. \/ UNCHANGED <<padState, padValue, unsure, faults>>
      \/ /\ padState' = [padState EXCEPT ![c] = value]
         /\ padValue' = [padValue EXCEPT ![c] = value]
         /\ unsure' = unsure \ {c} /\ faults' = faults
      \/ /\ padState' = [padState EXCEPT ![c] = value]
         /\ padValue' \in {padValue, [padValue EXCEPT ![c] = value]}
         /\ unsure' = unsure \cup {c} /\ faults < MaxFaults /\ faults' = faults + 1
  BY DEF ControllerEvent, Written, NotWritten, Failing
<1>2. /\ padState \in [ToSet(Control) -> Value \cup {Unset}]
      /\ padValue \in [ToSet(Control) -> Value] /\ faults \in 0..MaxFaults
      /\ unsure \subseteq Button \cup ToSet(Control)
  BY DEF DevicesInv, VITypeOK
<1>3. /\ padState' \in [ToSet(Control) -> Value \cup {Unset}]
      /\ padValue' \in [ToSet(Control) -> Value]
  BY <1>1, <1>2
<1>4. /\ unsure' \subseteq Button \cup ToSet(Control)
      /\ \A b \in Button : b \in unsure' <=> b \in unsure
  BY <1>1, <1>2, ControlsAreNoButtons
<1>5. /\ faults' \in 0..MaxFaults
      /\ faults' = 0 => faults = 0 /\ unsure' = {}
  BY <1>1, <1>2 DEF DevicesInv
<1>6. PadTracked'
  BY <1>1, <1>2 DEF DevicesInv, PadTracked
<1>7. QED BY <1>3, <1>4, <1>5, <1>6 DEF PadKept

\* A device that goes is forgotten.
LEMMA RefreshKeeps ==
    ASSUME DevicesInv, NEW available \in BOOLEAN, RefreshPad(available), faults' = faults
    PROVE  PadKept /\ padAvailable' \in BOOLEAN /\ padExists' \in BOOLEAN
           /\ (padExists' => padAvailable')
<1>1. /\ padState \in [ToSet(Control) -> Value \cup {Unset}]
      /\ padValue \in [ToSet(Control) -> Value]
      /\ NewPad \in [ToSet(Control) -> Value \cup {Unset}]
      /\ Neutral \in [ToSet(Control) -> Value]
      /\ \A c \in ToSet(Control) : NewPad[c] = Unset
  BY DEF DevicesInv, VITypeOK, NewPad, Neutral, Value
<1>2. /\ unsure' \subseteq Button \cup ToSet(Control)
      /\ \A b \in Button : b \in unsure' <=> b \in unsure
      /\ faults' \in 0..MaxFaults
      /\ faults' = 0 => faults = 0 /\ unsure' = {}
  BY ControlsAreNoButtons DEF RefreshPad, DevicesInv, VITypeOK
<1>3. PadTracked'
  BY <1>1 DEF RefreshPad, DevicesInv, PadTracked
<1>4. QED
  BY <1>1, <1>2, <1>3 DEF RefreshPad, DevicesInv, VITypeOK, PadKept

\* The gamepad alone moves.
LEMMA PadOnly ==
    ASSUME DevicesInv, PadKept, UNCHANGED <<connected, keyVars, buttonVars, wheelVars>>,
           ready' \in BOOLEAN, padAvailable' \in BOOLEAN, padExists' \in BOOLEAN,
           padExists' => padAvailable'
    PROVE  DevicesInv'
<1>1. VITypeOK'
  BY DEF DevicesInv, PadKept, VITypeOK, keyVars, buttonVars, wheelVars
<1>2. WheelTracked' /\ ButtonsTracked'
  BY DEF DevicesInv, PadKept, WheelTracked, ButtonsTracked, buttonVars, wheelVars
<1>3. QED
  BY <1>1, <1>2 DEF DevicesInv, PadKept, KeysTracked, keyVars

\* Every handler keeps the invariant of the devices.
LEMMA DevicesNext == MaxFaults \in Nat /\ DevicesInv /\ [VINext]_viVars => DevicesInv'
<1> SUFFICES ASSUME MaxFaults \in Nat, DevicesInv, [VINext]_viVars PROVE DevicesInv'
  OBVIOUS
<1>1. CASE (\E c \in Conn : Connect(c) \/ Disconnect(c)) \/ UNCHANGED viVars
  <2>1. /\ connected' \subseteq Conn
        /\ UNCHANGED <<ready, keyVars, buttonVars, wheelVars, padVars, unsure, faults>>
    BY <1>1 DEF Connect, Disconnect, viVars, DevicesInv, VITypeOK
  <2>2. QED
    BY <2>1 DEF DevicesInv, VITypeOK, KeysTracked, ButtonsTracked, PadTracked, WheelTracked,
       keyVars, buttonVars, wheelVars, padVars
<1>2. CASE \/ \E keysym \in Keysym, value \in Value : Key(keysym, value)
           \/ \E keysyms \in {<<"ctrl", "plain">>, <<"ctrl", "shift", "shifted">>} :
                 Shortcut(keysyms)
           \/ Type(<<"plain", "shifted">>) \/ Paste
  BY <1>2, KeyboardStep
<1>3. CASE \E b \in Button, value \in Value : PointerButton(b, value)
  BY <1>3, ButtonStep
<1>4. CASE \E delta \in WheelDelta, finish \in BOOLEAN : ScrollWheel(delta, finish)
  BY <1>4, WheelStep
<1>5. CASE \/ DeviceConnected \/ DeviceDisconnected
           \/ \E c \in ToSet(Control), value \in Value : ControllerEvent(c, value)
  <2>1. /\ UNCHANGED <<connected, ready, keyVars, buttonVars, wheelVars, padAvailable>>
        /\ padExists' \in BOOLEAN /\ (padExists' => padAvailable')
    BY <1>5 DEF DeviceConnected, DeviceDisconnected, ControllerEvent, DevicesInv, VITypeOK
  <2>2. PadKept
    BY <1>5, ResetKeeps, ControlKeeps DEF DeviceConnected, DeviceDisconnected
  <2>3. QED BY <2>1, <2>2, PadOnly DEF DevicesInv, VITypeOK
<1>6. CASE GetCapabilities \/ PrepareInput
  <2>1. PICK available \in BOOLEAN : RefreshPad(available)
    BY <1>6 DEF GetCapabilities, PrepareInput
  <2>2. /\ UNCHANGED <<connected, keyVars, buttonVars, wheelVars, faults>>
        /\ ready' \in BOOLEAN
    BY <1>6 DEF GetCapabilities, PrepareInput, DevicesInv, VITypeOK
  <2>3. QED BY <2>1, <2>2, RefreshKeeps, PadOnly
<1>7. QED BY <1>1, <1>2, <1>3, <1>4, <1>5, <1>6 DEF VINext

\* The invariant holds of every reachable state of the devices.
THEOREM DevicesHold == VISpec => []DevicesInv
<1>1. VIInit => DevicesInv
  BY DevicesInit, DeviceAssumption
<1>2. DevicesInv /\ [VINext]_viVars => DevicesInv'
  BY DevicesNext, DeviceAssumption
<1>3. QED BY <1>1, <1>2, PTL DEF VISpec

\* A release of all keys and buttons would free every one that is down, whatever mix of
\* keys, shortcuts, text and pastes came before, as long as no write fails (release_all,
\* uinput.rs).
THEOREM ReleaseFreesAll == VISpec => []ReleaseAllSuffices
<1>1. DevicesInv => ReleaseAllSuffices
  BY DEF DevicesInv, VITypeOK, KeysTracked, ButtonsTracked, ReleaseAllSuffices,
     HeldAfterRelease, DownAfterRelease
<1>2. QED BY <1>1, DevicesHold, PTL

\* What the daemon remembers of buttons and gamepad controls is what the kernel has,
\* except of one whose own last write failed, so no event of another is left out that the
\* kernel needs, however many writes fail (pointer_button, uinput.rs; gamepad.rs).
THEOREM EventsReachTheKernel == VISpec => []NoEventIsSwallowed
<1>1. DevicesInv => NoEventIsSwallowed
  BY DEF DevicesInv, ButtonsTracked, PadTracked, NoEventIsSwallowed
<1>2. QED BY <1>1, DevicesHold, PTL

\* For motions of every size the wheel is within a step and an eighth of the finger until
\* the gesture is finished, unless a write of the wheel failed in it; and the state is
\* well typed (take_scroll_detents, uinput.rs).
THEOREM WheelPace == VISpec => []WheelKeepsPace
<1>1. ASSUME DevicesInv, ~slipped PROVE Magnitude(owed) < Threshold + Threshold \div 8
  <2>1. /\ owed \in Int /\ scrollRemainder \in -23..23 /\ owed - scrollRemainder \in -3..3
    BY <1>1 DEF DevicesInv, VITypeOK, WheelTracked, Threshold
  <2>2. owed \in -26..26
    BY <2>1
  <2>3. QED BY <2>2 DEF Magnitude, Threshold
<1>2. DevicesInv => WheelKeepsPace
  BY <1>1 DEF DevicesInv, WheelKeepsPace
<1>3. QED BY <1>2, DevicesHold, PTL
=============================================================================
