-------------------------- MODULE HyprlandPointer ---------------------------
(***************************************************************************)
(* The Hyprland input backend (src/input.rs): motion is left to a worker   *)
(* that sends only the newest target, and every other event first waits    *)
(* until the worker is idle.  Commands come one at a time: the handlers    *)
(* hold the input mutex (DaemonLocks).                                     *)
(***************************************************************************)
EXTENDS WheelSteps, FiniteSetsExt

CONSTANTS
    MaxPos,      \* bound: the last pixel of a one-dimensional desktop
    MoveDelta,   \* bound: relative motions, in half pixels
    ScrollDelta  \* bound: scroll motions, in pixels

ASSUME InputAssumption ==
    /\ MaxPos \in Nat \ {0}
    /\ MoveDelta \subseteq Int
    /\ ScrollDelta \subseteq Int

VARIABLES
    command,     \* what the handler with the input mutex is doing
    todo,        \* dispatches it has left
    fine,        \* cursor_x, in half pixels
    cursor,      \* state.cursor: the last position acknowledged
    pending,     \* pending_cursor
    inFlight,    \* in_flight_cursor, and with it pointer_in_flight
    lastError,   \* pointer_last_error is set
    remainder,   \* scroll_y_remainder
    worker,      \* where run_hyprland_pointer_worker is
    wake,        \* permit of pointer_notify
    idle,        \* permit of pointer_idle_notify
    desktop,     \* the position of the compositor's cursor (external)
    told         \* history: a failed motion was reported, and none arrived since

clientVars == <<command, todo, remainder>>
stateVars == <<fine, cursor, pending, inFlight, lastError>>
vars == <<clientVars, stateVars, worker, wake, idle, desktop, told>>

None == -1
Pos == 0..MaxPos
MaxSteps == 12

\* clamp_cursor_f64, with the bound in place of 100 000 pixels either way.
Clamp(f) == Min({Max({f, 0}), 2 * MaxPos})

\* f64::round: halves away from zero.
Round(f) == (f + 1) \div 2
Target == Round(fine)

TypeOK ==
    /\ command \in {"none", "notify", "check", "await", "dispatch"}
    /\ todo \in 0..MaxSteps
    /\ fine \in 0..2 * MaxPos
    /\ cursor \in Pos /\ desktop \in Pos
    /\ pending \in Pos \cup {None} /\ inFlight \in Pos \cup {None}
    /\ remainder \in -Threshold + 1..Threshold - 1
    /\ worker \in {"asleep", "take", "dispatch", "moved", "failed"}
    /\ lastError \in BOOLEAN /\ wake \in BOOLEAN /\ idle \in BOOLEAN /\ told \in BOOLEAN

\* new asks the compositor where the cursor is.
Init ==
    /\ desktop \in Pos
    /\ cursor = desktop /\ fine = 2 * desktop
    /\ pending = None /\ inFlight = None /\ lastError = FALSE
    /\ command = "none" /\ todo = 0 /\ remainder = 0
    /\ worker = "asleep" /\ wake = FALSE /\ idle = FALSE
    /\ told = FALSE

-----------------------------------------------------------------------------
(* pointer_move, pointer_move_absolute *)

\* A motion that failed earlier is reported by the next command, which does nothing else.
ReportError ==
    /\ lastError
    /\ lastError' = FALSE
    /\ told' = TRUE
    /\ command' = "none" /\ todo' = 0
    /\ UNCHANGED <<fine, cursor, pending, inFlight, remainder, worker, wake, idle, desktop>>

MoveReports == command = "none" /\ ReportError

Latest == IF pending # None THEN pending ELSE IF inFlight # None THEN inFlight ELSE cursor

\* Mutant of MoveTo: a target is compared with what was acknowledged only.
MoveToFromCursor(f) ==
    /\ command = "none" /\ ~lastError
    /\ fine' = Clamp(f)
    /\ IF cursor = Round(fine')
       THEN UNCHANGED <<pending, command>>
       ELSE pending' = Round(fine') /\ command' = "notify"
    /\ UNCHANGED <<todo, cursor, inFlight, lastError, remainder, worker, wake, idle, desktop, told>>

MoveTo(f) ==
    /\ command = "none" /\ ~lastError
    /\ fine' = Clamp(f)
    /\ IF Latest = Round(fine')
       THEN UNCHANGED <<pending, command>>
       ELSE pending' = Round(fine') /\ command' = "notify"
    /\ UNCHANGED <<todo, cursor, inFlight, lastError, remainder, worker, wake, idle, desktop, told>>

PointerMove == \E d \in MoveDelta : MoveTo(fine + d)
PointerMoveAbsolute == \E p \in Pos : MoveTo(2 * p)

\* The state lock is free again when the worker is notified.
NotifyWorker ==
    /\ command = "notify"
    /\ wake' = TRUE
    /\ command' = "none"
    /\ UNCHANGED <<todo, stateVars, remainder, worker, idle, desktop, told>>

-----------------------------------------------------------------------------
(* pointer_button, key, text, scroll: flush_pointer, then dispatches *)

\* What the command is matters only once the worker is idle.
BeginFlush ==
    /\ command = "none"
    /\ command' = "check"
    /\ UNCHANGED <<todo, stateVars, remainder, worker, wake, idle, desktop, told>>

FlushReports == command = "check" /\ ReportError

FlushWaits ==
    /\ command = "check" /\ ~lastError
    /\ pending # None \/ inFlight # None
    /\ command' = "await"
    /\ UNCHANGED <<todo, stateVars, remainder, worker, wake, idle, desktop, told>>

FlushWakes ==
    /\ command = "await" /\ idle
    /\ idle' = FALSE
    /\ command' = "check"
    /\ UNCHANGED <<todo, stateVars, remainder, worker, wake, desktop, told>>

\* Mutant of Flushed: only what the worker has not taken yet is waited for.
FlushedPending == command = "check" /\ ~lastError /\ pending = None

Flushed == command = "check" /\ ~lastError /\ pending = None /\ inFlight = None

Issue(events) ==
    /\ todo' = events
    /\ command' = IF events = 0 THEN "none" ELSE "dispatch"
    /\ UNCHANGED <<stateVars, worker, wake, idle, desktop, told>>

\* pointer_button and key dispatch one event, text one for each character or
\* the paste, or nothing when the keysym is unknown or the fallback fails.
Events == Flushed /\ (\E n \in 0..2 : Issue(n)) /\ UNCHANGED remainder

Scroll ==
    /\ Flushed
    /\ \E d \in ScrollDelta, finish \in BOOLEAN :
          /\ Issue(Min({MaxSteps, Magnitude(Steps(remainder + d, finish))}))
          /\ remainder' = Left(remainder + d, finish)

\* One sendkeystate or sendshortcut; an error ends the command.
Dispatch ==
    /\ command = "dispatch"
    /\ todo' \in {todo - 1, 0}
    /\ command' = IF todo' = 0 THEN "none" ELSE "dispatch"
    /\ UNCHANGED <<stateVars, remainder, worker, wake, idle, desktop, told>>

-----------------------------------------------------------------------------
(* run_hyprland_pointer_worker *)

WorkerWakes ==
    /\ worker = "asleep" /\ wake
    /\ wake' = FALSE
    /\ worker' = "take"
    /\ UNCHANGED <<clientVars, stateVars, idle, desktop, told>>

WorkerTakes ==
    /\ worker = "take" /\ pending # None
    /\ pending' = None
    /\ inFlight' = pending
    /\ worker' = "dispatch"
    /\ UNCHANGED <<clientVars, fine, cursor, lastError, wake, idle, desktop, told>>

WorkerFindsNothing ==
    /\ worker = "take" /\ pending = None
    /\ inFlight' = None
    /\ idle' = TRUE
    /\ worker' = "asleep"
    /\ UNCHANGED <<clientVars, fine, cursor, pending, lastError, wake, desktop, told>>

\* movecursor reaches the compositor.
CursorMoves ==
    /\ worker = "dispatch"
    /\ desktop' = inFlight
    /\ worker' = "moved"
    /\ UNCHANGED <<clientVars, stateVars, wake, idle, told>>

\* Or the answer is lost.
DispatchFails ==
    /\ worker = "dispatch"
    /\ desktop' \in {desktop, inFlight}
    /\ worker' = "failed"
    /\ UNCHANGED <<clientVars, stateVars, wake, idle, told>>

Answered == worker \in {"moved", "failed"}

\* Mutant of WorkerDone: a target that failed is tried again, not reported.
WorkerRetries ==
    /\ Answered
    /\ cursor' = IF worker = "moved" THEN inFlight ELSE cursor
    /\ told' = (told /\ worker = "failed")
    /\ pending' = IF worker = "failed" /\ pending = None THEN inFlight ELSE pending
    /\ inFlight' = None
    /\ idle' = TRUE
    /\ worker' = IF pending' = None THEN "asleep" ELSE "take"
    /\ UNCHANGED <<clientVars, fine, lastError, wake, desktop>>

\* The error of a target that newer ones replaced is forgotten with it.
WorkerDone ==
    /\ Answered
    /\ lastError' = (worker = "failed")
    /\ cursor' = IF worker = "moved" THEN inFlight ELSE cursor
    /\ told' = (told /\ worker = "failed")
    /\ inFlight' = None
    /\ idle' = TRUE
    /\ worker' = IF pending = None THEN "asleep" ELSE "take"
    /\ UNCHANGED <<clientVars, fine, pending, wake, desktop>>

-----------------------------------------------------------------------------
Next ==
    \/ MoveReports \/ PointerMove \/ PointerMoveAbsolute \/ NotifyWorker
    \/ BeginFlush \/ FlushReports \/ FlushWaits \/ FlushWakes \/ Events \/ Scroll \/ Dispatch
    \/ WorkerWakes \/ WorkerTakes \/ WorkerFindsNothing
    \/ CursorMoves \/ DispatchFails \/ WorkerDone

Spec == Init /\ [][Next]_vars

(***************************************************************************)
(* A handler that holds the mutex and the worker go on, and the compositor *)
(* answers on its socket: the code has no timeout for it.                  *)
(***************************************************************************)
Fairness ==
    /\ WF_vars(NotifyWorker) /\ WF_vars(Dispatch)
    /\ WF_vars(FlushReports \/ FlushWaits \/ Events \/ Scroll) /\ WF_vars(FlushWakes)
    /\ WF_vars(WorkerWakes) /\ WF_vars(WorkerTakes \/ WorkerFindsNothing)
    /\ WF_vars(CursorMoves \/ DispatchFails) /\ WF_vars(WorkerDone)

FairSpec == Spec /\ Fairness

-----------------------------------------------------------------------------
(* Properties *)

\* A button or key never overtakes the motion before it: when it is dispatched,
\* the cursor is where the client put it, unless the client was told that the
\* motion failed.  (And the state is well typed.)
EventsFollowMotion == TypeOK /\ (command = "dispatch" => desktop = Target \/ told)

\* Motion that is compared away, coalesced or replaced is not lost: once the
\* worker sleeps with nothing to wake it, the cursor is at the newest target or
\* an error is there to be reported or was.
NewestTargetWins ==
    worker = "asleep" /\ ~wake /\ command # "notify" => desktop = Target \/ lastError \/ told

\* A command that waits for the worker comes back, whatever the order of the two
\* notifications and however often motion fails: otherwise it would keep the
\* input mutex of every client.  (A lost notification shows as a deadlock.)
FlushEnds == command = "await" ~> command \notin {"await", "check"}
=============================================================================
