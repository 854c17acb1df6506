----------------------------- MODULE AudioTask ------------------------------
(***************************************************************************)
(* What the registry may rely on of one desktop audio task                 *)
(* (DesktopAudioStream in src/audio.rs) and the task of its owner: the     *)
(* monitor source is taken only behind the handshake line and only by a    *)
(* task that was not told to stop, and a task that has ended stays so.     *)
(* AudioProducer implements it from inside, ScreenSessions from outside.   *)
(***************************************************************************)

VARIABLES
    phase,      \* where the task is; the monitor is held in "capturing" only
    signalled,  \* its handle was dropped, which sends the stop signal
    opened      \* the handshake line of its session is written

vars == <<phase, signalled, opened>>

Live == {"waiting", "capturing"}

\* A task may be there from the start.
Init ==
    /\ phase \in {"unused", "waiting"}
    /\ signalled = FALSE /\ opened \in BOOLEAN

\* start_audio spawns a task also for a stream that is open.
Spawn ==
    /\ phase = "unused"
    /\ phase' = "waiting" /\ opened' \in BOOLEAN
    /\ UNCHANGED signalled

StreamOpens ==
    /\ opened' = TRUE
    /\ UNCHANGED <<phase, signalled>>

DropHandle ==
    /\ phase # "unused"
    /\ signalled' = TRUE
    /\ UNCHANGED <<phase, opened>>

Capture ==
    /\ phase = "waiting" /\ opened /\ ~signalled
    /\ phase' = "capturing"
    /\ UNCHANGED <<signalled, opened>>

\* There is no monitor to capture, or no further attempt, or no client.
Fail ==
    /\ \/ phase = "capturing"
       \/ phase = "waiting" /\ opened
    /\ phase' = "ended"
    /\ UNCHANGED <<signalled, opened>>

Stop ==
    /\ phase \in Live /\ signalled
    /\ phase' = "ended"
    /\ UNCHANGED <<signalled, opened>>

Next == Spawn \/ StreamOpens \/ DropHandle \/ Capture \/ Fail \/ Stop

Spec == Init /\ [][Next]_vars
=============================================================================
