----------------------------- MODULE WheelSteps -----------------------------
(***************************************************************************)
(* Scroll motion of a finger becomes wheel steps (scroll_steps in          *)
(* src/input.rs, take_scroll_detents in src/uinput.rs).                    *)
(***************************************************************************)
EXTENDS Integers

Threshold == 24

Magnitude(n) == IF n < 0 THEN -n ELSE n
Sign(n) == IF n > 0 THEN 1 ELSE -1

\* Division of floats, then trunc: towards zero.
Truncated(n, d) == Sign(n) * (Magnitude(n) \div d)

\* The end of a gesture rounds what is left to one step.
RoundsUp(remainder, finish) == finish /\ Magnitude(remainder) > 3

Steps(remainder, finish) ==
    IF RoundsUp(remainder, finish) THEN Sign(remainder) ELSE Truncated(remainder, Threshold)

\* Mutant of Left: what is beyond the last whole step is dropped.
LeftNothing(remainder, finish) ==
    IF Steps(remainder, finish) # 0 THEN 0 ELSE remainder

Left(remainder, finish) ==
    IF RoundsUp(remainder, finish) THEN 0
    ELSE remainder - Steps(remainder, finish) * Threshold
=============================================================================
