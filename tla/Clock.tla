-------------------------------- MODULE Clock --------------------------------
(***************************************************************************)
(* The bounded clock that the processes of a component read.               *)
(***************************************************************************)
EXTENDS Common

CONSTANT MaxTime   \* bound on the clock

VARIABLE now

ClockAdvances ==
    /\ now < MaxTime
    /\ now' = now + 1
==============================================================================
