------------------------- MODULE MonitorRefinement -------------------------
(***************************************************************************)
(* The monitor implements Policy.                                          *)
(***************************************************************************)
EXTENDS Monitor

Mode == IF stopping THEN "stopped"
        ELSE IF ls_timer_armed(deadline["reply"]) THEN "waiting"
        ELSE "idle"

P == INSTANCE Policy WITH
       Threshold <- fail_threshold, Poweroff <- poweroff,
       mode <- Mode, fails <- consecutive_fails, exit <- exit_code

\* Every step of the event loop and of its callbacks is a step of Policy or
\* leaves the policy state alone.
ImplementsPolicy == P!Spec
=============================================================================
