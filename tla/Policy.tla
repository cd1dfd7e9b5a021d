------------------------------- MODULE Policy -------------------------------
(***************************************************************************)
(* What the monitor promises, without time, packets or an event loop: one  *)
(* probe at a time, each with one outcome; an answer clears the failure    *)
(* count; the threshold action runs at every failure that finds Threshold  *)
(* consecutive ones, and ends the monitor unless a real shutdown command   *)
(* failed.                                                                 *)
(***************************************************************************)
EXTENDS Naturals

CONSTANTS Threshold, Poweroff

VARIABLES
  mode,      \* "idle", "waiting" for a reply, "stopped"
  fails,     \* consecutive failures
  actions,   \* threshold actions run
  exit       \* exit code

vars == <<mode, fails, actions, exit>>

Init == mode = "idle" /\ fails = 0 /\ actions = 0 /\ exit = 0

Stop(code) == mode' = "stopped" /\ exit' = code

\* The probe failed: count it, and act on the threshold.
Fail ==
  /\ fails' = fails + 1
  /\ \/ /\ fails + 1 < Threshold
        /\ mode' = "idle"
        /\ UNCHANGED <<actions, exit>>
     \/ /\ fails + 1 >= Threshold
        /\ actions' = actions + 1
        /\ \/ Stop(0)
           \/ Poweroff /\ mode' = "idle" /\ UNCHANGED exit

Send == mode = "idle" /\ mode' = "waiting" /\ UNCHANGED <<fails, actions, exit>>

Refused == mode = "idle" /\ Fail

Answered ==
  /\ mode = "waiting"
  /\ mode' = "idle"
  /\ fails' = 0
  /\ UNCHANGED <<actions, exit>>

TimedOut == mode = "waiting" /\ Fail

\* A stop signal or a fatal error.
Halt ==
  /\ mode # "stopped"
  /\ \E code \in {0, 1} : Stop(code)
  /\ UNCHANGED <<fails, actions>>

Next == Send \/ Refused \/ Answered \/ TimedOut \/ Halt

Spec == Init /\ [][Next]_vars
=============================================================================
