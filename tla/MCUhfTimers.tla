---------------------------- MODULE MCUhfTimers ----------------------------
(* UhfTimers on scaled times: half a second is two ticks, a second three,  *)
(* the longest times four, the watchdog period six.                        *)
EXTENDS UhfTimers

MCHalfSec  == 1
MCOneSec   == 2
MCFourSecs == 3
MCMaxTime  == 3
MCWdtTicks == 6

\* A tone that pauses.
PausingTone == {"DOUBLE"}
=============================================================================
