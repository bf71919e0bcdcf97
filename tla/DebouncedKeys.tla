--------------------------- MODULE DebouncedKeys ---------------------------
(***************************************************************************)
(* What key.c promises of its contacts, with a counter in place of the two *)
(* bits it keeps for each of them: a contact changes its debounced state   *)
(* at the fourth reading in a row that differs from it, being released     *)
(* arms it, and a key that is down and armed is reported and disarmed,     *)
(* unless it is one of the push-and-hold keys, which stay armed.           *)
(***************************************************************************)
EXTENDS Naturals

CONSTANTS Keys,     \* the contacts of the matrix
          KeyRows,  \* sets of contacts that are read and reported together
          Hold      \* the push-and-hold keys

VARIABLES down,     \* keys whose debounced state is pressed
          run,      \* readings in a row that differ from that state
          armed     \* keys whose next press is to be reported

absVars == <<down, run, armed>>

Readings == 4

\* After the C start-up code every key counts as pressed, and one differing
\* reading is enough; keys forcedReadUhfState has read are in any state.
AbsInit ==
  /\ down \subseteq Keys /\ armed \subseteq Keys
  /\ run \in [Keys -> 0 .. Readings - 1]

\* The keys of a row are read; differing are those whose reading is not their
\* debounced state.
AbsRead(row, differing) ==
  LET flipped == {k \in differing : run[k] = Readings - 1}
  IN /\ run' = [k \in Keys |-> IF k \notin row THEN run[k]
                               ELSE IF k \in differing \ flipped
                                 THEN run[k] + 1 ELSE 0]
     /\ down' = (down \ flipped) \cup (flipped \ down)
     /\ armed' = armed \cup (flipped \cap down)

\* Keys that are down and armed are reported.
AbsReport(reported) ==
  /\ reported \subseteq down \cap armed
  /\ armed' = armed \ (reported \ Hold)
  /\ UNCHANGED <<down, run>>

AbsNext ==
  \E row \in KeyRows : \/ \E differing \in SUBSET row : AbsRead(row, differing)
                       \/ \E reported \in SUBSET row : AbsReport(reported)

AbsSpec == AbsInit /\ [][AbsNext]_absVars
=============================================================================
