------------------------------ MODULE KeyPipe ------------------------------
(***************************************************************************)
(* What the radio's USB keyboard promises of its reports: they reach the   *)
(* host in the order in which they were accepted, each of them once, and   *)
(* two in a row are never the same.  Reports are lost when the watchdog    *)
(* restarts the radio; and the first report after the host has configured  *)
(* the radio may be discarded, when their data tokens are out of step.     *)
(***************************************************************************)
EXTENDS Naturals, Sequences

CONSTANTS Reports,    \* key strokes and the report that no key is down
          NOT_USED    \* that report

VARIABLES last,       \* the report accepted last
          flight,     \* reports accepted and not yet with the host
          held,       \* the report the host goes by
          skew        \* the host will discard the next report

pipeVars == <<last, flight, held, skew>>

PipeInit == last = NOT_USED /\ flight = <<>> /\ held = NOT_USED /\ skew = FALSE

\* One report may be on the wire and another wait for it.
Accept(data) ==
  /\ data # last /\ Len(flight) < 2
  /\ last' = data /\ flight' = Append(flight, data)
  /\ UNCHANGED <<held, skew>>

Deliver ==
  /\ flight # <<>> /\ ~skew
  /\ held' = Head(flight) /\ flight' = Tail(flight)
  /\ UNCHANGED <<last, skew>>

Discard ==
  /\ flight # <<>> /\ skew
  /\ flight' = Tail(flight) /\ skew' = FALSE
  /\ UNCHANGED <<last, held>>

\* The host configures the radio; until then no key was down for it.
SetUp ==
  /\ held = NOT_USED
  /\ skew' \in BOOLEAN
  /\ UNCHANGED <<last, flight, held>>

\* The cable is pulled: for the host no key is down.
Unplug == held' = NOT_USED /\ UNCHANGED <<last, flight, skew>>

Restart ==
  /\ last' = NOT_USED /\ flight' = <<>> /\ held' = NOT_USED
  /\ skew' \in BOOLEAN

PipeNext ==
  \/ \E data \in Reports : Accept(data)
  \/ Deliver \/ Discard \/ SetUp \/ Unplug \/ Restart

PipeSpec == PipeInit /\ [][PipeNext]_pipeVars
=============================================================================
