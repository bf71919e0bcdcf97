----------------------------- MODULE RequestPipe -----------------------------
(***************************************************************************)
(* What the driver's control endpoint promises the host and the program:   *)
(* requests are carried out one at a time and in the order in which they   *)
(* were asked, and a host that is told of the end of its request knows     *)
(* that it was carried out.  A request that is repeated is carried out     *)
(* again, and one that is given up may still be carried out, but not after *)
(* a later one.                                                            *)
(***************************************************************************)
CONSTANTS Requests, NoRequest

ASSUME PipeAssumption == NoRequest \notin Requests

VARIABLES
  stage,      \* what the host knows of its request: "asked", "accepted" or
              \* "finished"; or "none", when it waits for none
  request,    \* what it asked last
  waiting,    \* what the radio has still to carry out, or NoRequest
  done        \* the radio has carried out the request that it accepted

pipeVars == <<stage, request, waiting, done>>

PipeInit ==
  /\ stage = "none" /\ request \in Requests
  /\ waiting = NoRequest /\ done = FALSE

Ask(rq) ==
  /\ stage \in {"none", "finished"}
  /\ stage' = "asked" /\ request' = rq /\ done' = FALSE
  /\ UNCHANGED waiting

\* The host may miss that its request was accepted, and repeats it.
Accept ==
  /\ stage = "asked" /\ waiting = NoRequest
  /\ waiting' = request
  /\ stage' \in {"asked", "accepted"}
  /\ UNCHANGED <<request, done>>

CarryOut ==
  /\ waiting # NoRequest
  /\ waiting' = NoRequest /\ done' = (stage = "accepted")
  /\ UNCHANGED <<stage, request>>

Finish ==
  /\ stage = "accepted" /\ done
  /\ stage' = "finished" /\ done' = FALSE
  /\ UNCHANGED <<request, waiting>>

\* The host waits no longer, or resets the bus.
Abandon ==
  /\ stage # "none"
  /\ stage' = "none" /\ done' = FALSE
  /\ UNCHANGED <<request, waiting>>

PowerUp ==
  /\ stage' = "none" /\ waiting' = NoRequest /\ done' = FALSE
  /\ UNCHANGED request

PipeNext ==
  \/ \E rq \in Requests : Ask(rq)
  \/ Accept \/ CarryOut \/ Finish \/ Abandon \/ PowerUp

PipeSpec == PipeInit /\ [][PipeNext]_pipeVars
=============================================================================
