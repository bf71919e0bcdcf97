------------------------------ MODULE UsbKeys ------------------------------
(***************************************************************************)
(* The radio as a USB keyboard: sendUsbMessage, and where in a pass of the *)
(* main loop it is called.  Every pass first reports that no key is down,  *)
(* which releases the stroke of the pass before; then the channel          *)
(* selector, a key and the resend of the guard frequency may each send a   *)
(* stroke.  A message waits in a busy loop until the host has taken the    *)
(* report before it.                                                       *)
(*                                                                         *)
(* The host comes and goes, takes reports from the interrupt endpoint when *)
(* it has configured the radio, and can do that only while usbPoll runs.   *)
(* Reports carry a data token that alternates; one with the token of the   *)
(* report before is taken for its repetition.  While a request of the host *)
(* waits for usbPoll the driver sends nothing (usbdrv/asmcommon.inc:131).  *)
(***************************************************************************)
EXTENDS Naturals, Sequences

CONSTANTS ChannelStrokes,  \* KEY_CH_INC, KEY_CH_DEC
          KeyStrokes,      \* strokes of the other keys
          KEY_MAIN, KEY_GUARD, NOT_USED

\* keyReport has a report of its own for each.
Reports == ChannelStrokes \cup KeyStrokes \cup {KEY_MAIN, KEY_GUARD, NOT_USED}

\* The endpoint holds no report.
None == "none"

ASSUME ReportsAssumption ==
  /\ NOT_USED \notin ChannelStrokes \cup KeyStrokes \cup {KEY_MAIN, KEY_GUARD}
  /\ None \notin Reports

VARIABLES lastData,       \* sendUsbMessage's record of the last message
          endpoint,       \* report in the transmit buffer of the endpoint
          token,          \* data token in that buffer, 0 or 1
          squelch,        \* uhfControl.squelch: strokes are muted
          isUsbPresent,
          pc, ret,        \* where the main loop is, and goes after a wait
          attached, configured,   \* the cable, and the host's set-up
          request,        \* a packet of the host waits for usbPoll
          expect,         \* the data token the host waits for
          held            \* the report the host goes by

radio == <<lastData, endpoint, token, squelch, isUsbPresent, pc, ret>>
host == <<attached, configured, request, expect, held>>
vars == <<radio, host>>

\* Parts of a pass of the main loop.
Stages == {"poll", "release", "channel", "key", "unmain", "guard", "present"}

\* State after the C start-up code and initVariables; the squelch switch is
\* read there.
Init ==
  /\ lastData = NOT_USED /\ endpoint = None /\ token = 1
  /\ squelch \in BOOLEAN /\ isUsbPresent = FALSE
  /\ pc = "poll" /\ ret = "poll"
  /\ attached \in BOOLEAN /\ configured = FALSE /\ held = NOT_USED
  /\ request = FALSE /\ expect = 0

-----------------------------------------------------------------------------
(* sendUsbMessage                                                          *)

Muted == squelch \/ ~isUsbPresent

\* Variant: a muted message is taken for the last one.
MuteAfterStore(data, next) ==
  /\ IF data = lastData \/ Muted
       THEN pc' = next /\ ret' = "poll"
       ELSE pc' = "wait" /\ ret' = next
  /\ lastData' = data
  /\ UNCHANGED <<endpoint, token, squelch, isUsbPresent, host>>

\* Variant: messages are not muted.
NeverMute(data, next) ==
  /\ IF data = lastData
       THEN pc' = next /\ ret' = "poll" /\ UNCHANGED lastData
       ELSE pc' = "wait" /\ ret' = next /\ lastData' = data
  /\ UNCHANGED <<endpoint, token, squelch, isUsbPresent, host>>

sendUsbMessage(data, next) ==
  /\ IF Muted \/ data = lastData
       THEN pc' = next /\ ret' = "poll" /\ UNCHANGED lastData
       ELSE pc' = "wait" /\ ret' = next /\ lastData' = data
  /\ UNCHANGED <<endpoint, token, squelch, isUsbPresent, host>>

Return == pc' = ret /\ ret' = "poll"

\* Variant: the report replaces one the host has not taken.
Overwrite ==
  /\ pc = "wait"
  /\ endpoint' = lastData /\ Return
  /\ token' = IF endpoint = None THEN 1 - token ELSE token
  /\ UNCHANGED <<lastData, squelch, isUsbPresent, host>>

\* Variant: with a report on its way the message is dropped.
DropIfBusy ==
  /\ pc = "wait"
  /\ endpoint' = IF endpoint = None THEN lastData ELSE endpoint
  /\ token' = IF endpoint = None THEN 1 - token ELSE token
  /\ Return
  /\ UNCHANGED <<lastData, squelch, isUsbPresent, host>>

\* The busy wait is over: buildReport and usbSetInterrupt.
SetInterrupt ==
  /\ pc = "wait" /\ endpoint = None
  /\ endpoint' = lastData /\ token' = 1 - token /\ Return
  /\ UNCHANGED <<lastData, squelch, isUsbPresent, host>>

-----------------------------------------------------------------------------
(* A pass of the main loop                                                 *)

Skip(stage, next) ==
  /\ pc = stage /\ pc' = next
  /\ UNCHANGED <<lastData, endpoint, token, squelch, isUsbPresent, ret, host>>

\* usbPoll serves the host's requests, those by which it configures the radio
\* among them.  A host that configures waits for DATA0; the radio's token stays
\* (usbdrv/usbdrv.c:399 resets it for SET_INTERFACE only).
UsbPoll ==
  /\ pc = "poll" /\ pc' = "release" /\ request' = FALSE
  /\ configured' \in {configured, attached}
  /\ expect' = IF configured' = configured THEN expect ELSE 0
  /\ UNCHANGED <<lastData, endpoint, token, squelch, isUsbPresent, ret,
                 attached, held>>

\* Variant: the release is sent when the endpoint happens to be free.
ReleaseIfFree ==
  /\ pc = "release"
  /\ IF endpoint = None THEN sendUsbMessage(NOT_USED, "channel")
                        ELSE Skip("release", "channel")

ReleaseKey == pc = "release" /\ sendUsbMessage(NOT_USED, "channel")

\* processChannel: sendKeyStroke.
ChannelMoved ==
  /\ pc = "channel"
  /\ \E stroke \in ChannelStrokes : sendUsbMessage(stroke, "key")

\* processInputData: a key of the row, the power switch, or the squelch.
PressKey ==
  /\ pc = "key"
  /\ \E stroke \in KeyStrokes \cup {KEY_GUARD} : sendUsbMessage(stroke, "guard")

SwitchOn == pc = "key" /\ sendUsbMessage(KEY_MAIN, "unmain")

ReleaseMain == pc = "unmain" /\ sendUsbMessage(NOT_USED, "guard")

MoveSquelch ==
  /\ pc = "key" /\ pc' = "guard"
  /\ squelch' = ~squelch
  /\ UNCHANGED <<lastData, endpoint, token, isUsbPresent, ret, host>>

\* In the position GUARD every resend of the display calls setGuard.
ResendGuard == pc = "guard" /\ sendUsbMessage(KEY_GUARD, "present")

\* A free endpoint is taken for a host, which may have gone, or never been.
DetectUsb ==
  /\ pc = "present" /\ pc' = "poll"
  /\ isUsbPresent' = (isUsbPresent \/ endpoint = None)
  /\ UNCHANGED <<lastData, endpoint, token, squelch, ret, host>>

Loop ==
  \/ UsbPoll \/ ReleaseKey \/ SetInterrupt
  \/ Skip("channel", "key") \/ ChannelMoved
  \/ Skip("key", "guard") \/ PressKey \/ SwitchOn \/ ReleaseMain \/ MoveSquelch
  \/ Skip("guard", "present") \/ ResendGuard \/ DetectUsb

-----------------------------------------------------------------------------
(* The watchdog and the host                                               *)

\* Variant: the watchdog is not enabled.
NoWatchdog == FALSE /\ UNCHANGED vars

\* What the busy wait waits for cannot come: no host polls the endpoint, or
\* the driver answers none because a request waits for usbPoll.
Stuck == pc = "wait" /\ endpoint # None /\ (~configured \/ request)

\* Two seconds in the busy wait, which a host that is served does not leave the
\* radio in: the program starts again, and the host has to configure it anew.
WatchdogReset ==
  /\ Stuck
  /\ lastData' = NOT_USED /\ endpoint' = None /\ token' = 1
  /\ squelch' \in BOOLEAN /\ isUsbPresent' = FALSE
  /\ pc' = "poll" /\ ret' = "poll"
  /\ configured' = FALSE /\ request' = FALSE /\ held' = NOT_USED
  /\ UNCHANGED <<attached, expect>>

\* The interrupt handler of the driver answers the host's next poll.
HostTakes ==
  /\ configured /\ ~request /\ endpoint # None
  /\ endpoint' = None
  /\ IF token = expect THEN held' = endpoint /\ expect' = 1 - expect
                       ELSE UNCHANGED <<held, expect>>
  /\ UNCHANGED <<lastData, token, squelch, isUsbPresent, pc, ret, attached,
                 configured, request>>

\* The host sends a request, to set the keyboard's lamps, say.
HostRequest ==
  /\ configured /\ ~request
  /\ request' = TRUE
  /\ UNCHANGED <<radio, attached, configured, expect, held>>

Attach ==
  /\ ~attached
  /\ attached' = TRUE
  /\ UNCHANGED <<radio, configured, request, expect, held>>

\* The cable is pulled or the host stops; the radio has its own supply.
Detach ==
  /\ attached
  /\ attached' = FALSE /\ configured' = FALSE /\ held' = NOT_USED
  /\ UNCHANGED <<radio, request, expect>>

Next == Loop \/ WatchdogReset \/ HostTakes \/ HostRequest \/ Attach \/ Detach

Spec == Init /\ [][Next]_vars

\* The main loop runs, the watchdog bites, a configured host polls the endpoint
\* again and again, between its requests too.
FairSpec == /\ Spec
            /\ WF_vars(Loop) /\ WF_vars(WatchdogReset) /\ SF_vars(HostTakes)

-----------------------------------------------------------------------------
(* Properties                                                              *)

\* Types, and that a message that waits is not muted.
TypeOK ==
  /\ lastData \in Reports /\ held \in Reports
  /\ endpoint \in Reports \cup {None} /\ token \in {0, 1} /\ expect \in {0, 1}
  /\ squelch \in BOOLEAN /\ isUsbPresent \in BOOLEAN
  /\ attached \in BOOLEAN /\ configured \in BOOLEAN /\ request \in BOOLEAN
  /\ pc \in Stages \cup {"wait"} /\ ret \in Stages
  /\ configured => attached
  /\ ~configured => held = NOT_USED
  /\ pc = "wait" => ~Muted

\* Reports on their way: in the endpoint, and in the busy wait behind it.
InFlight ==
  IF pc = "wait" THEN IF endpoint = None THEN <<lastData>>
                                         ELSE <<endpoint, lastData>>
                 ELSE IF endpoint = None THEN <<>> ELSE <<endpoint>>

\* The host will take the next report for a repetition.
OutOfStep == (token = expect) = (endpoint = None)

Pipe == INSTANCE KeyPipe
          WITH last <- lastData, flight <- InFlight, skew <- OutOfStep

\* The reports sendUsbMessage accepts reach the host in order and once each,
\* through unplugging and muting, but for one the host may discard after it has
\* configured the radio again: UsbKeys implements KeyPipe.
ImplementsKeyPipe == Pipe!PipeSpec

\* The same key pressed again is another stroke: when the keys are looked at,
\* the last report was that none is down, so lastData swallows no stroke.
NothingSwallowed ==
  pc = "channel" /\ ~Muted => lastData = NOT_USED

\* A stroke that was accepted arrives, if the host stays and is in step.
StrokeArrives ==
  \A data \in Reports :
    (pc = "wait" /\ lastData = data /\ ~OutOfStep)
      ~> (held = data \/ ~configured)

\* With a host and the squelch open no key stays down for ever.
KeysReleased == <>[](configured /\ ~squelch) => []<>(held = NOT_USED)

\* The main loop goes on whatever the host does; without a host that is the
\* watchdog's doing.
LoopGoesOn == []<>(pc = "poll")

\* main.c:153 says of the first message of a pass that it "releases key press":
\* a key that is down for the host is released.
KeyPressReleased == held # NOT_USED ~> held = NOT_USED

\* usbKeys.c:30 says of the busy wait "detection if USB connected done in main
\* loop": it waits only for a host that has been there.
WaitsForHostOnly == pc = "wait" /\ endpoint # None => attached
=============================================================================
