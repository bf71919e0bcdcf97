--------------------------- MODULE UsbKeysProofs ---------------------------
(* Proofs about UsbKeys for every set of key strokes: types, that lastData *)
(* swallows no stroke, and that UsbKeys implements KeyPipe.                *)
EXTENDS UsbKeys, SequenceTheorems, TLAPS

\* Once the release of a pass is being sent, or is over, lastData is NOT_USED.
UsbInv ==
  /\ TypeOK
  /\ NothingSwallowed
  /\ pc = "wait" /\ ret = "channel" => lastData = NOT_USED

LEMMA UsbInit == Init => UsbInv
  BY ReportsAssumption
  DEF Init, UsbInv, TypeOK, NothingSwallowed, Muted, Stages, Reports, None

\* Any message sent from outside the busy wait, in any pass.
LEMMA SendPreserves ==
  ASSUME UsbInv, pc # "wait", NEW data \in Reports, NEW next \in Stages,
         next = "channel" => data = NOT_USED, sendUsbMessage(data, next)
  PROVE  UsbInv'
<1>1. CASE Muted \/ data = lastData
  BY <1>1 DEF sendUsbMessage, UsbInv, TypeOK, NothingSwallowed, Muted, Stages,
              host
<1>2. CASE ~(Muted \/ data = lastData)
  BY <1>2 DEF sendUsbMessage, UsbInv, TypeOK, NothingSwallowed, Muted, Stages,
              host
<1>. QED
  BY <1>1, <1>2

LEMMA UsbStep == UsbInv /\ [Next]_vars => UsbInv'
<1>. SUFFICES ASSUME UsbInv, [Next]_vars PROVE UsbInv'
  OBVIOUS
<1>. USE DEF UsbInv, TypeOK, NothingSwallowed, Muted
<1>1. CASE UsbPoll
  <2>1. expect' \in {0, 1} /\ configured' \in BOOLEAN /\ request' \in BOOLEAN
    BY <1>1 DEF UsbPoll
  <2>2. /\ configured' => attached'
        /\ ~configured' => held' = NOT_USED
    BY <1>1 DEF UsbPoll
  <2>. QED
    BY <1>1, <2>1, <2>2 DEF UsbPoll, Stages
<1>2. CASE ReleaseKey
  BY <1>2, SendPreserves DEF ReleaseKey, Stages, Reports
<1>3. CASE SetInterrupt
  BY <1>3 DEF SetInterrupt, Return, Stages, host
<1>4. CASE \/ Skip("channel", "key") \/ Skip("key", "guard")
           \/ Skip("guard", "present")
  BY <1>4 DEF Skip, Stages, host
<1>5. CASE ChannelMoved
  BY <1>5, SendPreserves DEF ChannelMoved, Stages, Reports
<1>6. CASE PressKey
  BY <1>6, SendPreserves DEF PressKey, Stages, Reports
<1>7. CASE SwitchOn
  BY <1>7, SendPreserves DEF SwitchOn, Stages, Reports
<1>8. CASE ReleaseMain
  BY <1>8, SendPreserves DEF ReleaseMain, Stages, Reports
<1>9. CASE MoveSquelch
  BY <1>9 DEF MoveSquelch, Stages, host
<1>10. CASE ResendGuard
  BY <1>10, SendPreserves DEF ResendGuard, Stages, Reports
<1>11. CASE DetectUsb
  BY <1>11 DEF DetectUsb, Stages, host
<1>12. CASE WatchdogReset
  BY <1>12 DEF WatchdogReset, Stages, Reports, host
<1>13. CASE HostTakes
  BY <1>13 DEF HostTakes
<1>14. CASE Attach
  BY <1>14 DEF Attach, radio
<1>15. CASE Detach
  BY <1>15 DEF Detach, radio, Reports
<1>16. CASE HostRequest
  BY <1>16 DEF HostRequest, radio
<1>17. CASE UNCHANGED vars
  BY <1>17 DEF vars, radio, host
<1>. QED
  BY <1>1, <1>2, <1>3, <1>4, <1>5, <1>6, <1>7, <1>8, <1>9, <1>10, <1>11, <1>12,
     <1>13, <1>14, <1>15, <1>16, <1>17
  DEF Next, Loop

LEMMA UsbAlways == Spec => []UsbInv
  BY UsbInit, UsbStep, PTL DEF Spec

\* The variables have their types and a message that waits is not muted.
THEOREM UsbTypeCorrect == Spec => []TypeOK
<1>1. UsbInv => TypeOK
  BY DEF UsbInv
<1>. QED
  BY <1>1, UsbAlways, PTL

\* In every pass the release comes first, so that no stroke is taken for the
\* one before it.
THEOREM NoStrokeSwallowed == Spec => []NothingSwallowed
<1>1. UsbInv => NothingSwallowed
  BY DEF UsbInv
<1>. QED
  BY <1>1, UsbAlways, PTL

-----------------------------------------------------------------------------
(* Refinement                                                              *)

PipeStep == [Pipe!PipeNext]_(Pipe!pipeVars)

LEMMA SendAccepts ==
  ASSUME UsbInv, pc # "wait", NEW data \in Reports, NEW next \in Stages,
         sendUsbMessage(data, next)
  PROVE  PipeStep
<1>1. next # "wait"
  BY DEF Stages
<1>2. CASE Muted \/ data = lastData
  BY <1>1, <1>2
  DEF sendUsbMessage, host, PipeStep, Pipe!pipeVars, InFlight, OutOfStep
<1>3. CASE ~(Muted \/ data = lastData)
  <2>1. /\ lastData' = data /\ held' = held /\ endpoint' = endpoint
        /\ pc' = "wait" /\ OutOfStep' = OutOfStep
    BY <1>3 DEF sendUsbMessage, host, OutOfStep
  <2>2. CASE endpoint = None
    <3>1. InFlight = <<>> /\ InFlight' = <<data>>
      BY <2>1, <2>2 DEF InFlight
    <3>2. Len(InFlight) < 2 /\ InFlight' = Append(InFlight, data)
      BY <3>1
    <3>. QED
      BY <1>3, <2>1, <3>2 DEF PipeStep, Pipe!PipeNext, Pipe!Accept
  <2>3. CASE endpoint # None
    <3>1. InFlight = <<endpoint>> /\ InFlight' = <<endpoint, data>>
      BY <2>1, <2>3 DEF InFlight
    <3>2. Len(InFlight) < 2 /\ InFlight' = Append(InFlight, data)
      BY <3>1
    <3>. QED
      BY <1>3, <2>1, <3>2 DEF PipeStep, Pipe!PipeNext, Pipe!Accept
  <2>. QED
    BY <2>2, <2>3
<1>. QED
  BY <1>2, <1>3

LEMMA TakesDelivers == ASSUME UsbInv, HostTakes PROVE PipeStep
<1>1. /\ endpoint # None /\ endpoint' = None
      /\ lastData' = lastData /\ pc' = pc
  BY DEF HostTakes
<1>2. ~OutOfStep'
  BY DEF HostTakes, OutOfStep, UsbInv, TypeOK
<1>3. /\ ~OutOfStep => held' = endpoint
      /\ OutOfStep => held' = held
  BY DEF HostTakes, OutOfStep
<1>4. InFlight # <<>> /\ endpoint = Head(InFlight) /\ InFlight' = Tail(InFlight)
  <2>1. CASE pc = "wait"
    <3>1. InFlight = <<endpoint, lastData>> /\ InFlight' = <<lastData>>
      BY <1>1, <2>1 DEF InFlight
    <3>. QED
      BY <3>1
  <2>2. CASE pc # "wait"
    <3>1. InFlight = <<endpoint>> /\ InFlight' = <<>>
      BY <1>1, <2>2 DEF InFlight
    <3>. QED
      BY <3>1
  <2>. QED
    BY <2>1, <2>2
<1>5. CASE ~OutOfStep
  <2>1. OutOfStep' = OutOfStep
    BY <1>2, <1>5 DEF OutOfStep
  <2>. QED
    BY <1>1, <1>3, <1>4, <1>5, <2>1 DEF PipeStep, Pipe!PipeNext, Pipe!Deliver
<1>6. CASE OutOfStep
  <2>1. OutOfStep' = FALSE
    BY <1>2 DEF OutOfStep
  <2>. QED
    BY <1>1, <1>3, <1>4, <1>6, <2>1 DEF PipeStep, Pipe!PipeNext, Pipe!Discard
<1>. QED
  BY <1>5, <1>6

\* Steps inside the radio that neither take a message nor lose one.
LEMMA StutterStep ==
  ASSUME UNCHANGED <<lastData, held, InFlight, OutOfStep>>
  PROVE  PipeStep
  BY DEF PipeStep, Pipe!pipeVars

LEMMA UsbImplements == UsbInv /\ [Next]_vars => PipeStep
<1>. SUFFICES ASSUME UsbInv, [Next]_vars PROVE PipeStep
  OBVIOUS
<1>. USE DEF Stages
<1>1. CASE UsbPoll
  <2>1. /\ InFlight' = InFlight /\ lastData' = lastData /\ held' = held
        /\ OutOfStep' \in BOOLEAN
    BY <1>1 DEF UsbPoll, InFlight, OutOfStep
  <2>2. CASE configured' = configured
    <3>1. OutOfStep' = OutOfStep
      BY <1>1, <2>2 DEF UsbPoll, OutOfStep
    <3>. QED
      BY <2>1, <3>1, StutterStep
  <2>3. CASE configured' # configured
    <3>1. held = NOT_USED
      BY <1>1, <2>3 DEF UsbPoll, UsbInv, TypeOK
    <3>. QED
      BY <2>1, <3>1 DEF PipeStep, Pipe!PipeNext, Pipe!SetUp
  <2>. QED
    BY <2>2, <2>3
<1>2. CASE ReleaseKey
  BY <1>2, SendAccepts DEF ReleaseKey, Reports
<1>3. CASE SetInterrupt
  <2>1. lastData # None /\ ret # "wait"
    BY ReportsAssumption DEF UsbInv, TypeOK
  <2>2. InFlight' = InFlight
    BY <1>3, <2>1 DEF SetInterrupt, Return, InFlight, host
  <2>3. OutOfStep' = OutOfStep
    BY <1>3, <2>1 DEF SetInterrupt, OutOfStep, host, UsbInv, TypeOK
  <2>. QED
    BY <1>3, <2>2, <2>3, StutterStep DEF SetInterrupt, host
<1>4. CASE \/ Skip("channel", "key") \/ Skip("key", "guard")
           \/ Skip("guard", "present")
  BY <1>4, StutterStep DEF Skip, InFlight, host, OutOfStep
<1>5. CASE ChannelMoved
  BY <1>5, SendAccepts DEF ChannelMoved, Reports
<1>6. CASE PressKey
  BY <1>6, SendAccepts DEF PressKey, Reports
<1>7. CASE SwitchOn
  BY <1>7, SendAccepts DEF SwitchOn, Reports
<1>8. CASE ReleaseMain
  BY <1>8, SendAccepts DEF ReleaseMain, Reports
<1>9. CASE MoveSquelch
  BY <1>9, StutterStep DEF MoveSquelch, InFlight, host, OutOfStep
<1>10. CASE ResendGuard
  BY <1>10, SendAccepts DEF ResendGuard, Reports
<1>11. CASE DetectUsb
  BY <1>11, StutterStep DEF DetectUsb, InFlight, host, OutOfStep
<1>12. CASE WatchdogReset
  BY <1>12 DEF WatchdogReset, InFlight, OutOfStep, PipeStep, Pipe!PipeNext,
               Pipe!Restart
<1>13. CASE HostTakes
  BY <1>13, TakesDelivers
<1>14. CASE Attach
  BY <1>14, StutterStep DEF Attach, radio, InFlight, OutOfStep
<1>15. CASE Detach
  BY <1>15 DEF Detach, radio, InFlight, OutOfStep, PipeStep, Pipe!PipeNext,
               Pipe!Unplug
<1>16. CASE HostRequest
  BY <1>16, StutterStep DEF HostRequest, radio, InFlight, OutOfStep
<1>17. CASE UNCHANGED vars
  BY <1>17, StutterStep DEF vars, radio, host, InFlight, OutOfStep
<1>. QED
  BY <1>1, <1>2, <1>3, <1>4, <1>5, <1>6, <1>7, <1>8, <1>9, <1>10, <1>11, <1>12,
     <1>13, <1>14, <1>15, <1>16, <1>17
  DEF Next, Loop

\* Reports reach the host in order, once each, whenever cable, squelch and
\* watchdog strike: every step of UsbKeys is one of KeyPipe or none.
THEOREM UsbImplementsKeyPipe == Spec => ImplementsKeyPipe
<1>1. Init => Pipe!PipeInit
  BY DEF Init, Pipe!PipeInit, InFlight, OutOfStep
<1>2. UsbInv /\ [Next]_vars => [Pipe!PipeNext]_(Pipe!pipeVars)
  BY UsbImplements DEF PipeStep
<1>. QED
  BY <1>1, <1>2, UsbAlways, PTL DEF Spec, ImplementsKeyPipe, Pipe!PipeSpec
=============================================================================
