--------------------------- MODULE UhfTimersProofs ---------------------------
(* Theorems about UhfTimers, for every choice of tones and times.          *)
EXTENDS UhfTimers, TLAPS

USE DEF Steps, ToneSteps, DelaySteps, LoopSteps, OnSteps, Returns

LEMMA InitType == Init => TypeOK
<1> SUFFICES ASSUME Init PROVE TypeOK OBVIOUS
<1>1. byte0 \in Byte0 BY DEF Init, Byte0, AllTones
<1>2. byte1 \in Byte1 BY DEF Init, Byte1
<1>3. reg \in Byte1 BY DEF Init, Byte1, NoByte
<1>4. 0 \in 0..WdtTicks BY TimesAssumption
<1>5. tone \in AllTones BY DEF Init, AllTones
<1>. QED BY <1>1, <1>2, <1>3, <1>4, <1>5 DEF Init, TypeOK

\* Writing one bit of a control byte yields a control byte.
LEMMA BitWrites ==
  ASSUME TypeOK, NEW v \in BOOLEAN
  PROVE  /\ [byte0 EXCEPT !.test = v] \in Byte0
         /\ [byte1 EXCEPT !.resend = v] \in Byte1
         /\ [byte1 EXCEPT !.firstRun = v] \in Byte1
BY DEF TypeOK, Byte0, Byte1

LEMMA LoadType0 ==
  ASSUME TypeOK, NEW byte \in Byte0, NEW next \in Returns,
         LoadPlain(byte, "store0", next), cont # "wait",
         shown' \in {"off", "freq", "text", "version", "888888"},
         lost' \in BOOLEAN
  PROVE  TypeOK'
BY DEF TypeOK, LoadPlain, Load, hw

LEMMA LoadType1 ==
  ASSUME TypeOK, NEW byte \in Byte1, NEW next \in Returns,
         LoadPlain(byte, "store1", next), cont # "wait",
         shown' \in {"off", "freq", "text", "version", "888888"},
         lost' \in BOOLEAN
  PROVE  TypeOK'
BY DEF TypeOK, LoadPlain, Load, hw

LEMMA ResendType ==
  ASSUME TypeOK, NEW r \in BOOLEAN, NEW next \in Returns,
         SetResend(r, next), cont # "wait"
  PROVE  TypeOK'
BY BitWrites, LoadType1 DEF SetResend, TypeOK, indicator

\* The program's own steps keep the types.
LEMMA ToneType == TypeOK /\ PlayTone => TypeOK'
<1> SUFFICES ASSUME TypeOK, PlayTone PROVE TypeOK'
  OBVIOUS
<1> USE TimesAssumption
    DEF TypeOK, hw, t1hw, t2hw, At, Goto, Ready, indicator
<1>1. CASE StopTimer1ForTone BY <1>1 DEF StopTimer1ForTone
<1>2. CASE ClearFlags("tifrTone", "tccr1aPwm")
  <2>1. ocf1a' \in BOOLEAN /\ tov2' \in BOOLEAN BY <1>2, Zenon DEF ClearFlags
  <2>. QED BY <1>2, <2>1 DEF ClearFlags
<1>3. CASE SelectPwm
  <2>1. wgm10' \in BOOLEAN /\ com1a0' \in BOOLEAN BY <1>3, Zenon DEF SelectPwm
  <2>. QED BY <1>3, <2>1 DEF SelectPwm
<1>4. CASE StartPwm BY <1>4 DEF StartPwm
<1>5. CASE DisableCompare("ocie1aOff", "enablePWM")
  <2>1. ocie1a' \in BOOLEAN BY <1>5, Zenon DEF DisableCompare
  <2>. QED BY <1>5, <2>1 DEF DisableCompare
<1>6. CASE EnablePWM1A BY <1>6 DEF EnablePWM1A
<1>7. CASE SetUpperByte BY <1>7 DEF SetUpperByte, PhaseTime
<1>8. CASE ClearFlags("tifrT2", "tccr2On")
  <2>1. ocf1a' \in BOOLEAN /\ tov2' \in BOOLEAN BY <1>8, Zenon DEF ClearFlags
  <2>. QED BY <1>8, <2>1 DEF ClearFlags
<1>9. CASE StartTimer2 BY <1>9 DEF StartTimer2
<1>10. CASE EnableOverflow2 BY <1>10 DEF EnableOverflow2
<1>11. CASE SetAudio
  BY <1>11 DEF SetAudio, Load, ToneDone, Byte0, Byte1, AllTones
<1>12. CASE SetAudioCycle
  <2>1. reg' \in Byte0
    BY <1>12 DEF SetAudioCycle, Load, Byte0, AllTones, Cycles
  <2>. QED BY <1>12, <2>1 DEF SetAudioCycle, Load, ToneDone, AllTones
<1> QED
  BY <1>1, <1>2, <1>3, <1>4, <1>5, <1>6, <1>7, <1>8, <1>9, <1>10, <1>11,
     <1>12 DEF PlayTone

LEMMA DelayType == TypeOK /\ SetT1Delay => TypeOK'
<1> SUFFICES ASSUME TypeOK, SetT1Delay PROVE TypeOK'
  OBVIOUS
<1> USE TimesAssumption
    DEF TypeOK, hw, t1hw, t2hw, At, Goto, Ready, indicator
<1>1. CASE DisableCompare("dOcie1aOff", "dTccr1a")
  <2>1. ocie1a' \in BOOLEAN BY <1>1, Zenon DEF DisableCompare
  <2>. QED BY <1>1, <2>1 DEF DisableCompare
<1>2. CASE ClearTCCR1A
  <2>1. wgm10' \in BOOLEAN /\ com1a0' \in BOOLEAN
    BY <1>2, Zenon DEF ClearTCCR1A
  <2>. QED BY <1>2, <2>1 DEF ClearTCCR1A
<1>3. CASE StopTimer1ForDelay BY <1>3 DEF StopTimer1ForDelay
<1>4. CASE LoadCount BY <1>4 DEF LoadCount
<1>5. CASE StartDelay BY <1>5 DEF StartDelay
<1>6. CASE ClearFlags("dTifr", "dOcie1aOn")
  <2>1. ocf1a' \in BOOLEAN /\ tov2' \in BOOLEAN BY <1>6, Zenon DEF ClearFlags
  <2>. QED BY <1>6, <2>1 DEF ClearFlags
<1>7. CASE EnableCompare BY <1>7 DEF EnableCompare
<1>. QED BY <1>1, <1>2, <1>3, <1>4, <1>5, <1>6, <1>7 DEF SetT1Delay

LEMMA LoopType == TypeOK /\ (Keys \/ (Program /\ ~PlayTone /\ ~SetT1Delay))
                    => TypeOK'
<1> SUFFICES ASSUME TypeOK, Keys \/ (Program /\ ~PlayTone /\ ~SetT1Delay)
             PROVE TypeOK'
  OBVIOUS
<1> USE TimesAssumption
    DEF TypeOK, hw, t1hw, t2hw, At, Goto, Ready, EndPass, indicator, Display
<1>a. pc \notin DelaySteps => cont # "wait" OBVIOUS
<1>b. TRUE \in BOOLEAN /\ FALSE \in BOOLEAN /\ byte1.resend \in BOOLEAN
  BY DEF Byte1
<1>1. CASE PressTone BY <1>1 DEF PressTone
<1>2. CASE ShowText
  <2>1. lost' \in BOOLEAN BY <1>2, Zenon DEF ShowText, Display
  <2>. QED BY <1>2, <2>1 DEF ShowText
<1>3. CASE PressTest BY <1>3, <1>a, <1>b, BitWrites, LoadType0 DEF PressTest
<1>4. CASE ReleaseTest BY <1>4, <1>a, <1>b, BitWrites, LoadType0 DEF ReleaseTest
<1>5. CASE MoveSquelch BY <1>5, <1>a, LoadType0 DEF MoveSquelch
<1>6. CASE SwitchOff
  <2>1. on' \in BOOLEAN /\ lost' \in BOOLEAN
    BY <1>6, Zenon DEF SwitchOff, Display
  <2>. QED BY <1>6, <2>1 DEF SwitchOff
<1>7. CASE SwitchOn BY <1>7 DEF SwitchOn
<1>8. CASE NoKey BY <1>8 DEF NoKey
<1>9. CASE Store0 BY <1>9 DEF Store0, Stored, Byte1, NoByte
<1>10. CASE Store1 BY <1>10 DEF Store1, Stored, Byte1, NoByte
<1>11. CASE Note BY <1>11, <1>a, <1>b, ResendType DEF Note
<1>12. CASE ResendAfterTest BY <1>12, <1>a, <1>b, ResendType DEF ResendAfterTest
<1>13. CASE ResendCheck
  <2>1. CASE byte1.resend /\ ~byte0.test
    BY <1>13, <2>1, <1>a, <1>b, ResendType DEF ResendCheck
  <2>2. CASE ~(byte1.resend /\ ~byte0.test)
    <3>1. pc = "check" /\ EndPass
          /\ UNCHANGED <<tone, delay, cont, reg, ret, on, indicator,
                         hw, byte0, byte1>>
      BY <1>13, <2>2, Zenon DEF ResendCheck
    <3>. QED BY <3>1
  <2>. QED BY <2>1, <2>2
<1>14. CASE ResendServe
  <2>1. CASE on /\ byte1.firstRun
    BY <1>14, <2>1, <1>a, <1>b, BitWrites, LoadType1 DEF ResendServe
  <2>2. CASE ~(on /\ byte1.firstRun)
    <3>1. lost' \in BOOLEAN
      BY <1>14, <2>2, Zenon DEF ResendServe, Display, indicator, TypeOK
    <3>. QED BY <1>14, <2>2, <3>1 DEF ResendServe
  <2>. QED BY <2>1, <2>2
<1>15. CASE TurnOn BY <1>15, <1>a, <1>b, ResendType DEF TurnOn
<1>16. CASE TurnOnAdf BY <1>16, <1>a, <1>b, ResendType DEF TurnOnAdf
<1>17. CASE TurnOnTest
  <2>1. CASE byte0.test BY <1>17, <2>1 DEF TurnOnTest
  <2>2. CASE ~byte0.test
    BY <1>17, <2>2, <1>a, <1>b, BitWrites, LoadType0 DEF TurnOnTest
  <2>. QED BY <2>1, <2>2
<1>18. CASE TurnOnDelay BY <1>18 DEF TurnOnDelay
<1>19. CASE WaitDone BY <1>19 DEF WaitDone
<1>20. CASE TurnOnEnd
  <2>1. lost' \in BOOLEAN /\ on' \in BOOLEAN
    BY <1>20, Zenon DEF TurnOnEnd, Display, indicator, TypeOK
  <2>. QED BY <1>20, <2>1 DEF TurnOnEnd
<1>21. CASE NoteKey BY <1>21 DEF NoteKey
<1>22. CASE ShowVersion
  <2>1. lost' \in BOOLEAN BY <1>22, Zenon DEF ShowVersion, Display
  <2>. QED BY <1>22, <2>1 DEF ShowVersion
<1>. QED
  BY <1>1, <1>2, <1>3, <1>4, <1>5, <1>6, <1>7, <1>8, <1>9, <1>10, <1>11,
     <1>12, <1>13, <1>14, <1>15, <1>16, <1>17, <1>18, <1>19, <1>20, <1>21,
     <1>22
  DEF Keys, Program, SetUhfOn

LEMMA IsrType == TypeOK /\ (IsrTimer1 \/ IsrTimer2 \/ Tick \/ WatchdogReset)
                   => TypeOK'
<1> SUFFICES ASSUME TypeOK, IsrTimer1 \/ IsrTimer2 \/ Tick \/ WatchdogReset
             PROVE TypeOK'
  OBVIOUS
<1> USE TimesAssumption DEF TypeOK, hw, t1hw, t2hw, main, indicator
<1>1. CASE IsrTimer1
  <2>1. ocf1a' \in BOOLEAN BY <1>1, Zenon DEF IsrTimer1
  <2>2. byte0' \in Byte0 /\ byte1' \in Byte1
    <3>1. FALSE \in BOOLEAN /\ TRUE \in BOOLEAN OBVIOUS
    <3>2. [byte0 EXCEPT !.test = FALSE] \in Byte0 BY <3>1, BitWrites, Zenon
    <3>3. [byte1 EXCEPT !.resend = TRUE] \in Byte1 BY <3>1, BitWrites, Zenon
    <3>. QED BY <1>1, <3>2, <3>3, Zenon DEF IsrTimer1
  <2>3. lost' \in BOOLEAN BY <1>1, Zenon DEF IsrTimer1, HandlerInMain
  <2>. QED BY <1>1, <2>1, <2>2, <2>3 DEF IsrTimer1, HandlerInMain
<1>2. CASE IsrTimer2
  <2>1. tov2' \in BOOLEAN BY <1>2, Zenon DEF IsrTimer2
  <2>2. CASE upperByte > 0 BY <1>2, <2>1, <2>2 DEF IsrTimer2
  <2>3. CASE ~(upperByte > 0)
    <3>1. PhaseEnds /\ UNCHANGED <<byte1, main>> BY <1>2, <2>3 DEF IsrTimer2
    <3>2. byte0' \in Byte0
      BY <3>1 DEF PhaseEnds, CountDownCycle, ToneOver, Byte0, AllTones
    <3>3. \/ NextPhaseOn(OneSec) \/ NextPhaseOn(HalfSec)
          \/ NextPhaseOff(OneSec) \/ NextPhaseOff(HalfSec) \/ ToneOver
      BY <3>1 DEF PhaseEnds
    <3>4. /\ com1a0' \in BOOLEAN /\ tccr2' \in BOOLEAN /\ ocie1a' \in BOOLEAN
          /\ ocf1a' \in BOOLEAN
      BY <3>3, Zenon DEF NextPhaseOn, NextPhaseOff, ToneOver
    <3>5. CASE NextPhaseOn(OneSec) \/ NextPhaseOn(HalfSec)
      <4>1. wgm10' \in BOOLEAN /\ toie2' \in BOOLEAN
        BY <3>5, Zenon DEF NextPhaseOn
      <4>. QED BY <3>1, <3>2, <3>4, <3>5, <4>1, <2>1 DEF NextPhaseOn
    <3>6. CASE NextPhaseOff(OneSec) \/ NextPhaseOff(HalfSec)
      <4>1. toie2' \in BOOLEAN BY <3>6, Zenon DEF NextPhaseOff
      <4>. QED BY <3>1, <3>2, <3>4, <3>6, <4>1, <2>1 DEF NextPhaseOff
    <3>7. CASE ToneOver BY <3>1, <3>2, <3>4, <3>7, <2>1 DEF ToneOver
    <3>. QED BY <3>3, <3>5, <3>6, <3>7
  <2>. QED BY <2>2, <2>3
<1>3. CASE Tick
  <2>1. ocf1a' \in BOOLEAN /\ tov2' \in BOOLEAN BY <1>3, Zenon DEF Tick
  <2>2. wdt' \in 0..WdtTicks BY <1>3 DEF Tick
  <2>3. t1' \in Nat BY <1>3 DEF Tick
  <2>. QED BY <1>3, <2>1, <2>2, <2>3 DEF Tick
<1>4. CASE WatchdogReset
  <2>1. /\ wgm10' \in BOOLEAN /\ com1a0' \in BOOLEAN /\ ocie1a' \in BOOLEAN
        /\ ocf1a' \in BOOLEAN /\ tccr2' \in BOOLEAN /\ toie2' \in BOOLEAN
        /\ tov2' \in BOOLEAN /\ lost' \in BOOLEAN
    BY <1>4, Zenon DEF WatchdogReset, Display
  <2>2. byte0' \in Byte0 /\ byte1' \in Byte1 /\ reg' \in Byte1
    BY <1>4 DEF WatchdogReset, Byte0, Byte1, NoByte, AllTones
  <2>. QED BY <1>4, <2>1, <2>2 DEF WatchdogReset, AllTones, Display
<1>. QED BY <1>1, <1>2, <1>3, <1>4

\* Every reachable state of the timers, the control bytes and the main loop is
\* well typed: audioCycle never runs below zero in isrTimer2, and a bit-field
\* write stores to the byte it was loaded from.
THEOREM TypeCorrect == Spec => []TypeOK
<1>1. TypeOK /\ [Next]_vars => TypeOK'
  <2> SUFFICES ASSUME TypeOK, [Next]_vars PROVE TypeOK'
    OBVIOUS
  <2>1. CASE Keys \/ (Program /\ ~PlayTone /\ ~SetT1Delay) BY <2>1, LoopType
  <2>2. CASE PlayTone BY <2>2, ToneType
  <2>3. CASE SetT1Delay BY <2>3, DelayType
  <2>4. CASE IsrTimer1 \/ IsrTimer2 \/ Tick \/ WatchdogReset BY <2>4, IsrType
  <2>5. CASE UNCHANGED vars BY <2>5 DEF TypeOK, vars, hw, main, indicator
  <2>. QED BY <2>1, <2>2, <2>3, <2>4, <2>5 DEF Next, Program
<1>. QED BY InitType, <1>1, PTL DEF Spec

-----------------------------------------------------------------------------
(* The speaker                                                             *)

\* NoStuckTone, and that TIMER2 runs when playTone enables its interrupt.
SpeakerInv ==
  com1a0 => \/ tccr2 /\ toie2
            \/ pc \in {"upperByte", "tifrT2", "tccr2On"}
            \/ pc = "toie2On" /\ tccr2

LEMMA SpeakerTone == SpeakerInv /\ PlayTone => SpeakerInv'
<1> SUFFICES ASSUME SpeakerInv, PlayTone PROVE SpeakerInv'
  OBVIOUS
<1> USE DEF SpeakerInv, At, Goto, Ready, t1hw, t2hw, hw
<1>1. CASE StopTimer1ForTone BY <1>1 DEF StopTimer1ForTone
<1>2. CASE ClearFlags("tifrTone", "tccr1aPwm") BY <1>2 DEF ClearFlags
<1>3. CASE SelectPwm BY <1>3 DEF SelectPwm
<1>4. CASE StartPwm BY <1>4 DEF StartPwm
<1>5. CASE DisableCompare("ocie1aOff", "enablePWM") BY <1>5 DEF DisableCompare
<1>6. CASE EnablePWM1A BY <1>6 DEF EnablePWM1A
<1>7. CASE SetUpperByte BY <1>7 DEF SetUpperByte
<1>8. CASE ClearFlags("tifrT2", "tccr2On") BY <1>8 DEF ClearFlags
<1>9. CASE StartTimer2 BY <1>9 DEF StartTimer2
<1>10. CASE EnableOverflow2 BY <1>10 DEF EnableOverflow2
<1>11. CASE SetAudio BY <1>11 DEF SetAudio, Load
<1>12. CASE SetAudioCycle BY <1>12 DEF SetAudioCycle, Load
<1>. QED
  BY <1>1, <1>2, <1>3, <1>4, <1>5, <1>6, <1>7, <1>8, <1>9, <1>10, <1>11,
     <1>12 DEF PlayTone

\* Outside playTone the program neither starts the speaker nor stops TIMER2.
LEMMA QuietProgram ==
  ASSUME Keys \/ SetT1Delay \/ (Program /\ ~PlayTone /\ ~SetT1Delay)
  PROVE  /\ pc \notin {"upperByte", "tifrT2", "tccr2On", "toie2On"}
         /\ com1a0' => com1a0
         /\ UNCHANGED <<tccr2, toie2>>
<1> USE DEF At, Goto, Ready, t2hw, t1hw, hw, Load, LoadPlain, SetResend, EndPass
<1>1. CASE Keys
  BY <1>1 DEF Keys, PressTone, NoteKey, ShowText, PressTest, ReleaseTest, MoveSquelch,
       SwitchOff, SwitchOn
<1>2. CASE SetT1Delay
  BY <1>2 DEF SetT1Delay, DisableCompare, ClearTCCR1A, StopTimer1ForDelay,
       LoadCount, StartDelay, ClearFlags, EnableCompare
<1>3. CASE NoKey \/ Store0 \/ Store1 \/ Note \/ ShowVersion
             \/ ResendAfterTest \/ ResendCheck \/ ResendServe
  BY <1>3 DEF NoKey, Store0, Store1, Stored, Note, ShowVersion,
       ResendAfterTest, ResendCheck, ResendServe
<1>4. CASE SetUhfOn
  BY <1>4 DEF SetUhfOn, TurnOn, TurnOnAdf, TurnOnTest, TurnOnDelay, WaitDone,
       TurnOnEnd
<1>. QED BY <1>1, <1>2, <1>3, <1>4 DEF Program

LEMMA SpeakerIsr ==
  SpeakerInv /\ (IsrTimer1 \/ IsrTimer2 \/ Tick \/ WatchdogReset) => SpeakerInv'
<1> SUFFICES ASSUME SpeakerInv, IsrTimer1 \/ IsrTimer2 \/ Tick \/ WatchdogReset
             PROVE  SpeakerInv'
  OBVIOUS
<1> USE DEF SpeakerInv, t1hw, t2hw, main
<1>1. CASE IsrTimer1 BY <1>1 DEF IsrTimer1, HandlerInMain
<1>2. CASE IsrTimer2
  <2>1. CASE upperByte > 0 BY <1>2, <2>1 DEF IsrTimer2
  <2>2. CASE ~(upperByte > 0)
    <3>1. PhaseEnds /\ UNCHANGED pc BY <1>2, <2>2 DEF IsrTimer2
    <3>2. (com1a0' => tccr2' /\ toie2') \/ ~com1a0'
      BY <3>1 DEF PhaseEnds, NextPhaseOn, NextPhaseOff, ToneOver
    <3>. QED BY <3>2
  <2>. QED BY <2>1, <2>2
<1>3. CASE Tick BY <1>3 DEF Tick
<1>4. CASE WatchdogReset BY <1>4 DEF WatchdogReset
<1>. QED BY <1>1, <1>2, <1>3, <1>4

\* The speaker is never left on with nothing to end it, for every choice of
\* tones and times and wherever the handlers interrupt the program.
THEOREM SpeakerNeverStuck == Spec => []NoStuckTone
<1>1. Init => SpeakerInv BY DEF Init, SpeakerInv
<1>2. SpeakerInv /\ [Next]_vars => SpeakerInv'
  <2> SUFFICES ASSUME SpeakerInv, [Next]_vars PROVE SpeakerInv'
    OBVIOUS
  <2>1. CASE PlayTone BY <2>1, SpeakerTone
  <2>2. CASE Keys \/ SetT1Delay \/ (Program /\ ~PlayTone /\ ~SetT1Delay)
    BY <2>2, QuietProgram DEF SpeakerInv
  <2>3. CASE IsrTimer1 \/ IsrTimer2 \/ Tick \/ WatchdogReset
    BY <2>3, SpeakerIsr
  <2>4. CASE UNCHANGED vars BY <2>4 DEF SpeakerInv, vars, hw, main
  <2>. QED BY <2>1, <2>2, <2>3, <2>4 DEF Next, Program
<1>3. SpeakerInv => NoStuckTone BY DEF SpeakerInv, NoStuckTone
<1>. QED BY <1>1, <1>2, <1>3, PTL DEF Spec

-----------------------------------------------------------------------------
(* The init test                                                           *)

\* firstRun is set in the pass after boot only, up to the init test.
BootPass ==
  /\ pc = "store1" => (reg.firstRun => byte1.firstRun)
  /\ byte1.firstRun =>
       /\ on /\ wdt <= 1
       /\ \/ pc = "check" /\ byte1.resend /\ ~byte0.test
          \/ pc = "store1" /\ ret = "serve"
          \/ pc = "serve"
          \/ pc = "store1" /\ ret = "on" /\ ~reg.firstRun

\* Only the busy wait, and the rest of its pass, take more than one tick.
PassTime ==
  wdt > 1 => \/ pc \in {"wait", "onEnd", "check", "serve"}
             \/ pc = "store1" /\ ret = "serve"

\* Progress of a setT1Delay that no tone has disturbed.
DelaySetup ==
  /\ pc \in DelaySteps => delay > 0
  /\ pc \in DelaySteps /\ cont = "wait" => delay = OneSec
  /\ pc \in DelaySteps \ {"dOcie1aOff"} => ~ocie1a
  /\ pc = "dCount" /\ ~wgm10 => tccr1b = "stop"
  /\ pc = "dStart" /\ ~wgm10 => tccr1b = "stop" /\ t1 = delay
  /\ pc \in {"dTifr", "dOcie1aOn"} /\ ~wgm10 =>
       tccr1b = "ctc" /\ t1 + wdt \in {delay, delay + 1}

\* The delay of the init test is running, or over and about to be reported.
Counting ==
  /\ ocie1a /\ tccr1b = "ctc"
  /\ \/ t1 + wdt <= OneSec + 1
     \/ ocf1a /\ wdt <= OneSec + 2

\* The tone is in a pause, after which isrTimer2 takes TIMER1 over.
SilentPhase ==
  /\ tccr2
  /\ \/ byte0.audio = "DOUBLE" /\ byte0.audioCycle = 1
     \/ byte0.audio = "PULSE" /\ byte0.audioCycle \in {1, 3}

WaitInv ==
  pc = "wait" /\ ~wgm10 => \/ Counting \/ SilentPhase
                           \/ ~byte0.test /\ wdt <= OneSec + 2

TestInv == BootPass /\ PassTime /\ DelaySetup /\ WaitInv

LEMMA TestTone == TypeOK /\ TestInv /\ PlayTone => TestInv'
<1> SUFFICES ASSUME TypeOK, TestInv, PlayTone PROVE TestInv'
  OBVIOUS
<1> USE DEF At, Goto, Ready, t1hw, t2hw, hw
<1>1. /\ pc \in ToneSteps /\ pc' \in (ToneSteps \ {"tccr1bOff"}) \cup {"store0"}
      /\ UNCHANGED <<byte0, byte1, wdt>>
  BY DEF PlayTone, StopTimer1ForTone, ClearFlags, SelectPwm, StartPwm,
     DisableCompare, EnablePWM1A, SetUpperByte, StartTimer2, EnableOverflow2,
     SetAudio, SetAudioCycle, Load
<1>2. BootPass' BY <1>1 DEF TestInv, BootPass
<1>3. PassTime' BY <1>1 DEF TestInv, PassTime
<1>4. DelaySetup' /\ WaitInv' BY <1>1 DEF DelaySetup, WaitInv
<1>. QED BY <1>2, <1>3, <1>4 DEF TestInv

LEMMA TestDelay == TypeOK /\ TestInv /\ SetT1Delay => TestInv'
<1> SUFFICES ASSUME TypeOK, TestInv, SetT1Delay PROVE TestInv'
  OBVIOUS
<1> USE TimesAssumption DEF At, Goto, Ready, t1hw, t2hw, hw
<1>1. /\ pc \in DelaySteps /\ UNCHANGED <<byte0, byte1, wdt>>
      /\ \/ pc' \in DelaySteps \ {"dOcie1aOff"} /\ UNCHANGED <<cont, delay>>
         \/ pc = "dOcie1aOn" /\ pc' = cont
  BY DEF SetT1Delay, DisableCompare, ClearTCCR1A, StopTimer1ForDelay,
     LoadCount, StartDelay, ClearFlags, EnableCompare
<1>2. BootPass' BY <1>1 DEF TestInv, BootPass, TypeOK
<1>3. PassTime' /\ wdt <= 1 BY <1>1 DEF TestInv, PassTime, TypeOK
<1>4. CASE EnableCompare
  <2>1. DelaySetup' BY <1>4 DEF EnableCompare, DelaySetup, TypeOK
  <2>2. WaitInv'
    BY <1>3, <1>4 DEF EnableCompare, TestInv, DelaySetup, WaitInv, Counting,
                      TypeOK
  <2>. QED BY <1>2, <1>3, <2>1, <2>2 DEF TestInv
<1>5. CASE ~EnableCompare
  <2>1. WaitInv' BY <1>1, <1>5 DEF WaitInv, SetT1Delay, DisableCompare,
          ClearTCCR1A, StopTimer1ForDelay, LoadCount, StartDelay, ClearFlags
  <2>2. DelaySetup'
    BY <1>3, <1>5 DEF SetT1Delay, DisableCompare, ClearTCCR1A,
       StopTimer1ForDelay, LoadCount, StartDelay, ClearFlags, TestInv,
       DelaySetup, TypeOK
  <2>. QED BY <1>2, <1>3, <2>1, <2>2 DEF TestInv
<1>. QED BY <1>4, <1>5

LEMMA TestLoop ==
  TypeOK /\ TestInv /\ (Keys \/ (Program /\ ~PlayTone /\ ~SetT1Delay))
    => TestInv'
<1> SUFFICES ASSUME TypeOK, TestInv,
                    Keys \/ (Program /\ ~PlayTone /\ ~SetT1Delay)
             PROVE  TestInv'
  OBVIOUS
<1> USE TimesAssumption
    DEF At, Goto, Ready, EndPass, hw, t1hw, t2hw, Load, LoadPlain, SetResend,
        TestInv, BootPass, PassTime, DelaySetup, WaitInv, TypeOK
<1>1. CASE PressTone BY <1>1 DEF PressTone
<1>2. CASE ShowText BY <1>2 DEF ShowText
<1>3. CASE PressTest BY <1>3 DEF PressTest
<1>4. CASE ReleaseTest BY <1>4 DEF ReleaseTest
<1>5. CASE MoveSquelch BY <1>5 DEF MoveSquelch
<1>6. CASE SwitchOff BY <1>6 DEF SwitchOff
<1>7. CASE SwitchOn BY <1>7 DEF SwitchOn
<1>8. CASE NoKey BY <1>8 DEF NoKey
<1>9. CASE Store0 BY <1>9 DEF Store0, Stored
<1>10. CASE Store1 BY <1>10 DEF Store1, Stored
<1>11. CASE Note BY <1>11 DEF Note, Byte1
<1>12. CASE ResendAfterTest BY <1>12 DEF ResendAfterTest, Byte1
<1>13. CASE ResendCheck BY <1>13 DEF ResendCheck, Byte1
<1>14. CASE ResendServe BY <1>14 DEF ResendServe, Byte1
<1>15. CASE TurnOn BY <1>15 DEF TurnOn, Byte1
<1>16. CASE TurnOnAdf BY <1>16 DEF TurnOnAdf, Byte1
<1>17. CASE TurnOnTest BY <1>17 DEF TurnOnTest
<1>18. CASE TurnOnDelay BY <1>18 DEF TurnOnDelay
<1>19. CASE WaitDone BY <1>19 DEF WaitDone
<1>20. CASE TurnOnEnd BY <1>20 DEF TurnOnEnd
<1>21. CASE NoteKey BY <1>21 DEF NoteKey
<1>22. CASE ShowVersion BY <1>22 DEF ShowVersion
<1>. QED
  BY <1>1, <1>2, <1>3, <1>4, <1>5, <1>6, <1>7, <1>8, <1>9, <1>10, <1>11,
     <1>12, <1>13, <1>14, <1>15, <1>16, <1>17, <1>18, <1>19, <1>20, <1>21,
     <1>22
  DEF Keys, Program, SetUhfOn

LEMMA TestIsr1 == TypeOK /\ TestInv /\ IsrTimer1 => TestInv'
<1> SUFFICES ASSUME TypeOK, TestInv, IsrTimer1 PROVE TestInv'
  OBVIOUS
<1> USE TimesAssumption DEF IsrTimer1, HandlerInMain, t2hw, TypeOK
<1>0. /\ byte0'.test = FALSE /\ byte0'.audio = byte0.audio
      /\ byte0'.audioCycle = byte0.audioCycle
      /\ byte1'.resend = TRUE /\ byte1'.firstRun = byte1.firstRun
  BY DEF Byte0, Byte1
<1>1. BootPass' BY <1>0 DEF TestInv, BootPass
<1>2. PassTime' BY DEF TestInv, PassTime
<1>3. DelaySetup' BY DEF TestInv, DelaySetup
<1>4. WaitInv' BY <1>0 DEF TestInv, WaitInv, Counting, SilentPhase
<1>. QED BY <1>1, <1>2, <1>3, <1>4 DEF TestInv

LEMMA TestIsr2 == TypeOK /\ TestInv /\ IsrTimer2 => TestInv'
<1> SUFFICES ASSUME TypeOK, TestInv, IsrTimer2 PROVE TestInv'
  OBVIOUS
<1> USE TimesAssumption DEF main, t1hw, TypeOK
<1>1. CASE upperByte > 0
  <2>1. UNCHANGED <<t1hw, tccr2, byte0, byte1, main>> BY <1>1 DEF IsrTimer2
  <2>. QED BY <2>1 DEF TestInv, BootPass, PassTime, DelaySetup, WaitInv,
                       Counting, SilentPhase
<1>2. CASE ~(upperByte > 0)
  <2>1. PhaseEnds /\ UNCHANGED <<byte1, main>> BY <1>2 DEF IsrTimer2
  <2>2. byte0'.test = byte0.test
    BY <2>1 DEF PhaseEnds, CountDownCycle, ToneOver, Byte0
  <2>3. \/ wgm10' /\ ~ocie1a'
        \/ /\ UNCHANGED <<wgm10, tccr1b, ocie1a, t1>> /\ ~SilentPhase
           /\ SilentPhase'
        \/ /\ UNCHANGED <<wgm10, tccr1b, ocie1a, ocf1a, t1, byte0>>
           /\ ~SilentPhase
    BY <2>1 DEF PhaseEnds, CountDownCycle, NextPhaseOn, NextPhaseOff, ToneOver,
                SilentPhase, Byte0
  <2>4. BootPass' BY <2>1, <2>2 DEF TestInv, BootPass
  <2>5. PassTime' BY <2>1 DEF TestInv, PassTime
  <2>6. DelaySetup' BY <2>1, <2>3 DEF TestInv, DelaySetup
  <2>7. WaitInv' BY <2>1, <2>2, <2>3 DEF TestInv, WaitInv, Counting
  <2>. QED BY <2>4, <2>5, <2>6, <2>7 DEF TestInv
<1>. QED BY <1>1, <1>2

LEMMA TestTick == TypeOK /\ TestInv /\ Tick => TestInv'
<1> SUFFICES ASSUME TypeOK, TestInv, Tick PROVE TestInv'
  OBVIOUS
<1> USE TimesAssumption DEF Tick, TypeOK
<1>1. BootPass' BY DEF TestInv, BootPass
<1>2. PassTime' BY DEF TestInv, PassTime
<1>3. DelaySetup' BY DEF TestInv, DelaySetup
<1>4. WaitInv'
  BY DEF TestInv, WaitInv, Counting, SilentPhase, Timer1Matches, IsrPending
<1>. QED BY <1>1, <1>2, <1>3, <1>4 DEF TestInv

\* The init test lasts its second unless a tone is still being played, for
\* every choice of tones and times and wherever the handlers interrupt it.
THEOREM LateTestNeedsTone == Spec => []LateTestHasTone
<1>1. Init => TestInv
  BY TimesAssumption DEF Init, TestInv, BootPass, PassTime, DelaySetup, WaitInv
<1>2. TypeOK /\ TestInv /\ [Next]_vars => TestInv'
  <2> SUFFICES ASSUME TypeOK, TestInv, [Next]_vars PROVE TestInv'
    OBVIOUS
  <2>1. CASE PlayTone BY <2>1, TestTone
  <2>2. CASE SetT1Delay BY <2>2, TestDelay
  <2>3. CASE Keys \/ (Program /\ ~PlayTone /\ ~SetT1Delay) BY <2>3, TestLoop
  <2>4. CASE IsrTimer1 BY <2>4, TestIsr1
  <2>5. CASE IsrTimer2 BY <2>5, TestIsr2
  <2>6. CASE Tick BY <2>6, TestTick
  <2>7. CASE WatchdogReset
    BY <2>7, TimesAssumption DEF WatchdogReset, TestInv, BootPass, PassTime,
       DelaySetup, WaitInv
  <2>8. CASE UNCHANGED vars
    BY <2>8 DEF vars, hw, main, TestInv, BootPass, PassTime, DelaySetup,
       WaitInv, Counting, SilentPhase
  <2>. QED BY <2>1, <2>2, <2>3, <2>4, <2>5, <2>6, <2>7, <2>8 DEF Next, Program
<1>3. TypeOK /\ TestInv => LateTestHasTone
  BY TimesAssumption
  DEF TestInv, WaitInv, Counting, SilentPhase, LateTestHasTone, TypeOK
<1>. QED BY <1>1, <1>2, <1>3, TypeCorrect, PTL DEF Spec
=============================================================================
