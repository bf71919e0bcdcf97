------------------------------ MODULE UhfTimers ------------------------------
(***************************************************************************)
(* The two timers of the radio head and the code that shares them: the     *)
(* main loop, which starts tones, texts and the power-up test, and the two *)
(* interrupt handlers isrTimer1 and isrTimer2.  The main loop advances one *)
(* register or bit-field write at a time, so that a handler may run        *)
(* between any two of them; a handler runs with interrupts off and is one  *)
(* step.                                                                   *)
(*                                                                         *)
(* TIMER1 is used twice: as the one-shot delay of setT1Delay (compare      *)
(* interrupt on) and as the PWM generator of a tone (compare interrupt     *)
(* off).  TIMER2 measures the phases of a tone.                            *)
(*                                                                         *)
(* Time is a common tick.  A delay of n lets n ticks pass and takes effect *)
(* at the next, so it never ends early.                                    *)
(***************************************************************************)
EXTENDS Naturals

CONSTANTS Tones,       \* the tones the keys can start, a subset of tone_e
          HalfSec,     \* upperByte of setT2Delay(HALF_SEC)
          OneSec,      \* upperByte of setT2Delay(ONE_SEC), ticks of setT1Delay
          FourSecs,    \* upperByte of setT2Delay(FOUR_SECS)
          MaxTime,     \* ticks of setT1Delay(MAX_TIME)
          WdtTicks     \* ticks the watchdog allows one pass of the loop

AllTones == {"BEEP", "WAVE", "PULSE", "TOD", "DOUBLE", "WARN"}

\* The init test, with the tick its set-up may take, fits the watchdog period.
ASSUME TimesAssumption ==
  /\ Tones \subseteq AllTones
  /\ HalfSec \in Nat \ {0} /\ OneSec \in Nat \ {0} /\ FourSecs \in Nat \ {0}
  /\ MaxTime \in Nat \ {0} /\ WdtTicks \in Nat
  /\ OneSec + 2 < WdtTicks

VARIABLES
  wgm10, com1a0,       \* TCCR1A: PWM mode bit, toggle the speaker pin
  tccr1b,              \* TCCR1B: stopped, CTC delay, or PWM clock
  ocie1a, ocf1a,       \* TIMER1 compare interrupt: enable, pending flag
  t1, ocr1a,           \* ticks until the compare match of a delay, its period
  tccr2, toie2, tov2,  \* TIMER2: running, overflow interrupt enable and flag
  upperByte,           \* overflows to skip before a tone phase ends
  byte0,               \* uhfControl, first byte: audio, audioCycle, test
  byte1,               \* uhfControl, second byte: resend, firstRun
  pc,                  \* what the main loop executes next
  tone, delay,         \* argument of the playTone or setT1Delay under way
  cont,                \* where the main loop goes after that call
  reg, ret,            \* byte about to be stored back, where to go after it
  on,                  \* uhfKeyState.OFF is MS_ON
  shown,               \* what the indicator displays
  lost,                \* history: the end of a text's delay was forgotten
  wdt                  \* ticks since wdt_reset in this pass of the loop

hw   == <<wgm10, com1a0, tccr1b, ocie1a, ocf1a, t1, ocr1a, tccr2, toie2, tov2,
          upperByte>>
t1hw == <<wgm10, com1a0, tccr1b, ocie1a, ocf1a, t1, ocr1a>>
t2hw == <<tccr2, toie2, tov2, upperByte>>
\* The resend that isrTimer1 asks for is part of the indicator's history.
indicator == <<shown, lost>>
main == <<pc, tone, delay, cont, reg, ret, on, indicator, wdt>>
vars == <<hw, byte0, byte1, main>>

Byte0 == [audio : AllTones \ {"WARN"}, audioCycle : 0..7, test : BOOLEAN]
Byte1 == [resend : BOOLEAN, firstRun : BOOLEAN]

\* Contents of the register between two bit-field writes.
NoByte == [resend |-> FALSE, firstRun |-> FALSE]

ToneSteps  == {"tccr1bOff", "tifrTone", "tccr1aPwm", "tccr1bPwm",
               "ocie1aOff", "enablePWM", "upperByte", "tifrT2", "tccr2On",
               "toie2On", "audio", "audioCycle"}
DelaySteps == {"dOcie1aOff", "dTccr1a", "dTccr1b", "dCount", "dStart",
               "dTifr", "dOcie1aOn"}
LoopSteps  == {"idle", "note", "version", "release", "check", "serve"}
OnSteps    == {"on", "onTest", "onDelay", "wait", "onEnd"}
Steps == ToneSteps \cup DelaySteps \cup LoopSteps \cup OnSteps
           \cup {"store0", "store1"}

\* Where a bit-field write may go on.
Returns == LoopSteps \cup {"audioCycle", "on", "onTest", "onDelay", "onEnd"}

\* State after the C start-up code, main's initialisation and initVariables.
\* No key can be reported in the first pass: it is at its resend check.
\* A radio whose power switch is off at boot never runs the init test.
Init ==
  /\ wgm10 = FALSE /\ com1a0 = FALSE /\ tccr1b = "stop"
  /\ ocie1a = FALSE /\ ocf1a = FALSE /\ t1 = 0 /\ ocr1a = 0
  /\ tccr2 = FALSE /\ toie2 = FALSE /\ tov2 = FALSE /\ upperByte = 0
  /\ byte0 = [audio |-> "BEEP", audioCycle |-> 0, test |-> FALSE]
  /\ on \in BOOLEAN
  /\ byte1 = [resend |-> TRUE, firstRun |-> on]
  /\ pc = "check" /\ tone = "BEEP" /\ delay = 0 /\ cont = "check"
  /\ reg = NoByte /\ ret = "idle"
  /\ shown = "off" /\ lost = FALSE /\ wdt = 0

-----------------------------------------------------------------------------
(* Moves of the main loop, which takes its next step when no interrupt is  *)
(* pending.  Goto leaves every part of the loop but pc alone.              *)

IsrPending == (ocie1a /\ ocf1a) \/ (toie2 /\ tov2)

Ready(step) == pc = step /\ ~IsrPending

Goto(next) == /\ pc' = next
              /\ UNCHANGED <<tone, delay, cont, reg, ret, on, indicator, wdt>>

\* The indicator is written: an earlier text is gone.
Display(what) == shown' = what /\ lost' = FALSE

\* The loop starts over: wdt_reset.
EndPass == pc' = "idle" /\ wdt' = 0

At(step, next) == Ready(step) /\ Goto(next)

\* A bit-field write is a load, a change in a register and a store; what a
\* handler writes to the byte in between is lost.
Load(byte, store, next) ==
  /\ pc' = store /\ reg' = byte /\ ret' = next
  /\ UNCHANGED <<delay, on, wdt, hw, byte0, byte1>>

\* ... outside playTone
LoadPlain(byte, store, next) ==
  Load(byte, store, next) /\ UNCHANGED <<tone, cont>>

Stored == /\ pc' = ret /\ ret' = "idle" /\ reg' = NoByte
          /\ UNCHANGED <<tone, delay, cont, on, indicator, wdt>>

Store0 == Ready("store0") /\ byte0' = reg /\ Stored /\ UNCHANGED <<hw, byte1>>

Store1 == Ready("store1") /\ byte1' = reg /\ Stored /\ UNCHANGED <<hw, byte0>>

SetResend(r, next) ==
  LoadPlain([byte1 EXCEPT !.resend = r], "store1", next) /\ UNCHANGED indicator

-----------------------------------------------------------------------------
(* playTone: setT1Pwm, enablePWM1A, setT2Delay, then audio and audioCycle. *)

PhaseTime(t) == CASE t = "PULSE" -> HalfSec
                  [] t = "WARN"  -> FourSecs
                  [] OTHER       -> OneSec

PhasedTones == {"DOUBLE", "WAVE", "PULSE"}

Cycles(t) == CASE t = "DOUBLE" -> 2
               [] t = "WAVE"   -> 3
               [] OTHER        -> 4

\* The call is over: its argument and return address are forgotten.
ToneDone == tone' = "BEEP" /\ cont' = "check"

StopTimer1ForTone ==
  /\ At("tccr1bOff", "tifrTone")
  /\ tccr1b' = "stop" /\ t1' = 0 /\ ocr1a' = 0
  /\ UNCHANGED <<wgm10, com1a0, ocie1a, ocf1a, t2hw, byte0, byte1>>

\* TIFR |= flag reads and writes back every flag, which clears them all.
ClearFlags(step, next) ==
  /\ At(step, next)
  /\ ocf1a' = FALSE /\ tov2' = FALSE
  /\ UNCHANGED <<wgm10, com1a0, tccr1b, ocie1a, t1, ocr1a, tccr2, toie2,
                 upperByte, byte0, byte1>>

SelectPwm ==
  /\ At("tccr1aPwm", "tccr1bPwm")
  /\ wgm10' = TRUE /\ com1a0' = FALSE
  /\ UNCHANGED <<tccr1b, ocie1a, ocf1a, t1, ocr1a, t2hw, byte0, byte1>>

StartPwm ==
  /\ At("tccr1bPwm", "ocie1aOff")
  /\ tccr1b' = "pwm"
  /\ UNCHANGED <<wgm10, com1a0, ocie1a, ocf1a, t1, ocr1a, t2hw, byte0, byte1>>

DisableCompare(step, next) ==
  /\ At(step, next)
  /\ ocie1a' = FALSE
  /\ UNCHANGED <<wgm10, com1a0, tccr1b, ocf1a, t1, ocr1a, t2hw, byte0, byte1>>

EnablePWM1A ==
  /\ At("enablePWM", "upperByte")
  /\ com1a0' = TRUE
  /\ UNCHANGED <<wgm10, tccr1b, ocie1a, ocf1a, t1, ocr1a, t2hw, byte0, byte1>>

SetUpperByte ==
  /\ At("upperByte", "tifrT2")
  /\ upperByte' = PhaseTime(tone)
  /\ UNCHANGED <<t1hw, tccr2, toie2, tov2, byte0, byte1>>

StartTimer2 ==
  /\ At("tccr2On", "toie2On")
  /\ tccr2' = TRUE
  /\ UNCHANGED <<t1hw, toie2, tov2, upperByte, byte0, byte1>>

EnableOverflow2 ==
  /\ At("toie2On", "audio")
  /\ toie2' = TRUE
  /\ UNCHANGED <<t1hw, tccr2, tov2, upperByte, byte0, byte1>>

\* A WARN tone is one long BEEP.
SetAudio ==
  LET value == [byte0 EXCEPT !.audio = IF tone = "WARN" THEN "BEEP" ELSE tone]
  IN /\ Ready("audio") /\ UNCHANGED indicator
     /\ IF tone \in PhasedTones
          THEN Load(value, "store0", "audioCycle") /\ UNCHANGED <<tone, cont>>
          ELSE Load(value, "store0", cont) /\ ToneDone

SetAudioCycle ==
  /\ Ready("audioCycle") /\ UNCHANGED indicator
  /\ Load([byte0 EXCEPT !.audioCycle = Cycles(tone)], "store0", cont)
  /\ ToneDone

PlayTone ==
  \/ StopTimer1ForTone \/ ClearFlags("tifrTone", "tccr1aPwm")
  \/ SelectPwm \/ StartPwm \/ DisableCompare("ocie1aOff", "enablePWM")
  \/ EnablePWM1A \/ SetUpperByte \/ ClearFlags("tifrT2", "tccr2On")
  \/ StartTimer2 \/ EnableOverflow2 \/ SetAudio \/ SetAudioCycle

-----------------------------------------------------------------------------
(* setT1Delay                                                              *)

ClearTCCR1A ==
  /\ At("dTccr1a", "dTccr1b")
  /\ wgm10' = FALSE /\ com1a0' = FALSE
  /\ UNCHANGED <<tccr1b, ocie1a, ocf1a, t1, ocr1a, t2hw, byte0, byte1>>

StopTimer1ForDelay ==
  /\ At("dTccr1b", "dCount")
  /\ tccr1b' = "stop"
  /\ UNCHANGED <<wgm10, com1a0, ocie1a, ocf1a, t1, ocr1a, t2hw, byte0, byte1>>

LoadCount ==
  /\ At("dCount", "dStart")
  /\ t1' = delay /\ ocr1a' = delay
  /\ UNCHANGED <<wgm10, com1a0, tccr1b, ocie1a, ocf1a, t2hw, byte0, byte1>>

StartDelay ==
  /\ At("dStart", "dTifr")
  /\ tccr1b' = "ctc"
  /\ UNCHANGED <<wgm10, com1a0, ocie1a, ocf1a, t1, ocr1a, t2hw, byte0, byte1>>

\* Variant: the delay is started without its interrupt.
EnableCompareForgotten ==
  /\ Ready("dOcie1aOn") /\ pc' = cont
  /\ delay' = 0 /\ cont' = "check"
  /\ UNCHANGED <<tone, reg, ret, on, indicator, wdt, hw, byte0, byte1>>

EnableCompare ==
  /\ Ready("dOcie1aOn") /\ pc' = cont
  /\ ocie1a' = TRUE
  /\ delay' = 0 /\ cont' = "check"
  /\ UNCHANGED <<tone, reg, ret, on, indicator, wdt>>
  /\ UNCHANGED <<wgm10, com1a0, tccr1b, ocf1a, t1, ocr1a, t2hw, byte0, byte1>>

SetT1Delay ==
  \/ DisableCompare("dOcie1aOff", "dTccr1a") \/ ClearTCCR1A
  \/ StopTimer1ForDelay \/ LoadCount \/ StartDelay
  \/ ClearFlags("dTifr", "dOcie1aOn") \/ EnableCompare

-----------------------------------------------------------------------------
(* One pass of the main loop: at most one key, then the resend check.      *)

NoKey == At("idle", "check") /\ UNCHANGED <<hw, byte0, byte1>>

\* Any caller of playTone; some of them also write the second control byte.
PressTone ==
  \E t \in Tones, after \in {"check", "note"} :
    /\ Ready("idle") /\ pc' = "tccr1bOff"
    /\ tone' = t /\ cont' = after
    /\ UNCHANGED <<wdt, delay, reg, ret, on, indicator, hw, byte0, byte1>>

\* A key that writes the second control byte without a tone: setToneT on
\* another frequency, a dialled digit, PRESET, GUARD, STATUS.
NoteKey == At("idle", "note") /\ UNCHANGED <<hw, byte0, byte1>>

\* resend, gotTone or invalidSWOD written, after a tone or without one; in ADF
\* setToneT goes on to show the version.
Note == /\ Ready("note")
        /\ \E r \in {TRUE, byte1.resend}, next \in {"check", "version"} :
             SetResend(r, next)

ShowVersion ==
  /\ Ready("version") /\ pc' = "check"
  /\ Display("version")
  /\ UNCHANGED <<tone, delay, cont, reg, ret, on, wdt, hw, byte0, byte1>>

\* display(text) by LOAD, STATUS or ZEROIZE.
ShowText ==
  /\ Ready("idle") /\ pc' = "dOcie1aOff"
  /\ delay' = MaxTime /\ cont' = "check" /\ Display("text")
  /\ UNCHANGED <<wdt, tone, reg, ret, on, hw, byte0, byte1>>

\* TEST pressed while the radio is on: setTest.
PressTest ==
  /\ Ready("idle") /\ on /\ ~byte0.test
  /\ Display("888888")
  /\ LoadPlain([byte0 EXCEPT !.test = TRUE], "store0", "check")

\* TEST released: test is cleared, then resend set.
ReleaseTest ==
  /\ Ready("idle") /\ byte0.test /\ UNCHANGED indicator
  /\ LoadPlain([byte0 EXCEPT !.test = FALSE], "store0", "release")

ResendAfterTest == Ready("release") /\ SetResend(TRUE, "check")

\* The squelch switch: another bit of the first control byte is written.
MoveSquelch ==
  Ready("idle") /\ UNCHANGED indicator /\ LoadPlain(byte0, "store0", "check")

\* Power switch off: setUhfOff stops TIMER1 and blanks the display.
SwitchOff ==
  /\ Ready("idle") /\ on
  /\ pc' = "check"
  /\ on' = FALSE /\ tccr1b' = "stop" /\ t1' = 0 /\ ocr1a' = 0 /\ Display("off")
  /\ UNCHANGED <<wgm10, com1a0, ocie1a, ocf1a, t2hw, byte0, byte1,
                 tone, delay, cont, reg, ret, wdt>>

SwitchOn == At("idle", "on") /\ ~on /\ UNCHANGED <<hw, byte0, byte1>>

\* The resend check at the end of a pass.
ResendCheck ==
  /\ Ready("check")
  /\ IF byte1.resend /\ ~byte0.test
       THEN SetResend(FALSE, "serve")
       ELSE EndPass /\ UNCHANGED <<tone, delay, cont, reg, ret, on, indicator,
                                   hw, byte0, byte1>>

ResendServe ==
  /\ Ready("serve")
  /\ IF on /\ byte1.firstRun
       THEN LoadPlain([byte1 EXCEPT !.firstRun = FALSE], "store1", "on")
              /\ UNCHANGED indicator
       ELSE /\ IF on THEN Display("freq") ELSE UNCHANGED indicator
            /\ EndPass
            /\ UNCHANGED <<tone, delay, cont, reg, ret, on, hw, byte0, byte1>>

-----------------------------------------------------------------------------
(* setUhfOn: forcedReadFreq, setTest, a delay and the busy wait for it.    *)

TurnOn == Ready("on") /\ SetResend(TRUE, "onTest")

\* MODE is ADF: no test sequence.
TurnOnAdf == Ready("onTest") /\ SetResend(TRUE, "onEnd")

TurnOnTest ==
  /\ Ready("onTest")
  /\ IF byte0.test
       THEN Goto("onDelay") /\ UNCHANGED <<hw, byte0, byte1>>
       ELSE LoadPlain([byte0 EXCEPT !.test = TRUE], "store0", "onDelay")
              /\ Display("888888")

TurnOnDelay ==
  /\ Ready("onDelay") /\ pc' = "dOcie1aOff"
  /\ delay' = OneSec /\ cont' = "wait"
  /\ UNCHANGED <<tone, reg, ret, on, indicator, wdt, hw, byte0, byte1>>

WaitDone == At("wait", "onEnd") /\ ~byte0.test /\ UNCHANGED <<hw, byte0, byte1>>

\* Back in the switch handler, which sets OFF, or, after the first run, in
\* main, which goes on to send the display data.
TurnOnEnd ==
  /\ Ready("onEnd")
  /\ IF on THEN EndPass /\ Display("freq")
           ELSE pc' = "check" /\ UNCHANGED <<wdt, indicator>>
  /\ on' = TRUE
  /\ UNCHANGED <<tone, delay, cont, reg, ret, hw, byte0, byte1>>

SetUhfOn == TurnOn \/ TurnOnAdf \/ TurnOnTest \/ TurnOnDelay
              \/ WaitDone \/ TurnOnEnd

-----------------------------------------------------------------------------
(* Interrupt handlers                                                      *)

\* The handler comes between load and store of a byte that has no resend, and
\* nothing is displayed after the store.
LosesResend == pc = "store1" /\ ret = "check" /\ ~reg.resend

HandlerInMain ==
  /\ lost' = (lost \/ (shown = "text" /\ LosesResend))
  /\ UNCHANGED <<pc, tone, delay, cont, reg, ret, on, shown, wdt>>

\* Variant: the handler does not ask for the display data to be sent.
IsrTimer1NoResend ==
  /\ ocie1a /\ ocf1a
  /\ ocf1a' = FALSE
  /\ tccr1b' = "stop"
  /\ byte0' = [byte0 EXCEPT !.test = FALSE]
  /\ HandlerInMain
  /\ UNCHANGED <<wgm10, com1a0, ocie1a, t1, ocr1a, t2hw, byte1>>

IsrTimer1 ==
  /\ ocie1a /\ ocf1a
  /\ ocf1a' = FALSE
  /\ tccr1b' = "stop"
  /\ byte0' = [byte0 EXCEPT !.test = FALSE]
  /\ byte1' = [byte1 EXCEPT !.resend = TRUE]
  /\ HandlerInMain
  /\ UNCHANGED <<wgm10, com1a0, ocie1a, t1, ocr1a, t2hw>>

\* What isrTimer2 does with the tone: another phase with the speaker on,
\* a silent phase, or the end.
NextPhaseOn(time) ==
  /\ tccr1b' = "pwm" /\ wgm10' = TRUE /\ com1a0' = TRUE
  /\ ocie1a' = FALSE /\ ocf1a' = FALSE
  /\ upperByte' = time /\ tccr2' = TRUE /\ toie2' = TRUE
  /\ t1' = 0 /\ ocr1a' = 0

NextPhaseOff(time) ==
  /\ com1a0' = FALSE
  /\ upperByte' = time /\ tccr2' = TRUE /\ toie2' = TRUE /\ ocf1a' = FALSE
  /\ UNCHANGED <<wgm10, tccr1b, ocie1a, t1, ocr1a>>

\* Variant: TIMER2 is stopped, the speaker pin is not.
ToneOverPwmOn ==
  /\ tccr2' = FALSE
  /\ UNCHANGED <<t1hw, toie2, upperByte, byte0>>

ToneOver ==
  /\ com1a0' = FALSE /\ tccr2' = FALSE
  /\ UNCHANGED <<wgm10, tccr1b, ocie1a, ocf1a, t1, ocr1a, toie2, upperByte,
                 byte0>>

\* Variants: a phase that does not count, and one that counts twice.
CountDownNothing == byte0' = byte0
CountDownTwice   == byte0' = [byte0 EXCEPT !.audioCycle = @ - 2]

CountDownCycle == byte0' = [byte0 EXCEPT !.audioCycle = @ - 1]

PhaseEnds ==
  LET cycle == byte0.audioCycle IN
  CASE byte0.audio = "TOD" ->
         NextPhaseOn(OneSec) /\ byte0' = [byte0 EXCEPT !.audio = "BEEP"]
    [] byte0.audio = "WAVE" /\ cycle \in 1..3 ->
         NextPhaseOn(OneSec) /\ CountDownCycle
    [] byte0.audio = "DOUBLE" /\ cycle = 2 ->
         NextPhaseOff(OneSec) /\ CountDownCycle
    [] byte0.audio = "DOUBLE" /\ cycle = 1 ->
         NextPhaseOn(OneSec) /\ CountDownCycle
    [] byte0.audio = "PULSE" /\ cycle \in {2, 4} ->
         NextPhaseOff(HalfSec) /\ CountDownCycle
    [] byte0.audio = "PULSE" /\ cycle \in {1, 3} ->
         NextPhaseOn(HalfSec) /\ CountDownCycle
    [] OTHER -> ToneOver

IsrTimer2 ==
  /\ toie2 /\ tov2
  /\ tov2' = FALSE
  /\ IF upperByte > 0
       THEN /\ upperByte' = upperByte - 1
            /\ UNCHANGED <<t1hw, tccr2, toie2, byte0>>
       ELSE PhaseEnds
  /\ UNCHANGED <<byte1, main>>

-----------------------------------------------------------------------------
(* Time                                                                    *)

\* In CTC mode TIMER1 matches when its count is over, in PWM mode all the
\* time; with WGM10 set under a CTC clock it counts to 0xFF, below OCR1A,
\* and never matches.
Timer1Matches == \/ tccr1b = "ctc" /\ ~wgm10 /\ t1 = 0
                 \/ tccr1b = "pwm" /\ wgm10

\* A tick may fall between any two steps, but a pass of the loop, its busy
\* wait apart, is far shorter than a tick, and so is an interrupt's latency.
Tick ==
  /\ ~IsrPending
  /\ wdt < WdtTicks
  /\ (pc = "wait" /\ byte0.test) \/ wdt = 0
  /\ wdt' = IF pc = "idle" THEN 0 ELSE wdt + 1
  /\ ocf1a' = (ocf1a \/ Timer1Matches)
  /\ t1' = CASE tccr1b # "ctc" \/ wgm10 -> t1
             [] t1 = 0                    -> ocr1a
             [] OTHER                     -> t1 - 1
  /\ tov2' = (tov2 \/ tccr2)
  /\ UNCHANGED <<wgm10, com1a0, tccr1b, ocie1a, tccr2, toie2, upperByte,
                 ocr1a, byte0, byte1, pc, tone, delay, cont, reg, ret, on,
                 indicator>>

\* The watchdog restarts the program: registers and RAM as at power-up; the
\* power switch is read again.
WatchdogReset ==
  /\ wdt = WdtTicks
  /\ on' \in BOOLEAN
  /\ wgm10' = FALSE /\ com1a0' = FALSE /\ tccr1b' = "stop"
  /\ ocie1a' = FALSE /\ ocf1a' = FALSE /\ t1' = 0 /\ ocr1a' = 0
  /\ tccr2' = FALSE /\ toie2' = FALSE /\ tov2' = FALSE /\ upperByte' = 0
  /\ byte0' = [audio |-> "BEEP", audioCycle |-> 0, test |-> FALSE]
  /\ byte1' = [resend |-> TRUE, firstRun |-> on']
  /\ pc' = "check" /\ tone' = "BEEP" /\ delay' = 0 /\ cont' = "check"
  /\ reg' = NoByte /\ ret' = "idle" /\ Display("off") /\ wdt' = 0

-----------------------------------------------------------------------------
Keys == PressTone \/ NoteKey \/ ShowText \/ PressTest \/ ReleaseTest
          \/ MoveSquelch \/ SwitchOff \/ SwitchOn

Program == NoKey \/ Store0 \/ Store1 \/ PlayTone \/ SetT1Delay \/ Note
             \/ ShowVersion \/ ResendAfterTest \/ ResendCheck \/ ResendServe
             \/ SetUhfOn

Next == Keys \/ Program \/ IsrTimer1 \/ IsrTimer2 \/ Tick \/ WatchdogReset

Spec == Init /\ [][Next]_vars

\* The processor executes the program, takes interrupts, the watchdog bites
\* and time passes.
\* Nobody has to press a key.
FairSpec == /\ Spec
            /\ WF_vars(Program) /\ WF_vars(IsrTimer1) /\ WF_vars(IsrTimer2)
            /\ WF_vars(Tick) /\ WF_vars(WatchdogReset)

-----------------------------------------------------------------------------
\* Types, and with them the range of the phase counter of a tone, which only
\* isrTimer2 counts down, and that only setT1Delay returns to the busy wait.
TypeOK ==
  /\ wgm10 \in BOOLEAN /\ com1a0 \in BOOLEAN
  /\ tccr1b \in {"stop", "ctc", "pwm"}
  /\ ocie1a \in BOOLEAN /\ ocf1a \in BOOLEAN
  /\ tccr2 \in BOOLEAN /\ toie2 \in BOOLEAN /\ tov2 \in BOOLEAN
  /\ upperByte \in Nat /\ t1 \in Nat /\ ocr1a \in Nat /\ delay \in Nat
  /\ wdt \in 0..WdtTicks
  /\ byte0 \in Byte0 /\ byte1 \in Byte1
  /\ pc \in Steps /\ tone \in AllTones
  /\ cont \in {"check", "note", "wait"}
  /\ reg \in Byte0 \cup Byte1 /\ ret \in Returns
  /\ on \in BOOLEAN /\ lost \in BOOLEAN
  /\ shown \in {"off", "freq", "text", "version", "888888"}
  /\ cont = "wait" => pc \in DelaySteps
  /\ pc = "store0" => reg \in Byte0
  /\ pc = "store1" => reg \in Byte1

\* The speaker pin is never left toggling: whenever it does, TIMER2 is running
\* with its interrupt on and will end the phase, or playTone is about to see
\* to that (playTone, isrTimer2 against setT1Delay, setUhfOff, the loop).
NoStuckTone ==
  com1a0 => (tccr2 /\ toie2)
              \/ pc \in {"upperByte", "tifrT2", "tccr2On", "toie2On"}

\* The power-up test outlives its second only if isrTimer2 had a tone to play:
\* it took TIMER1 over, wherever in setT1Delay that happened, or cleared its
\* pending flag and the tone goes on (setUhfOn's busy wait).
LateTestHasTone == pc = "wait" /\ wdt > OneSec + 2 => wgm10 \/ tccr2

\* Once the keys are left alone, TIMER2 stops: no sequence of phases goes round
\* for ever in isrTimer2, whatever it interrupted and whatever writes it lost.
ToneEnds == (<>[][~Keys]_vars) => <>[]~tccr2

\* Once the keys are left alone, a status text gives way to the frequency by
\* the delay display() started.  It stays in two cases only: a tone took TIMER1
\* from the delay, or TEST is held; or isrTimer1 interrupted one write of the
\* second control byte, which then undid its request.  No tone is needed for
\* that: setToneT's answer to a frequency without one is enough.
TextGivesWay ==
  (<>[][~Keys]_vars) =>
     <>[](shown = "text" /\ on => wgm10 \/ byte0.test \/ lost)

\* uhfProcessor.c:156 calls the busy wait of setUhfOn a "1 second init test":
\* a second, and the tick its set-up may take, bounds it.
InitTestLastsOneSecond == pc = "wait" => wdt <= OneSec + 2
=============================================================================
