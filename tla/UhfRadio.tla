------------------------------ MODULE UhfRadio ------------------------------
(***************************************************************************)
(* The radio itself: what a pass of the main loop does with the channel    *)
(* selector (processChannel), with a key (processInputData and the         *)
(* functions of uhfProcessor.c it calls) and with the resend flag (main).  *)
(*                                                                         *)
(* The code calls these functions one after the other on its globals.      *)
(* Here the globals are a record, and a function of the code is an         *)
(* operator from that record to the next; a name is the code's name.       *)
(*                                                                         *)
(* A frequency is its first digit, the three digits of the middle and the  *)
(* last two.  Which tone is played, when a timer ends and what a key press *)
(* is are left to UhfTimers and KeyScan: a tone only takes TIMER1 from the *)
(* delay of a status text, and any key may be reported in any pass.        *)
(***************************************************************************)
EXTENDS Integers, Sequences, FiniteSets

CONSTANTS Channels,             \* positions of the channel selector
          Firsts, Mids, Lasts,  \* digits the frequency selectors have
          HostChannels          \* channels the host's data carries

ASSUME RadioAssumption ==
  /\ Channels \subseteq 1..20 /\ HostChannels \subseteq 0..31

VARIABLES u,          \* the globals of the program
          prev_val,   \* last selector code get_channel returned, 0 if unknown
          hostLast,   \* history: the host wrote after the selector moved
          pc          \* next half of the pass

vars == <<u, prev_val, hostLast, pc>>

OpModes == {"VEROP", "MLOAD", "ERASE", "FMTCHG"}

Freq(first, mid, last) == [first |-> first, mid |-> mid, last |-> last]
Dialled == {Freq(f, m, l) : f \in Firsts, m \in Mids, l \in Lasts}

NoFreq    == Freq("0", "0", "0")         \* zeroed at start-up
guardFreq == Freq("2", "430", "00")
toneFreq  == Freq("3", "104", "25")
veropFreq(f) == f.first = "2" /\ f.mid = "200"

Shown(kind) == [kind |-> kind, channel |-> 0, frequency |-> NoFreq]

\* State after initVariables.  The function selector counts as MNL and the
\* mode as none between two positions.  The operating mode is read from a cell
\* that is erased, which is out of range and stays in the variable, or holds the
\* VEROP that an earlier start wrote there (RadioMemory).
Init ==
  /\ \E fusel \in {"MNL", "PRESET", "GUARD"}, mode \in {"none", "ADF", "BOTH"},
        off \in BOOLEAN, opMode \in {"VEROP", "invalid"} :
       u = [FUSEL |-> fusel, MODE |-> mode, on |-> ~off, uhfOpMode |-> opMode,
            channel |-> 0, channelMemory |-> 0,
            frequency |-> IF fusel = "GUARD" THEN guardFreq ELSE NoFreq,
            invalidSWOD |-> 5, ch20 |-> FALSE, gotTone |-> FALSE,
            resend |-> TRUE, test |-> FALSE, firstRun |-> ~off,
            delay |-> FALSE, shown |-> Shown("off"), sent |-> <<>>,
            days |-> {NoFreq.mid}, stored |-> {}]
  /\ prev_val = 0 /\ hostLast = FALSE
  /\ pc = "channel"

-----------------------------------------------------------------------------
(* uhfProcessor.c                                                          *)

sendUsbMessage(s, key) == [s EXCEPT !.sent = Append(@, key)]

Resend(s) == [s EXCEPT !.resend = TRUE]

\* setT1Pwm stops the delay of TIMER1.
playTone(s) == [s EXCEPT !.delay = FALSE]

\* Channel and frequency, channel 0 being blank
sendData(s) == [s EXCEPT !.shown = [kind |-> "freq", channel |-> s.channel,
                                    frequency |-> s.frequency]]

\* A status text, for MAX_TIME; there is none for a mode out of range, and what
\* is displayed then is undefined.
display(s, mode) == [s EXCEPT !.shown = Shown(mode), !.delay = TRUE]

setTest(s) == IF s.test THEN s
                        ELSE [s EXCEPT !.test = TRUE, !.shown = Shown("test")]

\* Variant: the flag is not set.
ReadFreqOnly(s, dial) == [s EXCEPT !.frequency = dial]

\* The digits the selectors show; the resend flag is set for each row read.
forcedReadFreq(s, dial) == Resend([s EXCEPT !.frequency = dial])

setManual(s, dial) ==
  forcedReadFreq([sendUsbMessage(s, "KEY_MNL") EXCEPT !.FUSEL = "MNL",
                                                      !.channel = 0], dial)

setPreset(s) ==
  [sendUsbMessage(s, "KEY_PRESET") EXCEPT !.FUSEL = "PRESET",
                                          !.channel = s.channelMemory]

setGuard(s) ==
  [sendUsbMessage(s, "KEY_GUARD") EXCEPT !.FUSEL = "GUARD", !.channel = 0,
                                         !.frequency = guardFreq]

setMain(s) ==
  [(IF s.MODE = "BOTH" THEN sendUsbMessage(s, "KEY_MAIN") ELSE s)
     EXCEPT !.MODE = "MAIN"]

setBoth(s) == [sendUsbMessage(s, "KEY_BOTH") EXCEPT !.MODE = "BOTH"]

setAdf(s) == [s EXCEPT !.MODE = "ADF"]

setUhfOff(s) == [sendUsbMessage(s, "KEY_OFF") EXCEPT !.delay = FALSE,
                                                     !.shown = Shown("off")]

\* The busy wait ends when isrTimer1 has cleared test and set resend.
setUhfOn(s, dial) ==
  LET read == forcedReadFreq(s, dial)
  IN IF s.MODE = "ADF" THEN Resend(read)
     ELSE [setTest(read) EXCEPT !.test = FALSE, !.resend = TRUE,
                                !.delay = FALSE]

setToneT(s) ==
  IF s.uhfOpMode # "VEROP" THEN s
  ELSE LET answered == IF s.frequency = toneFreq
                         THEN [playTone(s) EXCEPT !.gotTone = TRUE]
                         ELSE [s EXCEPT !.gotTone = FALSE]
       IN IF s.MODE = "ADF" THEN [answered EXCEPT !.shown = Shown("version")]
                            ELSE answered

\* No word of day is left for any day.
eraseMWOD(s) == [s EXCEPT !.days = {}]

\* What TONE stores in manual mode, if anything: a word or a day of M-LOAD, a
\* net of FMT CHG.
Stored(s) ==
  IF s.uhfOpMode = "MLOAD" /\ s.channel \in {1} \cup 14..20
    THEN {<<"MWOD", s.channel>>}
    ELSE IF s.uhfOpMode = "FMTCHG" /\ s.channel > 4
           THEN {<<"FMT", s.channel>>} ELSE {}

setToneTone(s) ==
  IF s.FUSEL # "MNL" THEN s
  ELSE IF Stored(s) # {} \/ s.uhfOpMode = "VEROP"
    THEN playTone([s EXCEPT !.stored = @ \cup Stored(s),
                            !.days = IF <<"MWOD", 14>> \in Stored(s)
                                       THEN @ \cup {s.frequency.mid} ELSE @])
  ELSE IF s.uhfOpMode = "ERASE" THEN eraseMWOD(s) ELSE s

\* LOAD selects an operating mode, which the last digits name, or writes the
\* channel's frequency to EEPROM.
LoadMode(s) ==
  CASE s.frequency.last = "00" -> "VEROP"
    [] s.frequency.last = "25" -> "MLOAD"
    [] s.frequency.last = "50" -> "ERASE"
    [] s.frequency.last = "75" -> "FMTCHG"
    [] OTHER                   -> s.uhfOpMode

setLoad(s) ==
  IF veropFreq(s.frequency) /\ s.FUSEL = "PRESET" /\ s.channel = 20
    THEN display([s EXCEPT !.uhfOpMode = LoadMode(s)], LoadMode(s))
    ELSE s

\* STATUS reads a preset or a net of EEPROM, or none.
setStatus(s, net) ==
  LET reads == /\ s.FUSEL = "PRESET" /\ s.uhfOpMode = "VEROP"
               /\ s.frequency.first # "A" \/ s.channel > 4
      read  == IF reads THEN [s EXCEPT !.frequency = net] ELSE s
  IN IF s.channel = 20 THEN display(read, s.uhfOpMode) ELSE Resend(read)

\* Dialling A makes the net active, with an audible answer or without.
goActive(s, audible) ==
  IF s.uhfOpMode # "VEROP" THEN [s EXCEPT !.frequency.first = "3"]
  ELSE IF audible \/ ~s.gotTone THEN playTone(s) ELSE s

-----------------------------------------------------------------------------
(* uhfKeyReader.c                                                          *)

sendKeyStroke(s, previous) ==
  sendUsbMessage(s, IF s.channel = previous THEN "KEY_CH_INC" ELSE "KEY_CH_DEC")

\* Variant: counts one position too many.
LoadSwodOffByOne(s, n) ==
  IF s.uhfOpMode = "VEROP" /\ s.FUSEL = "PRESET" /\ n >= 15
       /\ (n = 20 \/ s.invalidSWOD = n - 14)
    THEN playTone([s EXCEPT !.invalidSWOD = n - 14])
    ELSE s

\* The word of day of the training net is loaded from channel 20 down to 15.
LoadSwod(s, n) ==
  IF s.uhfOpMode = "VEROP" /\ s.FUSEL = "PRESET" /\ n >= 15
       /\ (n = 20 \/ s.invalidSWOD = n - 14)
    THEN playTone([s EXCEPT !.invalidSWOD = n - 15])
    ELSE s

\* The selector is at channel n.  checkDom, at 19, looks for the dialled day
\* among the days of the words of day, which are zeroed at start-up.
selectChannel(s, n) ==
  LET from == sendKeyStroke(s, IF n = 1 THEN 1 ELSE n - 1)
      dom  == /\ n = 19 /\ s.uhfOpMode = "VEROP" /\ s.FUSEL = "MNL" /\ s.ch20
              /\ s.frequency.mid \in s.days
  IN Resend([LoadSwod(IF dom THEN playTone(from) ELSE from, n) EXCEPT
               !.channel = n,
               !.ch20 = (n = 20 \/ (@ /\ n # 19))])

\* Variant: the channel is remembered in preset mode only.
BackupInPreset(s) ==
  [s EXCEPT !.channelMemory = IF s.FUSEL = "PRESET" THEN s.channel ELSE @,
            !.channel = IF s.FUSEL \in {"MNL", "GUARD"} THEN 0 ELSE @]

\* End of processChannel: the channel is remembered and, except in preset
\* mode, blanked.
BackupAndBlank(s) ==
  [s EXCEPT !.channelMemory = IF s.channel # 0 THEN s.channel ELSE @,
            !.channel = IF s.FUSEL \in {"MNL", "GUARD"} THEN 0 ELSE @]

-----------------------------------------------------------------------------
(* The main loop                                                           *)

\* The serial terminal turns the radio on in ADF mode.
debugOn(s, dial) ==
  forcedReadFreq([setUhfOn([s EXCEPT !.MODE = "ADF"], dial) EXCEPT !.on = TRUE],
                 dial)

Commanded(s) == {s} \cup {debugOn(s, dial) : dial \in Dialled}

\* usbPoll, the release of the last key stroke, a command of the terminal, and
\* processChannel with the code get_channel returns: what the selector is at,
\* or 0 if it has not moved or is between two positions.
ProcessChannel(s) ==
  \E n \in Channels \cup {0}, t \in Commanded(s) :
    LET moved == n # 0 /\ n # prev_val
    IN /\ pc = "channel" /\ pc' = "keys"
       /\ u' = BackupAndBlank(IF moved THEN selectChannel(t, n) ELSE t)
       /\ prev_val' = n

NewPass == [u EXCEPT !.sent = <<>>]

NoHostData ==
  /\ ProcessChannel(NewPass)
  /\ hostLast' = (hostLast /\ prev_val' \in {0, prev_val})

\* transmitToDevice replaces the displayed channel and frequency.
HostData ==
  \E c \in HostChannels, f \in Dialled :
    /\ ProcessChannel(Resend([NewPass EXCEPT !.channel = c, !.frequency = f]))
    /\ hostLast' = (prev_val' \in {0, prev_val})

\* Variant: a resend does not restore the guard frequency.
ResendAsIs(s, dial) ==
  IF ~(s.resend /\ ~s.test) THEN s
  ELSE LET cleared == [s EXCEPT !.resend = FALSE]
           started == IF s.firstRun
                        THEN setUhfOn([cleared EXCEPT !.firstRun = FALSE], dial)
                        ELSE cleared
       IN IF s.on THEN sendData(started) ELSE cleared

\* The end of a pass: what has changed is displayed.
ResendCheck(s, dial) ==
  IF ~(s.resend /\ ~s.test) THEN s
  ELSE LET guarded == IF s.FUSEL = "GUARD" THEN setGuard(s) ELSE s
           cleared == [guarded EXCEPT !.resend = FALSE]
           started == IF s.firstRun
                        THEN setUhfOn([cleared EXCEPT !.firstRun = FALSE], dial)
                        ELSE cleared
       IN IF s.on THEN sendData(started) ELSE cleared

\* A key has been handled: the rest of the pass.
Key(s) ==
  /\ pc = "keys" /\ pc' = "channel"
  /\ \E dial \in Dialled : u' = ResendCheck(s, dial)
  /\ UNCHANGED <<prev_val, hostLast>>

NoKey == Key(u)

DialFirst ==
  \E d \in Firsts, audible \in BOOLEAN :
    LET set == Resend([u EXCEPT !.frequency.first = d])
    IN Key(sendUsbMessage(IF d = "A" THEN goActive(set, audible) ELSE set,
                          "KEY_1"))

DialMid == \E d \in Mids :
  Key(sendUsbMessage(Resend([u EXCEPT !.frequency.mid = d]), "KEY_2_4"))

DialLast == \E d \in Lasts :
  Key(sendUsbMessage(Resend([u EXCEPT !.frequency.last = d]), "KEY_5"))

SelectManual == \E dial \in Dialled : Key(setManual(u, dial))
SelectPreset == Key(Resend(setPreset(u)))
SelectGuard  == Key(Resend(setGuard(u)))

ToneT    == Key(setToneT(u))
ToneTone == Key(setToneTone(u))
Load     == Key(setLoad(u))

PressTest   == ~u.test /\ u.on /\ Key(setTest(u))
ReleaseTest == u.test /\ Key(Resend([u EXCEPT !.test = FALSE]))

SwitchOn ==
  /\ ~u.on
  /\ \E dial \in Dialled :
       LET key == IF u.MODE = "ADF" THEN u
                  ELSE sendUsbMessage(sendUsbMessage(u, "KEY_MAIN"), "NOT_USED")
       IN Key([setUhfOn(key, dial) EXCEPT !.on = TRUE])

SwitchOff == u.on /\ Key(setUhfOff([u EXCEPT !.on = FALSE]))

SelectAdf  == Key(setAdf(u))
SelectMain == Key(setMain(u))
SelectBoth == Key(setBoth(u))

Zeroize == u.on /\ Key(eraseMWOD(display(u, "ERASE")))
Status  == u.on /\ \E net \in Dialled : Key(setStatus(u, net))

\* The delay of a status text ends.
IsrTimer1 ==
  /\ u.delay
  /\ u' = [u EXCEPT !.delay = FALSE, !.test = FALSE, !.resend = TRUE]
  /\ UNCHANGED <<prev_val, hostLast, pc>>

Keys == \/ NoKey \/ DialFirst \/ DialMid \/ DialLast
        \/ SelectManual \/ SelectPreset \/ SelectGuard
        \/ ToneT \/ ToneTone \/ Load \/ PressTest \/ ReleaseTest
        \/ SwitchOn \/ SwitchOff \/ SelectAdf \/ SelectMain \/ SelectBoth
        \/ Zeroize \/ Status

Next == NoHostData \/ HostData \/ Keys \/ IsrTimer1

Spec == Init /\ [][Next]_vars

-----------------------------------------------------------------------------
(* Properties                                                              *)

Frequencies == Dialled \cup {Freq(f, m, l) : f \in Firsts \cup {"0", "2", "3"},
                               m \in Mids \cup {"0", "430"},
                               l \in Lasts \cup {"0", "00"}}

ShownKinds == {"off", "test", "version", "freq", "invalid"} \cup OpModes

\* Type invariant
TypeOK ==
  /\ u.FUSEL \in {"MNL", "PRESET", "GUARD"}
  /\ u.MODE \in {"none", "ADF", "MAIN", "BOTH"}
  /\ u.uhfOpMode \in OpModes \cup {"invalid"}
  /\ {u.channel, u.channelMemory} \subseteq 0..31
  /\ u.frequency \in Frequencies
  /\ u.invalidSWOD \in 0..5
  /\ {u.on, u.ch20, u.gotTone, u.resend, u.test, u.firstRun, u.delay}
       \subseteq BOOLEAN
  /\ u.shown.kind \in ShownKinds
  /\ u.shown.channel \in 0..31 /\ u.shown.frequency \in Frequencies
  /\ prev_val \in 0..20 /\ hostLast \in BOOLEAN
  /\ pc \in {"channel", "keys"}

\* With the radio on and no request to send it again, the display is up to date
\* with the channel and the frequency, or shows a text, the version or the test
\* pattern: none of the twenty places that change them forgets the request.
DisplayCurrent ==
  u.on /\ ~u.resend /\ ~u.test =>
    \/ u.shown.kind \in OpModes \cup {"invalid", "version"}
    \/ u.shown = [kind |-> "freq", channel |-> u.channel,
                  frequency |-> u.frequency]

\* In the position GUARD the display never settles on another frequency than the
\* guard frequency, nor on a channel, whatever is dialled or sent by the host.
GuardShown ==
  u.on /\ u.FUSEL = "GUARD" /\ ~u.resend /\ u.shown.kind = "freq" =>
    u.shown.channel = 0 /\ u.shown.frequency = guardFreq

\* The channel of preset mode is the one the selector is at, across manual and
\* guard mode, unless the host has set another since the selector moved.
KnobKept ==
  u.FUSEL = "PRESET" /\ prev_val # 0 /\ ~hostLast => u.channel = prev_val

\* uhfProcessor.c:255 says of TONE in FMT CHG "check for ch 20 - 5": in manual
\* mode TONE, whenever it is pressed, stores the dialled frequency as the net of
\* the selector's channel, from 20 down to 5.  It never does: processChannel has
\* blanked the channel of manual mode before a key is looked at.
FmtChgStores ==
  pc = "keys" /\ u.FUSEL = "MNL" /\ u.uhfOpMode = "FMTCHG" /\ prev_val > 4
    => <<"FMT", prev_val>> \in setToneTone(u).stored
=============================================================================
