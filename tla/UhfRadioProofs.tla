--------------------------- MODULE UhfRadioProofs ---------------------------
(* Proofs about UhfRadio for every channel, digit and host.  First, that   *)
(* the channel of preset mode is the selector's (KnobKept) and that the    *)
(* code with which TONE stores is never reached (NothingStored): what the  *)
(* run radio_store finds is so for every channel and frequency.  Then the  *)
(* types, and what is shown.                                               *)
(*                                                                         *)
(* The first two depend on four of the globals only: FUSEL, channel,       *)
(* channelMemory and stored.  The lemmas show which functions of the code  *)
(* leave the four alone (Keeps), and what the few others do to them.       *)
EXTENDS UhfRadio, TLAPS

Fields == {"FUSEL", "channel", "channelMemory", "stored"}

Dom(s) == Fields \subseteq DOMAIN s

\* From s to t only other globals have changed.
Keeps(s, t) ==
  /\ Dom(t)
  /\ t.FUSEL = s.FUSEL /\ t.channel = s.channel
  /\ t.channelMemory = s.channelMemory /\ t.stored = s.stored

\* The selector is at p and the host has set no channel since.
AtKnob(s, p) ==
  /\ s.channelMemory = p
  /\ s.channel \in {0, p}
  /\ s.FUSEL = "PRESET" => s.channel = p

Blanked(s) == s.FUSEL \in {"MNL", "GUARD"} => s.channel = 0

RadioInv ==
  /\ Dom(u)
  /\ u.stored = {}
  /\ Blanked(u)
  /\ prev_val # 0 /\ ~hostLast => AtKnob(u, prev_val)

-----------------------------------------------------------------------------
(* Functions that keep the four globals                                    *)

LEMMA KeepsTrans ==
  ASSUME NEW r, NEW s, NEW t, Keeps(r, s), Keeps(s, t)
  PROVE  Keeps(r, t)
  BY DEF Keeps

LEMMA SmallKeeps ==
  ASSUME NEW s, Dom(s)
  PROVE  /\ \A key : Keeps(s, sendUsbMessage(s, key))
         /\ Keeps(s, Resend(s))
         /\ Keeps(s, playTone(s))
         /\ Keeps(s, sendData(s))
         /\ \A mode : Keeps(s, display(s, mode))
         /\ Keeps(s, setTest(s))
         /\ \A dial : Keeps(s, forcedReadFreq(s, dial))
         /\ Keeps(s, eraseMWOD(s))
         /\ Keeps(s, setAdf(s))
  BY DEF Keeps, Dom, Fields, sendUsbMessage, Resend, playTone, sendData,
         display, setTest, forcedReadFreq, eraseMWOD, setAdf

LEMMA ModeKeeps ==
  ASSUME NEW s, Dom(s)
  PROVE  Keeps(s, setMain(s)) /\ Keeps(s, setBoth(s)) /\ Keeps(s, setUhfOff(s))
  BY DEF Keeps, Dom, Fields, setMain, setBoth, setUhfOff, sendUsbMessage

LEMMA OnKeeps ==
  ASSUME NEW s, Dom(s), NEW dial
  PROVE  Keeps(s, setUhfOn(s, dial))
  BY DEF Keeps, Dom, Fields, setUhfOn, setTest, forcedReadFreq, Resend

LEMMA CommandKeeps ==
  ASSUME NEW s, Dom(s), NEW t \in Commanded(s)
  PROVE  Keeps(s, t)
<1>1. CASE t = s
  BY <1>1 DEF Keeps
<1>2. ASSUME NEW dial \in Dialled, t = debugOn(s, dial)
      PROVE  Keeps(s, t)
  <2>. DEFINE adf == [s EXCEPT !.MODE = "ADF"]
              on  == [setUhfOn(adf, dial) EXCEPT !.on = TRUE]
  <2>1. Keeps(s, adf)
    BY DEF Keeps, Dom, Fields
  <2>2. Keeps(adf, setUhfOn(adf, dial))
    BY <2>1, OnKeeps DEF Keeps
  <2>3. Keeps(s, on)
    BY <2>1, <2>2 DEF Keeps, Dom, Fields
  <2>4. t = forcedReadFreq(on, dial)
    BY <1>2 DEF debugOn
  <2>. HIDE DEF on
  <2>. QED
    BY <2>3, <2>4 DEF forcedReadFreq, Resend, Keeps, Dom, Fields
<1>. QED
  BY <1>1, <1>2 DEF Commanded

LEMMA ToneTKeeps ==
  ASSUME NEW s, Dom(s)
  PROVE  Keeps(s, setToneT(s))
  BY DEF Keeps, Dom, Fields, setToneT, playTone

LEMMA LoadKeeps ==
  ASSUME NEW s, Dom(s)
  PROVE  Keeps(s, setLoad(s))
  BY DEF Keeps, Dom, Fields, setLoad, display

LEMMA StatusKeeps ==
  ASSUME NEW s, Dom(s), NEW net
  PROVE  Keeps(s, setStatus(s, net))
  BY DEF Keeps, Dom, Fields, setStatus, display, Resend

LEMMA GoActiveKeeps ==
  ASSUME NEW s, Dom(s), NEW audible
  PROVE  Keeps(s, goActive(s, audible))
  BY DEF Keeps, Dom, Fields, goActive, playTone

\* In manual mode with a blank channel no operating mode has anything to store.
LEMMA ToneToneKeeps ==
  ASSUME NEW s, Dom(s), Blanked(s)
  PROVE  Keeps(s, setToneTone(s))
<1>1. CASE s.FUSEL # "MNL"
  BY <1>1 DEF Keeps, setToneTone
<1>2. CASE s.FUSEL = "MNL"
  <2>1. s.channel = 0
    BY <1>2 DEF Blanked
  <2>2. Stored(s) = {}
    BY <2>1 DEF Stored
  <2>3. s.stored \cup Stored(s) = s.stored
    BY <2>2
  <2>. QED
    BY <1>2, <2>2, <2>3 DEF Keeps, Dom, Fields, setToneTone, playTone, eraseMWOD
<1>. QED
  BY <1>1, <1>2

-----------------------------------------------------------------------------
(* The other functions                                                     *)

\* The end of a pass: at most the guard frequency is set once more.
LEMMA ResendChanges ==
  ASSUME NEW s, Dom(s), NEW dial
  PROVE  LET t == ResendCheck(s, dial)
         IN /\ Dom(t) /\ t.FUSEL = s.FUSEL /\ t.stored = s.stored
            /\ t.channelMemory = s.channelMemory
            /\ t.channel = s.channel \/ (s.FUSEL = "GUARD" /\ t.channel = 0)
<1>. DEFINE guarded == IF s.FUSEL = "GUARD" THEN setGuard(s) ELSE s
            cleared == [guarded EXCEPT !.resend = FALSE]
            first   == [cleared EXCEPT !.firstRun = FALSE]
            started == IF s.firstRun THEN setUhfOn(first, dial) ELSE cleared
            sent    == sendData(started)
<1>1. /\ Dom(guarded) /\ guarded.FUSEL = s.FUSEL /\ guarded.stored = s.stored
      /\ guarded.channelMemory = s.channelMemory
      /\ \/ guarded.channel = s.channel
         \/ s.FUSEL = "GUARD" /\ guarded.channel = 0
  BY DEF setGuard, sendUsbMessage, Dom, Fields
<1>2. Keeps(guarded, cleared) /\ Keeps(cleared, first)
  BY <1>1 DEF Keeps, Dom, Fields
<1>3. Keeps(cleared, started)
  <2>1. Dom(cleared) /\ Dom(first)
    BY <1>2 DEF Keeps
  <2>2. Keeps(first, setUhfOn(first, dial))
    BY <2>1, OnKeeps
  <2>3. Keeps(cleared, cleared)
    BY <2>1 DEF Keeps
  <2>. QED
    BY <1>2, <2>2, <2>3, KeepsTrans
<1>4. Keeps(started, sent)
  <2>1. Dom(started)
    BY <1>3 DEF Keeps
  <2>. HIDE DEF started
  <2>. QED
    BY <2>1, SmallKeeps
<1>5. Keeps(guarded, sent)
  BY <1>2, <1>3, <1>4, KeepsTrans
<1>6. ResendCheck(s, dial) = IF ~(s.resend /\ ~s.test) THEN s
                             ELSE IF s.on THEN sent ELSE cleared
  BY Zenon DEF ResendCheck
<1>. HIDE DEF guarded, cleared, first, started, sent
<1>. QED
  BY <1>1, <1>2, <1>5, <1>6 DEF Keeps

\* A key's handler that keeps the four globals, and the rest of the pass, keep
\* the invariant.
LEMMA KeyPreserves ==
  ASSUME NEW s, Key(s), RadioInv, Dom(s), s.stored = {}, Blanked(s),
         prev_val # 0 /\ ~hostLast => AtKnob(s, prev_val)
  PROVE  RadioInv'
<1>1. PICK dial \in Dialled : u' = ResendCheck(s, dial)
  BY DEF Key
<1>2. /\ Dom(u') /\ u'.FUSEL = s.FUSEL /\ u'.stored = s.stored
      /\ u'.channelMemory = s.channelMemory
      /\ u'.channel = s.channel \/ (s.FUSEL = "GUARD" /\ u'.channel = 0)
  BY <1>1, ResendChanges
<1>3. pc' = "channel" /\ prev_val' = prev_val /\ hostLast' = hostLast
  BY DEF Key
<1>. QED
  BY <1>2, <1>3 DEF RadioInv, AtKnob, Blanked

LEMMA KeepingKey ==
  ASSUME NEW s, Key(s), RadioInv, Keeps(u, s)
  PROVE  RadioInv'
<1>. SUFFICES /\ Dom(s) /\ s.stored = {} /\ Blanked(s)
              /\ prev_val # 0 /\ ~hostLast => AtKnob(s, prev_val)
  BY KeyPreserves
<1>. QED
  BY DEF Keeps, RadioInv, AtKnob, Blanked

\* The selector at n: the channel is n and only other globals change besides.
LEMMA SelectChanges ==
  ASSUME NEW s, Dom(s), NEW n \in 1..20
  PROVE  LET t == selectChannel(s, n)
         IN /\ Dom(t) /\ t.FUSEL = s.FUSEL /\ t.stored = s.stored
            /\ t.channelMemory = s.channelMemory /\ t.channel = n
<1>. DEFINE from == sendKeyStroke(s, IF n = 1 THEN 1 ELSE n - 1)
            dom  == /\ n = 19 /\ s.uhfOpMode = "VEROP" /\ s.FUSEL = "MNL"
                    /\ s.ch20 /\ s.frequency.mid \in s.days
            answered == IF dom THEN playTone(from) ELSE from
            loaded == LoadSwod(answered, n)
<1>1. Keeps(s, from)
  BY DEF sendKeyStroke, sendUsbMessage, Keeps, Dom, Fields
<1>2. Keeps(from, answered)
  BY <1>1, SmallKeeps DEF Keeps
<1>3. Keeps(answered, loaded)
  BY <1>2 DEF LoadSwod, playTone, Keeps, Dom, Fields
<1>4. Keeps(s, loaded)
  BY <1>1, <1>2, <1>3, KeepsTrans
<1>5. selectChannel(s, n) =
        Resend([loaded EXCEPT !.channel = n,
                              !.ch20 = (n = 20 \/ (@ /\ n # 19))])
  BY DEF selectChannel
<1>. HIDE DEF from, dom, answered, loaded
<1>. QED
  BY <1>4, <1>5 DEF Resend, Keeps, Dom, Fields

LEMMA BackupChanges ==
  ASSUME NEW s, Dom(s)
  PROVE  LET t == BackupAndBlank(s)
         IN /\ Dom(t) /\ t.FUSEL = s.FUSEL /\ t.stored = s.stored
            /\ t.channelMemory = IF s.channel # 0 THEN s.channel
                                                  ELSE s.channelMemory
            /\ t.channel = IF s.FUSEL \in {"MNL", "GUARD"} THEN 0 ELSE s.channel
  BY DEF BackupAndBlank, Dom, Fields

-----------------------------------------------------------------------------
(* The invariant                                                           *)

LEMMA RadioInit == Init => RadioInv
  BY DEF Init, RadioInv, Dom, Fields, Blanked

\* The first half of a pass, on globals s in which the host has or has not
\* replaced the channel.
LEMMA ChannelPreserves ==
  ASSUME NEW s, ProcessChannel(s), Dom(s), s.stored = {},
         prev_val' # 0 /\ ~hostLast' =>
           prev_val' # prev_val \/ AtKnob(s, prev_val')
  PROVE  RadioInv'
<1>1. PICK n \in Channels \cup {0}, c \in Commanded(s) :
        /\ pc' = "keys" /\ prev_val' = n
        /\ u' = BackupAndBlank(IF n # 0 /\ n # prev_val
                                 THEN selectChannel(c, n) ELSE c)
  BY DEF ProcessChannel
<1>2. Keeps(s, c)
  BY CommandKeeps
<1>3. /\ Dom(c) /\ c.stored = {}
      /\ n # 0 /\ ~hostLast' => n # prev_val \/ AtKnob(c, n)
  BY <1>1, <1>2 DEF Keeps, AtKnob
<1>4. CASE n # 0 /\ n # prev_val
  <2>1. n \in 1..20
    BY <1>4, RadioAssumption
  <2>. DEFINE t == selectChannel(c, n)
  <2>2. /\ Dom(t) /\ t.FUSEL = c.FUSEL /\ t.stored = c.stored
        /\ t.channelMemory = c.channelMemory /\ t.channel = n
    BY <1>3, <2>1, SelectChanges
  <2>3. u' = BackupAndBlank(t)
    BY <1>1, <1>4
  <2>. HIDE DEF t
  <2>. QED
    BY <1>1, <1>3, <1>4, <2>2, <2>3, BackupChanges
    DEF RadioInv, AtKnob, Blanked
<1>5. CASE ~(n # 0 /\ n # prev_val)
  <2>1. u' = BackupAndBlank(c)
    BY <1>1, <1>5
  <2>. QED
    BY <1>1, <1>3, <1>5, <2>1, BackupChanges DEF RadioInv, AtKnob, Blanked
<1>. QED
  BY <1>4, <1>5

LEMMA RadioStep == RadioInv /\ [Next]_vars => RadioInv'
<1>. SUFFICES ASSUME RadioInv, [Next]_vars PROVE RadioInv'
  OBVIOUS
<1>0. Dom(u) /\ u.stored = {}
  BY DEF RadioInv
<1>1. CASE NoHostData
  <2>1. Dom(NewPass) /\ NewPass.stored = {}
    BY <1>0 DEF NewPass, Dom, Fields
  <2>2. AtKnob(u, prev_val) => AtKnob(NewPass, prev_val)
    BY <1>0 DEF NewPass, AtKnob, Dom, Fields
  <2>3. hostLast' = (hostLast /\ prev_val' \in {0, prev_val})
    BY <1>1 DEF NoHostData
  <2>4. prev_val' # 0 /\ ~hostLast' =>
           prev_val' # prev_val \/ AtKnob(NewPass, prev_val')
    BY <2>2, <2>3 DEF RadioInv
  <2>5. ProcessChannel(NewPass)
    BY <1>1 DEF NoHostData
  <2>. QED
    BY <2>1, <2>4, <2>5, ChannelPreserves
<1>2. CASE HostData
  <2>1. PICK c \in HostChannels, f \in Dialled :
          /\ ProcessChannel(Resend([NewPass EXCEPT !.channel = c,
                                                   !.frequency = f]))
          /\ hostLast' = (prev_val' \in {0, prev_val})
    BY <1>2 DEF HostData
  <2>. DEFINE s == Resend([NewPass EXCEPT !.channel = c, !.frequency = f])
  <2>2. Dom(s) /\ s.stored = {}
    BY <1>0 DEF NewPass, Resend, Dom, Fields
  <2>3. prev_val' # 0 /\ ~hostLast' => prev_val' # prev_val
    BY <2>1
  <2>4. ProcessChannel(s)
    BY <2>1
  <2>. HIDE DEF s
  <2>. QED
    BY <2>2, <2>3, <2>4, ChannelPreserves
<1>3. CASE NoKey
  BY <1>0, <1>3, KeepingKey DEF NoKey, Keeps
<1>4. CASE DialFirst
  <2>1. PICK d \in Firsts, audible \in BOOLEAN :
          LET set == Resend([u EXCEPT !.frequency.first = d])
          IN Key(sendUsbMessage(IF d = "A" THEN goActive(set, audible) ELSE set,
                                "KEY_1"))
    BY <1>4 DEF DialFirst
  <2>. DEFINE set == Resend([u EXCEPT !.frequency.first = d])
              active == IF d = "A" THEN goActive(set, audible) ELSE set
  <2>2. Keeps(u, set)
    BY <1>0 DEF Keeps, Resend, Dom, Fields
  <2>3. Keeps(set, active)
    BY <2>2, GoActiveKeeps DEF Keeps
  <2>4. Keeps(active, sendUsbMessage(active, "KEY_1"))
    BY <2>3, SmallKeeps DEF Keeps
  <2>5. Keeps(u, sendUsbMessage(active, "KEY_1"))
    BY <2>2, <2>3, <2>4, KeepsTrans
  <2>6. Key(sendUsbMessage(active, "KEY_1"))
    BY <2>1, Zenon
  <2>. HIDE DEF set, active
  <2>. QED
    BY <2>5, <2>6, KeepingKey
<1>5. CASE DialMid
  <2>1. PICK d \in Mids :
          Key(sendUsbMessage(Resend([u EXCEPT !.frequency.mid = d]), "KEY_2_4"))
    BY <1>5 DEF DialMid
  <2>2. Keeps(u, sendUsbMessage(Resend([u EXCEPT !.frequency.mid = d]),
                                "KEY_2_4"))
    BY <1>0 DEF Keeps, Resend, sendUsbMessage, Dom, Fields
  <2>. QED
    BY <2>1, <2>2, KeepingKey
<1>6. CASE DialLast
  <2>1. PICK d \in Lasts :
          Key(sendUsbMessage(Resend([u EXCEPT !.frequency.last = d]), "KEY_5"))
    BY <1>6 DEF DialLast
  <2>2. Keeps(u, sendUsbMessage(Resend([u EXCEPT !.frequency.last = d]),
                                "KEY_5"))
    BY <1>0 DEF Keeps, Resend, sendUsbMessage, Dom, Fields
  <2>. QED
    BY <2>1, <2>2, KeepingKey
<1>7. CASE SelectManual
  <2>1. PICK dial \in Dialled : Key(setManual(u, dial))
    BY <1>7 DEF SelectManual
  <2>. DEFINE s == setManual(u, dial)
  <2>2. /\ Dom(s) /\ s.FUSEL = "MNL" /\ s.channel = 0 /\ s.stored = {}
        /\ s.channelMemory = u.channelMemory
    BY <1>0 DEF setManual, forcedReadFreq, Resend, sendUsbMessage, Dom, Fields
  <2>3. prev_val # 0 /\ ~hostLast => AtKnob(s, prev_val)
    BY <2>2 DEF RadioInv, AtKnob
  <2>4. Blanked(s)
    BY <2>2 DEF Blanked
  <2>. HIDE DEF s
  <2>. QED
    BY <2>1, <2>2, <2>3, <2>4, KeyPreserves DEF s
<1>8. CASE SelectPreset
  <2>. DEFINE s == Resend(setPreset(u))
  <2>1. Key(s)
    BY <1>8 DEF SelectPreset
  <2>2. /\ Dom(s) /\ s.FUSEL = "PRESET" /\ s.channel = u.channelMemory
        /\ s.stored = {} /\ s.channelMemory = u.channelMemory
    BY <1>0 DEF setPreset, Resend, sendUsbMessage, Dom, Fields
  <2>3. prev_val # 0 /\ ~hostLast => AtKnob(s, prev_val)
    BY <2>2 DEF RadioInv, AtKnob
  <2>4. Blanked(s)
    BY <2>2 DEF Blanked
  <2>. HIDE DEF s
  <2>. QED
    BY <2>1, <2>2, <2>3, <2>4, KeyPreserves
<1>9. CASE SelectGuard
  <2>. DEFINE s == Resend(setGuard(u))
  <2>1. Key(s)
    BY <1>9 DEF SelectGuard
  <2>2. /\ Dom(s) /\ s.FUSEL = "GUARD" /\ s.channel = 0
        /\ s.stored = {} /\ s.channelMemory = u.channelMemory
    BY <1>0 DEF setGuard, Resend, sendUsbMessage, Dom, Fields
  <2>3. prev_val # 0 /\ ~hostLast => AtKnob(s, prev_val)
    BY <2>2 DEF RadioInv, AtKnob
  <2>4. Blanked(s)
    BY <2>2 DEF Blanked
  <2>. HIDE DEF s
  <2>. QED
    BY <2>1, <2>2, <2>3, <2>4, KeyPreserves
<1>10. CASE ToneT
  BY <1>0, <1>10, ToneTKeeps, KeepingKey DEF ToneT
<1>11. CASE ToneTone
  <2>1. Blanked(u)
    BY <1>11 DEF RadioInv, ToneTone, Key
  <2>. QED
    BY <1>0, <1>11, <2>1, ToneToneKeeps, KeepingKey DEF ToneTone
<1>12. CASE Load
  BY <1>0, <1>12, LoadKeeps, KeepingKey DEF Load
<1>13. CASE PressTest
  BY <1>0, <1>13, SmallKeeps, KeepingKey DEF PressTest
<1>14. CASE ReleaseTest
  <2>1. Keeps(u, Resend([u EXCEPT !.test = FALSE]))
    BY <1>0 DEF Keeps, Resend, Dom, Fields
  <2>. QED
    BY <1>14, <2>1, KeepingKey DEF ReleaseTest
<1>15. CASE SwitchOn
  <2>. DEFINE key == IF u.MODE = "ADF" THEN u
                ELSE sendUsbMessage(sendUsbMessage(u, "KEY_MAIN"), "NOT_USED")
  <2>1. PICK dial \in Dialled : Key([setUhfOn(key, dial) EXCEPT !.on = TRUE])
    BY <1>15 DEF SwitchOn
  <2>2. Keeps(u, key)
    BY <1>0 DEF Keeps, sendUsbMessage, Dom, Fields
  <2>. HIDE DEF key
  <2>3. Keeps(key, setUhfOn(key, dial))
    BY <2>2, OnKeeps DEF Keeps
  <2>4. Keeps(u, [setUhfOn(key, dial) EXCEPT !.on = TRUE])
    BY <2>2, <2>3 DEF Keeps, Dom, Fields
  <2>. QED
    BY <2>1, <2>4, KeepingKey
<1>16. CASE SwitchOff
  <2>. DEFINE off == [u EXCEPT !.on = FALSE]
  <2>1. Keeps(u, off)
    BY <1>0 DEF Keeps, Dom, Fields
  <2>2. Keeps(off, setUhfOff(off))
    BY <2>1, ModeKeeps DEF Keeps
  <2>. QED
    BY <1>16, <2>1, <2>2, KeepsTrans, KeepingKey DEF SwitchOff
<1>17. CASE SelectAdf
  BY <1>0, <1>17, SmallKeeps, KeepingKey DEF SelectAdf
<1>18. CASE SelectMain
  BY <1>0, <1>18, ModeKeeps, KeepingKey DEF SelectMain
<1>19. CASE SelectBoth
  BY <1>0, <1>19, ModeKeeps, KeepingKey DEF SelectBoth
<1>20. CASE Zeroize
  <2>. DEFINE text == display(u, "ERASE")
  <2>1. Keeps(u, text)
    BY <1>0, SmallKeeps
  <2>2. Keeps(text, eraseMWOD(text))
    BY <2>1, SmallKeeps DEF Keeps
  <2>. QED
    BY <1>20, <2>1, <2>2, KeepsTrans, KeepingKey DEF Zeroize
<1>21. CASE Status
  <2>1. PICK net \in Dialled : Key(setStatus(u, net))
    BY <1>21 DEF Status
  <2>2. Keeps(u, setStatus(u, net))
    BY <1>0, StatusKeeps
  <2>. QED
    BY <2>1, <2>2, KeepingKey
<1>22. CASE IsrTimer1
  BY <1>0, <1>22 DEF IsrTimer1, RadioInv, Dom, Fields, Blanked, AtKnob
<1>23. CASE UNCHANGED vars
  BY <1>23 DEF vars, RadioInv, Blanked, AtKnob, Dom
<1>. QED
  BY <1>1, <1>2, <1>3, <1>4, <1>5, <1>6, <1>7, <1>8, <1>9, <1>10, <1>11, <1>12,
     <1>13, <1>14, <1>15, <1>16, <1>17, <1>18, <1>19, <1>20, <1>21, <1>22, <1>23
  DEF Next, Keys

LEMMA RadioAlways == Spec => []RadioInv
  BY RadioInit, RadioStep, PTL DEF Spec

\* Neither a word of day nor a net was stored.
NothingStored == u.stored = {}

\* The code with which TONE stores, the cases 1 and 14 to 20 of M-LOAD and the
\* block write of FMT CHG (setToneTone), is dead, whatever is selected, dialled
\* or sent by the host.  It is a fault and no promise: FmtChgStores states what
\* the code's comment says.
THEOREM NothingIsStored == Spec => []NothingStored
<1>1. RadioInv => NothingStored
  BY DEF RadioInv, NothingStored
<1>. QED
  BY <1>1, RadioAlways, PTL

\* Preset mode has the selector's channel, unless the host set one since.
THEOREM PresetFollowsKnob == Spec => []KnobKept
<1>1. RadioInv => KnobKept
  BY DEF RadioInv, KnobKept, AtKnob
<1>. QED
  BY <1>1, RadioAlways, PTL

-----------------------------------------------------------------------------
(* The types of UhfRadio, that the display is current (DisplayCurrent), and *)
(* that GUARD shows the guard frequency (GuardShown), for every channel,    *)
(* digit and host.                                                          *)
(*                                                                          *)
(* A function of the code keeps the display current in one of four ways: it *)
(* asks for the display to be sent again (Asked), shows a text (Texts),     *)
(* turns the radio off or the test on, or leaves alone what the display     *)
(* depends on (Quiet).                                                      *)

Globals == Fields \cup
  {"MODE", "on", "uhfOpMode", "frequency", "invalidSWOD", "ch20", "gotTone",
   "resend", "test", "firstRun", "delay", "shown", "sent", "days"}

Typed(s) ==
  /\ Globals \subseteq DOMAIN s
  /\ s.FUSEL \in {"MNL", "PRESET", "GUARD"}
  /\ s.MODE \in {"none", "ADF", "MAIN", "BOTH"}
  /\ s.uhfOpMode \in OpModes \cup {"invalid"}
  /\ s.channel \in 0..31 /\ s.channelMemory \in 0..31
  /\ s.frequency \in Frequencies
  /\ s.invalidSWOD \in 0..5
  /\ s.on \in BOOLEAN /\ s.ch20 \in BOOLEAN /\ s.gotTone \in BOOLEAN
  /\ s.resend \in BOOLEAN /\ s.test \in BOOLEAN /\ s.firstRun \in BOOLEAN
  /\ s.delay \in BOOLEAN
  /\ s.shown \in [kind : ShownKinds, channel : 0..31, frequency : Frequencies]

Texts == OpModes \cup {"invalid", "version"}

Current(s) ==
  s.on /\ ~s.resend /\ ~s.test =>
    \/ s.shown.kind \in Texts
    \/ s.shown = [kind |-> "freq", channel |-> s.channel,
                  frequency |-> s.frequency]

Guarded(s) ==
  s.on /\ s.FUSEL = "GUARD" /\ ~s.resend /\ s.shown.kind = "freq" =>
    s.shown.channel = 0 /\ s.shown.frequency = guardFreq

Good(s) == Typed(s) /\ Current(s) /\ Guarded(s)

\* From s to t, nothing has changed that the display depends on.
Quiet(s, t) ==
  /\ t.on = s.on /\ t.FUSEL = s.FUSEL /\ t.resend = s.resend
  /\ t.test = s.test /\ t.shown = s.shown
  /\ t.channel = s.channel /\ t.frequency = s.frequency

-----------------------------------------------------------------------------
(* Ways to keep the display current                                        *)

LEMMA AskedGood ==
  ASSUME NEW s, Typed(s), s.resend = TRUE
  PROVE  Good(s)
  BY DEF Good, Current, Guarded

LEMMA OffGood ==
  ASSUME NEW s, Typed(s), s.on = FALSE
  PROVE  Good(s)
  BY DEF Good, Current, Guarded

LEMMA TextGood ==
  ASSUME NEW s, Typed(s), s.shown.kind \in Texts
  PROVE  Good(s)
  BY DEF Good, Current, Guarded, Texts, OpModes

LEMMA TestGood ==
  ASSUME NEW s, Typed(s), s.test = TRUE, s.shown.kind = "test"
  PROVE  Good(s)
  BY DEF Good, Current, Guarded

LEMMA QuietGood ==
  ASSUME NEW s, NEW t, Good(s), Typed(t), Quiet(s, t)
  PROVE  Good(t)
  BY DEF Good, Current, Guarded, Quiet

-----------------------------------------------------------------------------
(* Frequencies                                                             *)

LEMMA FrequencyParts ==
  ASSUME NEW f \in Frequencies
  PROVE  \E a \in Firsts \cup {"0", "2", "3"}, b \in Mids \cup {"0", "430"},
            c \in Lasts \cup {"0", "00"} : f = Freq(a, b, c)
  BY DEF Frequencies, Dialled

LEMMA FrequencyMade ==
  ASSUME NEW a \in Firsts \cup {"0", "2", "3"},
         NEW b \in Mids \cup {"0", "430"}, NEW c \in Lasts \cup {"0", "00"}
  PROVE  Freq(a, b, c) \in Frequencies
  BY DEF Frequencies

LEMMA DigitChanged ==
  ASSUME NEW f \in Frequencies
  PROVE  /\ \A a \in Firsts \cup {"3"} : [f EXCEPT !.first = a] \in Frequencies
         /\ \A b \in Mids : [f EXCEPT !.mid = b] \in Frequencies
         /\ \A c \in Lasts : [f EXCEPT !.last = c] \in Frequencies
<1>1. PICK a \in Firsts \cup {"0", "2", "3"}, b \in Mids \cup {"0", "430"},
           c \in Lasts \cup {"0", "00"} : f = Freq(a, b, c)
  BY FrequencyParts
<1>2. /\ \A x : [f EXCEPT !.first = x] = Freq(x, b, c)
      /\ \A x : [f EXCEPT !.mid = x] = Freq(a, x, c)
      /\ \A x : [f EXCEPT !.last = x] = Freq(a, b, x)
  BY <1>1 DEF Freq
<1>3. ASSUME NEW x \in Firsts \cup {"3"}
      PROVE  [f EXCEPT !.first = x] \in Frequencies
  <2>1. x \in Firsts \cup {"0", "2", "3"}
    OBVIOUS
  <2>2. Freq(x, b, c) \in Frequencies
    BY <2>1, FrequencyMade
  <2>. QED
    BY <1>2, <2>2
<1>4. ASSUME NEW x \in Mids PROVE [f EXCEPT !.mid = x] \in Frequencies
  <2>1. Freq(a, x, c) \in Frequencies
    BY FrequencyMade
  <2>. QED
    BY <1>2, <2>1
<1>5. ASSUME NEW x \in Lasts PROVE [f EXCEPT !.last = x] \in Frequencies
  <2>1. Freq(a, b, x) \in Frequencies
    BY FrequencyMade
  <2>. QED
    BY <1>2, <2>1
<1>. QED
  BY <1>3, <1>4, <1>5

LEMMA KnownFrequencies ==
  /\ NoFreq \in Frequencies /\ guardFreq \in Frequencies
  /\ \A f \in Dialled : f \in Frequencies
  BY FrequencyMade DEF NoFreq, guardFreq, Dialled, Frequencies

LEMMA ShownTyped ==
  ASSUME NEW kind \in ShownKinds
  PROVE  /\ Shown(kind) \in [kind : ShownKinds, channel : 0..31,
                             frequency : Frequencies]
         /\ Shown(kind).kind = kind
  BY KnownFrequencies DEF Shown

-----------------------------------------------------------------------------
(* Types of the functions                                                  *)

LEMMA SmallTyped ==
  ASSUME NEW s, Typed(s)
  PROVE  /\ \A key : Typed(sendUsbMessage(s, key))
         /\ Typed(Resend(s)) /\ Typed(playTone(s)) /\ Typed(eraseMWOD(s))
         /\ Typed(setAdf(s)) /\ Typed(setBoth(s)) /\ Typed(setMain(s))
  BY DEF Typed, Globals, Fields, sendUsbMessage, Resend, playTone, eraseMWOD,
         setAdf, setBoth, setMain

LEMMA ShowingTyped ==
  ASSUME NEW s, Typed(s)
  PROVE  /\ \A mode \in OpModes \cup {"invalid"} : Typed(display(s, mode))
         /\ Typed(setTest(s)) /\ Typed(setUhfOff(s)) /\ Typed(sendData(s))
<1>1. ASSUME NEW mode \in OpModes \cup {"invalid"}
      PROVE  Typed(display(s, mode))
  BY ShownTyped DEF display, Typed, Globals, Fields, ShownKinds
<1>2. Typed(setTest(s))
  <2>. DEFINE tested == [s EXCEPT !.test = TRUE, !.shown = Shown("test")]
  <2>1. "test" \in ShownKinds
    BY DEF ShownKinds
  <2>2. Typed(tested)
    BY <2>1, ShownTyped DEF Typed, Globals, Fields
  <2>3. setTest(s) = IF s.test THEN s ELSE tested
    BY DEF setTest
  <2>. HIDE DEF tested
  <2>. QED
    BY <2>2, <2>3
<1>3. Typed(setUhfOff(s))
  BY ShownTyped DEF setUhfOff, sendUsbMessage, Typed, Globals, Fields,
                    ShownKinds
<1>4. Typed(sendData(s))
  BY DEF sendData, Typed, Globals, Fields, ShownKinds
<1>. QED
  BY <1>1, <1>2, <1>3, <1>4

LEMMA FrequencyTyped ==
  ASSUME NEW s, Typed(s), NEW f \in Frequencies
  PROVE  /\ Typed([s EXCEPT !.frequency = f])
         /\ Typed(forcedReadFreq(s, f))
  BY DEF Typed, Globals, Fields, forcedReadFreq, Resend

LEMMA SelectTyped ==
  ASSUME NEW s, Typed(s), NEW dial \in Frequencies
  PROVE  /\ Typed(setManual(s, dial)) /\ Typed(setPreset(s))
         /\ Typed(setGuard(s))
<1>1. Typed(setManual(s, dial))
  BY DEF setManual, forcedReadFreq, Resend, sendUsbMessage, Typed, Globals,
         Fields
<1>2. Typed(setPreset(s))
  BY DEF setPreset, sendUsbMessage, Typed, Globals, Fields
<1>3. Typed(setGuard(s))
  BY KnownFrequencies DEF setGuard, sendUsbMessage, Typed, Globals, Fields
<1>. QED
  BY <1>1, <1>2, <1>3

LEMMA OnTyped ==
  ASSUME NEW s, Typed(s), NEW dial \in Frequencies
  PROVE  LET t == setUhfOn(s, dial)
         IN /\ Typed(t) /\ t.resend = TRUE /\ t.on = s.on /\ t.FUSEL = s.FUSEL
<1>. DEFINE read == forcedReadFreq(s, dial)
            tested == setTest(read)
<1>1. Typed(read) /\ read.on = s.on /\ read.FUSEL = s.FUSEL
  BY FrequencyTyped DEF forcedReadFreq, Resend, Typed, Globals, Fields
<1>2. /\ Typed(Resend(read)) /\ Resend(read).resend = TRUE
      /\ Resend(read).on = s.on /\ Resend(read).FUSEL = s.FUSEL
  BY <1>1 DEF Resend, Typed, Globals, Fields
<1>3. Typed(tested) /\ tested.on = s.on /\ tested.FUSEL = s.FUSEL
  <2>. HIDE DEF read
  <2>1. Typed(tested)
    BY <1>1, ShowingTyped
  <2>. QED
    BY <1>1, <2>1 DEF setTest, Typed, Globals, Fields
<1>. DEFINE over == [tested EXCEPT !.test = FALSE, !.resend = TRUE,
                                   !.delay = FALSE]
<1>4. /\ Typed(over) /\ over.resend = TRUE
      /\ over.on = s.on /\ over.FUSEL = s.FUSEL
  <2>. HIDE DEF tested
  <2>. QED
    BY <1>3 DEF Typed, Globals, Fields
<1>5. setUhfOn(s, dial) = IF s.MODE = "ADF" THEN Resend(read) ELSE over
  BY DEF setUhfOn
<1>. HIDE DEF read, tested, over
<1>. QED
  BY <1>2, <1>4, <1>5

LEMMA ToneTTyped ==
  ASSUME NEW s, Typed(s)
  PROVE  Typed(setToneT(s))
<1>. DEFINE answered == IF s.frequency = toneFreq
                          THEN [playTone(s) EXCEPT !.gotTone = TRUE]
                          ELSE [s EXCEPT !.gotTone = FALSE]
<1>1. Typed(answered)
  BY DEF playTone, Typed, Globals, Fields
<1>2. setToneT(s) =
        IF s.uhfOpMode # "VEROP" THEN s
        ELSE IF s.MODE = "ADF"
               THEN [answered EXCEPT !.shown = Shown("version")]
               ELSE answered
  BY DEF setToneT
<1>. HIDE DEF answered
<1>3. "version" \in ShownKinds
  BY DEF ShownKinds
<1>4. Typed([answered EXCEPT !.shown = Shown("version")])
  BY <1>1, <1>3, ShownTyped DEF Typed, Globals, Fields
<1>. QED
  BY <1>1, <1>2, <1>4

LEMMA ToneToneTyped ==
  ASSUME NEW s, Typed(s)
  PROVE  Typed(setToneTone(s))
<1>. DEFINE days == IF <<"MWOD", 14>> \in Stored(s)
                      THEN s.days \cup {s.frequency.mid} ELSE s.days
            noted == [s EXCEPT !.stored = s.stored \cup Stored(s),
                               !.days = days]
<1>1. Typed(noted)
  <2>. HIDE DEF days
  <2>. QED
    BY DEF Typed, Globals, Fields
<1>2. \/ setToneTone(s) = s \/ setToneTone(s) = eraseMWOD(s)
      \/ setToneTone(s) = playTone(noted)
  BY DEF setToneTone, Typed, Globals, Fields
<1>. HIDE DEF noted
<1>. QED
  BY <1>1, <1>2, SmallTyped

LEMMA LoadTyped ==
  ASSUME NEW s, Typed(s)
  PROVE  /\ LoadMode(s) \in OpModes \cup {"invalid"}
         /\ Typed([s EXCEPT !.uhfOpMode = LoadMode(s)])
<1>1. LoadMode(s) \in OpModes \cup {"invalid"}
  BY DEF LoadMode, Typed, OpModes
<1>. HIDE DEF LoadMode
<1>. QED
  BY <1>1 DEF Typed, Globals, Fields

LEMMA GoActiveTyped ==
  ASSUME NEW s, Typed(s), NEW audible
  PROVE  Typed(goActive(s, audible))
<1>1. [s.frequency EXCEPT !.first = "3"] \in Frequencies
  BY DigitChanged DEF Typed
<1>2. Typed([s EXCEPT !.frequency.first = "3"])
  BY <1>1 DEF Typed, Globals, Fields
<1>. QED
  BY <1>2, SmallTyped DEF goActive

-----------------------------------------------------------------------------
(* The two halves of a pass                                                *)

\* The end of a pass.  In the first run the frequency that is read replaces the
\* guard frequency, and the display is asked for once more.
LEMMA ResendGood ==
  ASSUME NEW s, Good(s), NEW dial \in Dialled
  PROVE  Good(ResendCheck(s, dial))
<1>. DEFINE guarded == IF s.FUSEL = "GUARD" THEN setGuard(s) ELSE s
            cleared == [guarded EXCEPT !.resend = FALSE]
            first   == [cleared EXCEPT !.firstRun = FALSE]
            started == IF s.firstRun THEN setUhfOn(first, dial) ELSE cleared
            sent    == sendData(started)
<1>1. Typed(s) /\ dial \in Frequencies
  BY KnownFrequencies DEF Good
<1>2. /\ Typed(guarded) /\ guarded.on = s.on /\ guarded.FUSEL = s.FUSEL
      /\ s.FUSEL = "GUARD" =>
           guarded.channel = 0 /\ guarded.frequency = guardFreq
  <2>1. Typed(setGuard(s))
    BY <1>1, SelectTyped
  <2>. QED
    BY <1>1, <2>1 DEF setGuard, sendUsbMessage, Typed, Globals, Fields
<1>3. /\ Typed(cleared) /\ cleared.on = s.on /\ cleared.FUSEL = s.FUSEL
      /\ s.FUSEL = "GUARD" =>
           cleared.channel = 0 /\ cleared.frequency = guardFreq
  <2>. HIDE DEF guarded
  <2>. QED
    BY <1>2 DEF Typed, Globals, Fields
<1>4. Typed(first)
  <2>. HIDE DEF cleared
  <2>. QED
    BY <1>3 DEF Typed, Globals, Fields
<1>5. /\ Typed(started)
      /\ s.firstRun => started.resend = TRUE
      /\ ~s.firstRun => started = cleared
      /\ started.FUSEL = s.FUSEL /\ started.on = s.on
  <2>1. LET t == setUhfOn(first, dial)
        IN /\ Typed(t) /\ t.resend = TRUE /\ t.on = first.on
           /\ t.FUSEL = first.FUSEL
    BY <1>1, <1>4, OnTyped
  <2>2. first.on = cleared.on /\ first.FUSEL = cleared.FUSEL
    BY <1>3 DEF Typed, Globals, Fields
  <2>. HIDE DEF cleared, first
  <2>. QED
    BY <1>3, <2>1, <2>2
<1>6. /\ Typed(sent) /\ sent.FUSEL = s.FUSEL /\ sent.resend = started.resend
      /\ sent.channel = started.channel
      /\ sent.frequency = started.frequency
      /\ sent.shown = [kind |-> "freq", channel |-> started.channel,
                       frequency |-> started.frequency]
  <2>. HIDE DEF started
  <2>1. Typed(sent)
    BY <1>5, ShowingTyped
  <2>. QED
    BY <1>5, <2>1 DEF sendData, Typed, Globals, Fields
<1>7. ResendCheck(s, dial) = IF ~(s.resend /\ ~s.test) THEN s
                             ELSE IF s.on THEN sent ELSE cleared
  BY Zenon DEF ResendCheck
<1>8. s.on /\ s.firstRun \in BOOLEAN => Good(sent)
  <2>. HIDE DEF cleared, started, sent
  <2>1. Current(sent)
    BY <1>6 DEF Current
  <2>2. Guarded(sent)
    BY <1>1, <1>3, <1>5, <1>6 DEF Guarded, Typed
  <2>. QED
    BY <1>6, <2>1, <2>2 DEF Good
<1>9. ~s.on => Good(cleared)
  <2>. HIDE DEF cleared
  <2>1. ~s.on => cleared.on = FALSE
    BY <1>1, <1>3 DEF Typed
  <2>. QED
    BY <1>3, <2>1, OffGood
<1>. HIDE DEF guarded, cleared, first, started, sent
<1>. QED
  BY <1>1, <1>7, <1>8, <1>9 DEF Typed

LEMMA KeyGood ==
  ASSUME NEW s, Key(s), Good(s)
  PROVE  Good(u') /\ UNCHANGED <<prev_val, hostLast>> /\ pc' = "channel"
  BY ResendGood DEF Key

LEMMA SelectGood ==
  ASSUME NEW s, Typed(s), NEW n \in 1..20
  PROVE  LET t == selectChannel(s, n) IN Typed(t) /\ t.resend = TRUE
<1>. DEFINE from == sendKeyStroke(s, IF n = 1 THEN 1 ELSE n - 1)
            dom  == /\ n = 19 /\ s.uhfOpMode = "VEROP" /\ s.FUSEL = "MNL"
                    /\ s.ch20 /\ s.frequency.mid \in s.days
            answered == IF dom THEN playTone(from) ELSE from
            loaded == LoadSwod(answered, n)
<1>1. Typed(from)
  BY SmallTyped DEF sendKeyStroke
<1>2. Typed(answered)
  BY <1>1, SmallTyped
<1>3. Typed(loaded)
  <2>. HIDE DEF answered
  <2>. DEFINE counted == [answered EXCEPT !.invalidSWOD = n - 15]
  <2>1. n >= 15 => Typed(counted)
    <3>1. n >= 15 => n - 15 \in 0..5
      OBVIOUS
    <3>. QED
      BY <1>2, <3>1 DEF Typed, Globals, Fields
  <2>2. loaded = answered \/ (n >= 15 /\ loaded = playTone(counted))
    BY DEF LoadSwod
  <2>. HIDE DEF counted, loaded
  <2>. QED
    BY <1>2, <2>1, <2>2, SmallTyped
<1>4. selectChannel(s, n) =
        Resend([loaded EXCEPT !.channel = n,
                              !.ch20 = (n = 20 \/ (@ /\ n # 19))])
  BY DEF selectChannel
<1>. HIDE DEF from, dom, answered, loaded
<1>. QED
  BY <1>3, <1>4 DEF Resend, Typed, Globals, Fields

LEMMA BackupTyped ==
  ASSUME NEW s, Typed(s)
  PROVE  /\ Typed(BackupAndBlank(s)) /\ BackupAndBlank(s).resend = s.resend
         /\ Blanked(s) => Quiet(s, BackupAndBlank(s))
<1>1. Typed(BackupAndBlank(s)) /\ BackupAndBlank(s).resend = s.resend
  BY DEF BackupAndBlank, Typed, Globals, Fields
<1>2. Blanked(s) => Quiet(s, BackupAndBlank(s))
  BY DEF BackupAndBlank, Blanked, Quiet, Typed, Globals, Fields
<1>. QED
  BY <1>1, <1>2

LEMMA CommandGood ==
  ASSUME NEW s, Typed(s), NEW t \in Commanded(s)
  PROVE  Typed(t) /\ (t = s \/ t.resend = TRUE)
<1>1. ASSUME NEW dial \in Dialled, t = debugOn(s, dial)
      PROVE  Typed(t) /\ t.resend = TRUE
  <2>. DEFINE adf == [s EXCEPT !.MODE = "ADF"]
              on  == [setUhfOn(adf, dial) EXCEPT !.on = TRUE]
  <2>1. dial \in Frequencies /\ Typed(adf)
    BY KnownFrequencies DEF Typed, Globals, Fields
  <2>2. Typed(setUhfOn(adf, dial))
    BY <2>1, OnTyped
  <2>3. Typed(on)
    <3>. HIDE DEF adf
    <3>. QED
      BY <2>2 DEF Typed, Globals, Fields
  <2>4. t = forcedReadFreq(on, dial)
    BY <1>1 DEF debugOn
  <2>. HIDE DEF on
  <2>5. Typed(forcedReadFreq(on, dial))
    BY <2>1, <2>3, FrequencyTyped
  <2>. QED
    BY <2>3, <2>4, <2>5 DEF forcedReadFreq, Resend, Typed, Globals, Fields
<1>. QED
  BY <1>1 DEF Commanded

\* The first half of a pass, with data from the host or without.
LEMMA ChannelGood ==
  ASSUME NEW s, ProcessChannel(s), Typed(s),
         s.resend = TRUE \/ (Good(s) /\ Blanked(s))
  PROVE  Good(u') /\ prev_val' \in 0..20 /\ pc' = "keys"
<1>1. PICK n \in Channels \cup {0}, c \in Commanded(s) :
        /\ pc' = "keys" /\ prev_val' = n
        /\ u' = BackupAndBlank(IF n # 0 /\ n # prev_val
                                 THEN selectChannel(c, n) ELSE c)
  BY DEF ProcessChannel
<1>2. n \in 0..20
  BY RadioAssumption
<1>3. Typed(c) /\ (c = s \/ c.resend = TRUE)
  BY CommandGood
<1>4. CASE n # 0 /\ n # prev_val
  <2>1. n \in 1..20
    BY <1>2, <1>4
  <2>2. Typed(selectChannel(c, n)) /\ selectChannel(c, n).resend = TRUE
    BY <1>3, <2>1, SelectGood
  <2>. QED
    BY <1>1, <1>2, <1>4, <2>2, BackupTyped, AskedGood
<1>5. CASE ~(n # 0 /\ n # prev_val)
  <2>1. u' = BackupAndBlank(c)
    BY <1>1, <1>5
  <2>2. CASE c.resend = TRUE
    BY <1>1, <1>2, <1>3, <2>1, <2>2, BackupTyped, AskedGood
  <2>3. CASE c = s /\ Good(s) /\ Blanked(s)
    BY <1>1, <1>2, <1>3, <2>1, <2>3, BackupTyped, QuietGood
  <2>. QED
    BY <1>3, <2>2, <2>3
<1>. QED
  BY <1>4, <1>5

-----------------------------------------------------------------------------
(* The invariant                                                           *)

ShownInv ==
  /\ Good(u)
  /\ prev_val \in 0..20 /\ hostLast \in BOOLEAN /\ pc \in {"channel", "keys"}

LEMMA ShownInit == Init => ShownInv
<1>. SUFFICES ASSUME Init PROVE ShownInv
  OBVIOUS
<1>1. Typed(u) /\ u.resend = TRUE
  <2>1. "off" \in ShownKinds
    BY DEF ShownKinds
  <2>2. Shown("off") \in [kind : ShownKinds, channel : 0..31,
                          frequency : Frequencies]
    BY <2>1, ShownTyped
  <2>3. PICK fusel \in {"MNL", "PRESET", "GUARD"},
             mode \in {"none", "ADF", "BOTH"}, off \in BOOLEAN,
             opMode \in {"VEROP", "invalid"} :
       u = [FUSEL |-> fusel, MODE |-> mode, on |-> ~off, uhfOpMode |-> opMode,
            channel |-> 0, channelMemory |-> 0,
            frequency |-> IF fusel = "GUARD" THEN guardFreq ELSE NoFreq,
            invalidSWOD |-> 5, ch20 |-> FALSE, gotTone |-> FALSE,
            resend |-> TRUE, test |-> FALSE, firstRun |-> ~off,
            delay |-> FALSE, shown |-> Shown("off"), sent |-> <<>>,
            days |-> {NoFreq.mid}, stored |-> {}]
    BY DEF Init
  <2>4. u.frequency \in Frequencies
    BY <2>3, KnownFrequencies
  <2>5. Globals \subseteq DOMAIN u
    BY <2>3 DEF Globals, Fields
  <2>6. u.shown = Shown("off") /\ u.on \in BOOLEAN /\ u.firstRun \in BOOLEAN
    BY <2>3
  <2>. QED
    BY <2>2, <2>3, <2>4, <2>5, <2>6 DEF Typed, OpModes
<1>2. Good(u)
  BY <1>1, AskedGood
<1>3. prev_val \in 0..20 /\ pc \in {"channel", "keys"}
  BY DEF Init
<1>4. hostLast \in BOOLEAN
  BY Zenon DEF Init
<1>. QED
  BY <1>2, <1>3, <1>4 DEF ShownInv

LEMMA ShownKey ==
  ASSUME NEW s, Key(s), ShownInv, Good(s)
  PROVE  ShownInv'
  BY KeyGood DEF ShownInv

LEMMA ShownStep == RadioInv /\ ShownInv /\ [Next]_vars => ShownInv'
<1>. SUFFICES ASSUME RadioInv, ShownInv, [Next]_vars PROVE ShownInv'
  OBVIOUS
<1>0. Good(u) /\ Typed(u) /\ Blanked(u)
  BY DEF RadioInv, ShownInv, Good
<1>1. CASE NoHostData
  <2>1. Typed(NewPass) /\ Quiet(u, NewPass) /\ Blanked(NewPass)
    BY <1>0 DEF NewPass, Quiet, Typed, Globals, Fields, Blanked
  <2>2. Good(NewPass)
    BY <1>0, <2>1, QuietGood
  <2>3. Good(u') /\ prev_val' \in 0..20 /\ pc' = "keys"
    BY <1>1, <2>1, <2>2, ChannelGood DEF NoHostData
  <2>. QED
    BY <1>1, <2>3 DEF NoHostData, ShownInv
<1>2. CASE HostData
  <2>1. PICK c \in HostChannels, f \in Dialled :
          /\ ProcessChannel(Resend([NewPass EXCEPT !.channel = c,
                                                   !.frequency = f]))
          /\ hostLast' = (prev_val' \in {0, prev_val})
    BY <1>2 DEF HostData
  <2>. DEFINE s == Resend([NewPass EXCEPT !.channel = c, !.frequency = f])
  <2>2. c \in 0..31 /\ f \in Frequencies
    BY RadioAssumption, KnownFrequencies
  <2>3. Typed(s) /\ s.resend = TRUE
    BY <1>0, <2>2 DEF NewPass, Resend, Typed, Globals, Fields
  <2>4. ProcessChannel(s)
    BY <2>1
  <2>. HIDE DEF s
  <2>5. Good(u') /\ prev_val' \in 0..20 /\ pc' = "keys"
    BY <2>3, <2>4, ChannelGood
  <2>. QED
    BY <2>1, <2>5 DEF ShownInv
<1>3. CASE NoKey
  BY <1>0, <1>3, ShownKey DEF NoKey
<1>4. CASE DialFirst
  <2>1. PICK d \in Firsts, audible \in BOOLEAN :
          LET set == Resend([u EXCEPT !.frequency.first = d])
          IN Key(sendUsbMessage(IF d = "A" THEN goActive(set, audible) ELSE set,
                                "KEY_1"))
    BY <1>4 DEF DialFirst
  <2>. DEFINE set == Resend([u EXCEPT !.frequency.first = d])
              active == IF d = "A" THEN goActive(set, audible) ELSE set
              told == sendUsbMessage(active, "KEY_1")
  <2>2. [u.frequency EXCEPT !.first = d] \in Frequencies
    BY <1>0, DigitChanged DEF Typed
  <2>3. Typed(set) /\ set.resend = TRUE
    BY <1>0, <2>2 DEF Resend, Typed, Globals, Fields
  <2>. HIDE DEF set
  <2>4. Typed(active) /\ active.resend = TRUE
    <3>1. goActive(set, audible).resend = TRUE
      BY <2>3 DEF goActive, playTone, Typed, Globals, Fields
    <3>. QED
      BY <2>3, <3>1, GoActiveTyped
  <2>. HIDE DEF active
  <2>5. Typed(told) /\ told.resend = TRUE
    BY <2>4 DEF sendUsbMessage, Typed, Globals, Fields
  <2>6. Key(told)
    BY <2>1, Zenon DEF set, active
  <2>. HIDE DEF told
  <2>. QED
    BY <2>5, <2>6, AskedGood, ShownKey
<1>5. CASE DialMid
  <2>1. PICK d \in Mids :
          Key(sendUsbMessage(Resend([u EXCEPT !.frequency.mid = d]), "KEY_2_4"))
    BY <1>5 DEF DialMid
  <2>. DEFINE told == sendUsbMessage(Resend([u EXCEPT !.frequency.mid = d]),
                                     "KEY_2_4")
  <2>2. [u.frequency EXCEPT !.mid = d] \in Frequencies
    BY <1>0, DigitChanged DEF Typed
  <2>3. Typed(told) /\ told.resend = TRUE
    BY <1>0, <2>2 DEF Resend, sendUsbMessage, Typed, Globals, Fields
  <2>4. Key(told)
    BY <2>1
  <2>. HIDE DEF told
  <2>. QED
    BY <2>3, <2>4, AskedGood, ShownKey
<1>6. CASE DialLast
  <2>1. PICK d \in Lasts :
          Key(sendUsbMessage(Resend([u EXCEPT !.frequency.last = d]), "KEY_5"))
    BY <1>6 DEF DialLast
  <2>. DEFINE told == sendUsbMessage(Resend([u EXCEPT !.frequency.last = d]),
                                     "KEY_5")
  <2>2. [u.frequency EXCEPT !.last = d] \in Frequencies
    BY <1>0, DigitChanged DEF Typed
  <2>3. Typed(told) /\ told.resend = TRUE
    BY <1>0, <2>2 DEF Resend, sendUsbMessage, Typed, Globals, Fields
  <2>4. Key(told)
    BY <2>1
  <2>. HIDE DEF told
  <2>. QED
    BY <2>3, <2>4, AskedGood, ShownKey
<1>7. CASE SelectManual
  <2>1. PICK dial \in Dialled : Key(setManual(u, dial))
    BY <1>7 DEF SelectManual
  <2>2. Typed(setManual(u, dial))
    BY <1>0, SelectTyped, KnownFrequencies
  <2>3. setManual(u, dial).resend = TRUE
    BY <1>0 DEF setManual, forcedReadFreq, Resend, sendUsbMessage, Typed,
                Globals, Fields
  <2>. QED
    BY <2>1, <2>2, <2>3, AskedGood, ShownKey
<1>8. CASE SelectPreset
  <2>1. Typed(setPreset(u))
    BY <1>0, SelectTyped, KnownFrequencies DEF Typed
  <2>2. Typed(Resend(setPreset(u))) /\ Resend(setPreset(u)).resend = TRUE
    BY <2>1 DEF Resend, Typed, Globals, Fields
  <2>. QED
    BY <1>8, <2>2, AskedGood, ShownKey DEF SelectPreset
<1>9. CASE SelectGuard
  <2>1. Typed(setGuard(u))
    BY <1>0, SelectTyped, KnownFrequencies DEF Typed
  <2>2. Typed(Resend(setGuard(u))) /\ Resend(setGuard(u)).resend = TRUE
    BY <2>1 DEF Resend, Typed, Globals, Fields
  <2>. QED
    BY <1>9, <2>2, AskedGood, ShownKey DEF SelectGuard
<1>10. CASE ToneT
  <2>1. Typed(setToneT(u))
    BY <1>0, ToneTTyped
  <2>2. \/ Quiet(u, setToneT(u))
        \/ setToneT(u).shown = Shown("version")
    BY <1>0 DEF setToneT, playTone, Quiet, Typed, Globals, Fields
  <2>3. "version" \in ShownKinds /\ "version" \in Texts
    BY DEF ShownKinds, Texts
  <2>4. Good(setToneT(u))
    BY <1>0, <2>1, <2>2, <2>3, QuietGood, TextGood, ShownTyped
  <2>. QED
    BY <1>10, <2>4, ShownKey DEF ToneT
<1>11. CASE ToneTone
  <2>1. Typed(setToneTone(u))
    BY <1>0, ToneToneTyped
  <2>2. Quiet(u, setToneTone(u))
    BY <1>0 DEF setToneTone, playTone, eraseMWOD, Quiet, Typed, Globals, Fields
  <2>. QED
    BY <1>0, <1>11, <2>1, <2>2, QuietGood, ShownKey DEF ToneTone
<1>12. CASE Load
  <2>. DEFINE moded == [u EXCEPT !.uhfOpMode = LoadMode(u)]
              text == display(moded, LoadMode(u))
  <2>1. Typed(moded) /\ LoadMode(u) \in OpModes \cup {"invalid"}
    BY <1>0, LoadTyped
  <2>2. Typed(text)
    BY <2>1, ShowingTyped
  <2>3. text.shown = Shown(LoadMode(u))
    <3>. HIDE DEF moded
    <3>. QED
      BY <2>1 DEF display, Typed, Globals, Fields
  <2>4. LoadMode(u) \in ShownKinds /\ LoadMode(u) \in Texts
    BY <2>1 DEF ShownKinds, Texts
  <2>. HIDE DEF text
  <2>5. Good(text)
    BY <2>2, <2>3, <2>4, ShownTyped, TextGood
  <2>6. setLoad(u) = text \/ setLoad(u) = u
    BY DEF setLoad, text, moded
  <2>. QED
    BY <1>0, <1>12, <2>5, <2>6, ShownKey DEF Load
<1>13. CASE PressTest
  <2>1. Typed(setTest(u))
    BY <1>0, ShowingTyped
  <2>2. setTest(u).test = TRUE /\ setTest(u).shown.kind = "test"
    BY <1>0, <1>13 DEF PressTest, setTest, Shown, Typed, Globals, Fields
  <2>. QED
    BY <1>13, <2>1, <2>2, TestGood, ShownKey DEF PressTest
<1>14. CASE ReleaseTest
  <2>. DEFINE released == Resend([u EXCEPT !.test = FALSE])
  <2>1. Typed(released) /\ released.resend = TRUE
    BY <1>0 DEF Resend, Typed, Globals, Fields
  <2>. QED
    BY <1>14, <2>1, AskedGood, ShownKey DEF ReleaseTest
<1>15. CASE SwitchOn
  <2>. DEFINE key == IF u.MODE = "ADF" THEN u
                ELSE sendUsbMessage(sendUsbMessage(u, "KEY_MAIN"), "NOT_USED")
  <2>1. PICK dial \in Dialled : Key([setUhfOn(key, dial) EXCEPT !.on = TRUE])
    BY <1>15 DEF SwitchOn
  <2>2. Typed(key) /\ dial \in Frequencies
    BY <1>0, SmallTyped, KnownFrequencies
  <2>. HIDE DEF key
  <2>. DEFINE running == setUhfOn(key, dial)
              s == [running EXCEPT !.on = TRUE]
  <2>3. Typed(running) /\ running.resend = TRUE
    BY <2>2, OnTyped
  <2>. HIDE DEF running
  <2>4. Typed(s) /\ s.resend = TRUE
    BY <2>3 DEF Typed, Globals, Fields
  <2>5. Key(s)
    BY <2>1 DEF running
  <2>. HIDE DEF s
  <2>. QED
    BY <2>4, <2>5, AskedGood, ShownKey
<1>16. CASE SwitchOff
  <2>. DEFINE off == [u EXCEPT !.on = FALSE]
  <2>1. Typed(off) /\ off.on = FALSE
    BY <1>0 DEF Typed, Globals, Fields
  <2>. HIDE DEF off
  <2>2. Typed(setUhfOff(off)) /\ setUhfOff(off).on = FALSE
    <3>1. Typed(setUhfOff(off))
      BY <2>1, ShowingTyped
    <3>. QED
      BY <2>1, <3>1 DEF setUhfOff, sendUsbMessage, Typed, Globals, Fields
  <2>3. Key(setUhfOff(off))
    BY <1>16 DEF SwitchOff, off
  <2>. QED
    BY <2>2, <2>3, OffGood, ShownKey
<1>17. CASE SelectAdf \/ SelectMain \/ SelectBoth
  <2>1. PICK s \in {setAdf(u), setMain(u), setBoth(u)} : Key(s)
    BY <1>17 DEF SelectAdf, SelectMain, SelectBoth
  <2>2. Typed(s)
    BY <1>0, SmallTyped
  <2>3. Quiet(u, s)
    BY <1>0 DEF setAdf, setMain, setBoth, sendUsbMessage, Quiet, Typed, Globals,
                Fields
  <2>. QED
    BY <1>0, <2>1, <2>2, <2>3, QuietGood, ShownKey
<1>18. CASE Zeroize
  <2>. DEFINE text == display(u, "ERASE")
  <2>1. "ERASE" \in OpModes /\ "ERASE" \in ShownKinds /\ "ERASE" \in Texts
    BY DEF OpModes, ShownKinds, Texts
  <2>2. Typed(text) /\ text.shown = Shown("ERASE")
    <3>1. Typed(text)
      BY <1>0, <2>1, ShowingTyped
    <3>. QED
      BY <1>0, <3>1 DEF display, Typed, Globals, Fields
  <2>. HIDE DEF text
  <2>3. Typed(eraseMWOD(text)) /\ eraseMWOD(text).shown = Shown("ERASE")
    <3>1. Typed(eraseMWOD(text))
      BY <2>2, SmallTyped
    <3>. QED
      BY <2>2, <3>1 DEF eraseMWOD, Typed, Globals, Fields
  <2>4. Good(eraseMWOD(text))
    BY <2>1, <2>3, ShownTyped, TextGood
  <2>. QED
    BY <1>18, <2>4, ShownKey DEF Zeroize, text
<1>19. CASE Status
  <2>1. PICK net \in Dialled : Key(setStatus(u, net))
    BY <1>19 DEF Status
  <2>. DEFINE reads == /\ u.FUSEL = "PRESET" /\ u.uhfOpMode = "VEROP"
                       /\ u.frequency.first # "A" \/ u.channel > 4
              read == IF reads THEN [u EXCEPT !.frequency = net] ELSE u
  <2>2. Typed(read) /\ read.uhfOpMode = u.uhfOpMode
    BY <1>0, FrequencyTyped, KnownFrequencies DEF Typed, Globals, Fields
  <2>3. setStatus(u, net) =
          IF u.channel = 20 THEN display(read, u.uhfOpMode) ELSE Resend(read)
    BY DEF setStatus
  <2>. HIDE DEF reads, read
  <2>4. Good(Resend(read))
    <3>1. Resend(read).resend = TRUE
      BY <2>2 DEF Resend, Typed, Globals, Fields
    <3>. QED
      BY <2>2, <3>1, SmallTyped, AskedGood
  <2>5. Good(display(read, u.uhfOpMode))
    <3>1. u.uhfOpMode \in OpModes \cup {"invalid"}
      BY <1>0 DEF Typed
    <3>2. u.uhfOpMode \in ShownKinds /\ u.uhfOpMode \in Texts
      BY <3>1 DEF ShownKinds, Texts
    <3>3. Typed(display(read, u.uhfOpMode))
      BY <2>2, <3>1, ShowingTyped
    <3>4. display(read, u.uhfOpMode).shown = Shown(u.uhfOpMode)
      BY <2>2 DEF display, Typed, Globals, Fields
    <3>. QED
      BY <3>2, <3>3, <3>4, ShownTyped, TextGood
  <2>. QED
    BY <2>1, <2>3, <2>4, <2>5, ShownKey
<1>20. CASE IsrTimer1
  <2>. DEFINE ended == [u EXCEPT !.delay = FALSE, !.test = FALSE,
                                 !.resend = TRUE]
  <2>1. Typed(ended) /\ ended.resend = TRUE
    BY <1>0 DEF Typed, Globals, Fields
  <2>2. u' = ended /\ UNCHANGED <<prev_val, hostLast, pc>>
    BY <1>20 DEF IsrTimer1
  <2>. HIDE DEF ended
  <2>. QED
    BY <2>1, <2>2, AskedGood DEF ShownInv
<1>21. CASE UNCHANGED vars
  BY <1>21 DEF vars, ShownInv
<1>. QED
  BY <1>1, <1>2, <1>3, <1>4, <1>5, <1>6, <1>7, <1>8, <1>9, <1>10, <1>11, <1>12,
     <1>13, <1>14, <1>15, <1>16, <1>17, <1>18, <1>19, <1>20, <1>21
  DEF Next, Keys

LEMMA ShownAlways == Spec => []ShownInv
  BY RadioAlways, ShownInit, ShownStep, PTL DEF Spec

\* The types of the globals, whatever keys, host and terminal do.
THEOREM RadioTypes == Spec => []TypeOK
<1>1. ShownInv => TypeOK
  BY DEF ShownInv, Good, Typed, TypeOK
<1>. QED
  BY <1>1, ShownAlways, PTL

\* None of the functions that change what the display shows forgets to ask for
\* it to be sent again (the resend flag, main.c:196).
THEOREM DisplayAlwaysCurrent == Spec => []DisplayCurrent
<1>1. ShownInv => DisplayCurrent
  BY DEF ShownInv, Good, Current, Texts, DisplayCurrent
<1>. QED
  BY <1>1, ShownAlways, PTL

\* In the position GUARD the display settles on the guard frequency only
\* (main.c:197).
THEOREM GuardAlwaysShown == Spec => []GuardShown
<1>1. ShownInv => GuardShown
  BY DEF ShownInv, Good, Guarded, GuardShown
<1>. QED
  BY <1>1, ShownAlways, PTL
=============================================================================
