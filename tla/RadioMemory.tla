----------------------------- MODULE RadioMemory -----------------------------
(***************************************************************************)
(* The preset frequencies: how they get into EEPROM, from the host over    *)
(* the control endpoint (transmitToDevice) or by the LOAD key, and back.   *)
(*                                                                         *)
(* EEPROM is slots of six bytes: first the nets, then the presets, then    *)
(* erased cells.  An array index that is out of bounds is a slot all the   *)
(* same.  The operating mode is the first byte of slot ModeSlot, beyond    *)
(* the presets.  Writing takes long (8.5 ms for a byte), the main loop     *)
(* waits for it while the driver's interrupt handler goes on, and power    *)
(* may fail in the middle.                                                 *)
(*                                                                         *)
(* The control endpoint is RequestPipe, which the driver implements.       *)
(***************************************************************************)
EXTENDS RequestPipe, RadioData, FiniteSets

CONSTANTS MAX_FMT, MAX_CHANNELS,
          Dialled        \* frequencies that are dialled on the radio

ASSUME MemoryAssumption ==
  /\ MAX_FMT \in Nat \ {0} /\ MAX_CHANNELS \in Nat
  /\ MAX_FMT < MAX_CHANNELS + 1 /\ MAX_CHANNELS <= 20
  /\ Dialled \subseteq Frequencies /\ Dialled # {}

\* Requests of class USB_DATA_TX carry data and the byte that says where to;
\* of any other request only the name matters here.
ASSUME DataAssumption ==
  Requests \subseteq [kind: {"store", "display", "other"}, channel: 0..31,
                      frequency: Frequencies]

VARIABLES
  eeprom,     \* slot -> its six bytes
  writing,    \* the block that is being written, and who asked for it
  radio,      \* [channel, frequency] on display
  uhfFMT,     \* the nets, copied at start-up
  uhfOpMode,
  boot,       \* what is left of initVariables: "write" or "done"
  sure,       \* history: channel -> preset the host knows of, or Unknown
  loaded,     \* history: LOAD was pressed on the preset the host asks for
  strayed,    \* history: a channel without a preset was stored
  settled     \* history: an earlier start got through

memoryVars == <<eeprom, writing, radio, uhfFMT, uhfOpMode, boot>>
historyVars == <<sure, loaded, strayed, settled>>
vars == <<pipeVars, memoryVars, historyVars>>

Slots == 0..(MAX_FMT + 30)
Channels == 1..MAX_CHANNELS

Erased == 255
VEROP == 0
LastOpMode == 4

Unknown == <<>>

\* Variant: the index is one too small.
PresetSlotOffByOne(channel) == MAX_FMT + channel - 2

\* &eePresetFrequencies[channel - 1]; channel 0 is the last net's slot.
PresetSlot(channel) == MAX_FMT + channel - 1

\* eeUhfState is eePresetFrequencies[MAX_CHANNELS][FREQ_ARRAY_SIZE].
ModeSlot == MAX_FMT + MAX_CHANNELS + 1

ZeroFrequency == [i \in 1..6 |-> 0]
NoBlock == [slot |-> 0, data |-> ZeroFrequency, by |-> "none"]
Blank == [channel |-> 0, frequency |-> ZeroFrequency]

\* The shipped presets and nets; what follows was never written.
Shipped == [s \in Slots |-> IF s < MAX_FMT + MAX_CHANNELS
                              THEN CHOOSE f \in Dialled : TRUE
                              ELSE [i \in 1..6 |-> Erased]]

\* Variant: the mode found is accepted as it is.
StartUpTrusting(memory) ==
  /\ uhfFMT' = [n \in 0..(MAX_FMT - 1) |-> memory[n]]
  /\ uhfOpMode' = memory[ModeSlot][1]
  /\ boot' = "done"
  /\ radio' = Blank /\ writing' = NoBlock

\* initVariables: a mode out of range stays in the variable, but VEROP will be
\* written.
StartUp(memory) ==
  /\ uhfFMT' = [n \in 0..(MAX_FMT - 1) |-> memory[n]]
  /\ uhfOpMode' = memory[ModeSlot][1]
  /\ boot' = IF memory[ModeSlot][1] > LastOpMode THEN "write" ELSE "done"
  /\ radio' = Blank /\ writing' = NoBlock

Init ==
  /\ PipeInit
  /\ eeprom = Shipped /\ writing = NoBlock /\ radio = Blank
  /\ uhfFMT = [n \in 0..(MAX_FMT - 1) |-> Shipped[n]]
  /\ uhfOpMode = Erased /\ boot = "write"
  /\ sure = [c \in Channels |-> Unknown] /\ loaded = FALSE
  /\ strayed = FALSE /\ settled = FALSE

WriteMode ==
  /\ boot = "write" /\ boot' = "done"
  /\ eeprom' = [eeprom EXCEPT ![ModeSlot][1] = VEROP]
  /\ UNCHANGED <<pipeVars, writing, radio, uhfFMT, uhfOpMode, historyVars>>

-----------------------------------------------------------------------------
(* Blocks of EEPROM                                                        *)

\* The main loop runs, and is not in the middle of something.
Polling == boot = "done" /\ writing.by = "none"

\* From now on the preset is not what the host was told.
Forget(channel) ==
  sure' = [c \in Channels |-> IF c = channel THEN Unknown ELSE sure[c]]

\* Variant: the channel on display is written.
WriteDisplayed(data, by) ==
  /\ writing' = [slot |-> PresetSlot(radio.channel), data |-> data.frequency,
                  by |-> by]
  /\ strayed' = (strayed \/ data.channel \notin Channels)

\* A preset written by the host's data or LOAD.  The net that setToneTone writes
\* at uhfProcessor.c:259 is no writer here: that code is never reached, as
\* FmtChgStores of UhfRadio shows.
writePresetFreq2eeprom(data, by) ==
  /\ writing' = [slot |-> PresetSlot(data.channel), data |-> data.frequency,
                  by |-> by]
  /\ strayed' = (strayed \/ data.channel \notin Channels)

Written == eeprom' = [eeprom EXCEPT ![writing.slot] = writing.data]

\* What power loss leaves of a block: all or nothing of it was written, or some
\* bytes; which ones makes no difference here, it is not the frequency meant.
Mixed == [i \in 1..6 |-> Erased]
Torn(old, new) == {old, new, Mixed}

PowerLoss ==
  /\ PowerUp
  /\ IF writing.by = "none"
       THEN eeprom' = eeprom
       ELSE \E t \in Torn(eeprom[writing.slot], writing.data) :
              eeprom' = [eeprom EXCEPT ![writing.slot] = t]
  /\ StartUp(eeprom')
  /\ settled' = (settled \/ boot = "done")
  /\ UNCHANGED <<sure, loaded, strayed>>

-----------------------------------------------------------------------------
(* The host                                                                *)

AskRequest(rq) ==
  /\ Ask(rq)
  /\ loaded' = FALSE
  /\ IF rq.kind = "store" THEN Forget(rq.channel) ELSE UNCHANGED sure
  /\ UNCHANGED <<memoryVars, strayed, settled>>

PassRequest == (Accept \/ Abandon) /\ UNCHANGED <<memoryVars, historyVars>>

\* The host is told, and knows, unless LOAD was pressed since.
FinishRequest ==
  /\ Finish
  /\ IF request.kind = "store" /\ ~loaded
       THEN sure' = [c \in Channels |-> IF c = request.channel
                                          THEN request.frequency ELSE sure[c]]
       ELSE UNCHANGED sure
  /\ UNCHANGED <<memoryVars, loaded, strayed, settled>>

Carrying(kind) == waiting # NoRequest /\ waiting.kind = kind

Received ==
  decompressRadioData(compressRadioData(waiting.channel, waiting.frequency))

\* transmitToDevice with 0xEE: usbProcessRx goes on when the block is written.
BeginStore ==
  /\ Polling /\ Carrying("store")
  /\ writePresetFreq2eeprom(Received, "host")
  /\ UNCHANGED <<pipeVars, eeprom, radio, uhfFMT, uhfOpMode, boot, sure, loaded,
                 settled>>

EndStore ==
  /\ writing.by = "host"
  /\ Written /\ writing' = NoBlock
  /\ CarryOut
  /\ UNCHANGED <<radio, uhfFMT, uhfOpMode, boot, historyVars>>

\* transmitToDevice without; the resend flag is UhfRadio's.
DisplayData ==
  /\ Polling /\ Carrying("display")
  /\ radio' = Received
  /\ CarryOut
  /\ UNCHANGED <<eeprom, writing, uhfFMT, uhfOpMode, boot, historyVars>>

OtherRequest ==
  /\ Polling /\ Carrying("other")
  /\ CarryOut
  /\ UNCHANGED <<memoryVars, historyVars>>

-----------------------------------------------------------------------------
(* The radio's keys, in the position PRESET                                *)

\* What keys and selectors do to the display is UhfRadio's.
Dial ==
  /\ Polling
  /\ \E c \in Channels \cup {0}, f \in Dialled :
       radio' = [channel |-> c, frequency |-> f]
  /\ UNCHANGED <<pipeVars, eeprom, writing, uhfFMT, uhfOpMode, boot,
                 historyVars>>

VeropDialled ==
  SubSeq(radio.frequency, 1, 4) = <<Digit(2), Digit(2), Digit(0), Digit(0)>>

LoadMode ==
  CASE radio.frequency[5] = Digit(0) -> VEROP
    [] radio.frequency[5] = Digit(2) -> 1
    [] radio.frequency[5] = Digit(5) -> 2
    [] radio.frequency[5] = Digit(7) -> 3
    [] OTHER -> uhfOpMode

\* setLoad
SelectMode ==
  /\ Polling /\ VeropDialled /\ radio.channel = MAX_CHANNELS
  /\ uhfOpMode' = LoadMode
  /\ UNCHANGED <<pipeVars, eeprom, writing, radio, uhfFMT, boot, historyVars>>

BeginLoad ==
  /\ Polling /\ ~VeropDialled /\ uhfOpMode = VEROP
  /\ writePresetFreq2eeprom(radio, "key")
  /\ Forget(radio.channel)
  /\ loaded' = (loaded \/ radio.channel = request.channel)
  /\ UNCHANGED <<pipeVars, eeprom, radio, uhfFMT, uhfOpMode, boot, settled>>

EndLoad ==
  /\ writing.by = "key"
  /\ Written /\ writing' = NoBlock
  /\ UNCHANGED <<pipeVars, radio, uhfFMT, uhfOpMode, boot, historyVars>>

\* setStatus: the net of a frequency with A, or the preset.  A channel beyond
\* the last has its net in front of the array, where anything may be.
Status ==
  /\ Polling /\ uhfOpMode = VEROP
  /\ IF radio.frequency[1] # LetterA
       THEN radio' = [radio EXCEPT !.frequency =
                                     eeprom[PresetSlot(radio.channel)]]
     ELSE IF radio.channel > MAX_CHANNELS
       THEN \E f \in Dialled : radio' = [radio EXCEPT !.frequency = f]
     ELSE IF radio.channel > MAX_CHANNELS - MAX_FMT
       THEN radio' = [radio EXCEPT !.frequency =
                                     uhfFMT[MAX_CHANNELS - radio.channel]]
       ELSE UNCHANGED radio
  /\ UNCHANGED <<pipeVars, eeprom, writing, uhfFMT, uhfOpMode, boot,
                 historyVars>>

Next ==
  \/ \E rq \in Requests : AskRequest(rq)
  \/ PassRequest \/ FinishRequest
  \/ BeginStore \/ EndStore \/ DisplayData \/ OtherRequest
  \/ Dial \/ SelectMode \/ BeginLoad \/ EndLoad \/ Status
  \/ WriteMode \/ PowerLoss

Spec == Init /\ [][Next]_vars

-----------------------------------------------------------------------------
(* Properties                                                              *)

Cells == [1..6 -> 0..255]

PipeTypes ==
  /\ stage \in {"none", "asked", "accepted", "finished"}
  /\ request \in Requests
  /\ waiting \in Requests \cup {NoRequest} /\ done \in BOOLEAN

BlockTypes ==
  writing \in [slot: Slots, data: Cells, by: {"none", "host", "key"}]

RadioTypes ==
  /\ radio \in [channel: 0..31, frequency: Cells]
  /\ uhfFMT \in [0..(MAX_FMT - 1) -> Cells] /\ uhfOpMode \in 0..255
  /\ boot \in {"write", "done"}

HistoryTypes ==
  /\ sure \in [Channels -> Frequencies \cup {Unknown}]
  /\ loaded \in BOOLEAN /\ strayed \in BOOLEAN /\ settled \in BOOLEAN

\* Types.
MemoryTypeOK ==
  /\ eeprom \in [Slots -> Cells]
  /\ PipeTypes /\ BlockTypes /\ RadioTypes /\ HistoryTypes

\* A host that was told of the end of its request finds the preset in EEPROM
\* as it meant it, until it asks for another or LOAD is pressed: through power
\* loss at any byte, repeated requests, and requests it has given up.
PresetKnown ==
  \A c \in Channels : sure[c] # Unknown => eeprom[PresetSlot(c)] = sure[c]

\* Without a channel 0 or beyond the last, the nets stay as they were shipped,
\* and so do the cells behind the presets but the operating mode's.
NetsKept ==
  ~strayed => \A s \in Slots :
    \/ s \in {PresetSlot(c) : c \in Channels}
    \/ eeprom[s] = Shipped[s]
    \/ s = ModeSlot /\ eeprom[s] = [Shipped[s] EXCEPT ![1] = VEROP]

\* After the first start that got through, a start finds an operating mode
\* there is.
ModeValid == settled /\ ~strayed => uhfOpMode <= LastOpMode
=============================================================================
