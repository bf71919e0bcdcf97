-------------------------- MODULE RadioMemoryProofs --------------------------
(* Proofs about RadioMemory for every number of nets and presets, every     *)
(* frequency, and every set of requests: what is packed is unpacked, and a  *)
(* host that was told so finds its preset.                                  *)
EXTENDS RadioMemory, TLAPS

LEMMA StepsDistinct ==
  ASSUME NEW k \in 1..4, NEW j \in 1..4, Steps[k] = Steps[j]
  PROVE  k = j
  BY DEF Steps, Digit, ASCII_OFFSET

\* A frequency by its characters, as the selectors have them.
Spelled(f, first, d2, d3, d4, k) ==
  f = <<first, Digit(d2), Digit(d3), Digit(d4), Steps[k][1], Steps[k][2]>>

LEMMA FrequencyCharacters ==
  ASSUME NEW f \in Frequencies
  PROVE  \E first \in {LetterA, Digit(2), Digit(3)}, d2 \in 0..9, d3 \in 0..9,
            d4 \in 0..9, k \in 1..4 : Spelled(f, first, d2, d3, d4, k)
<1>1. PICK first \in FirstCharacters, d2 \in Decimals, d3 \in Decimals,
           d4 \in Decimals, k \in 1..4 : f = Characters(first, d2, d3, d4, k)
  BY DEF Frequencies
<1>2. Spelled(f, first, d2, d3, d4, k)
  BY <1>1, Zenon DEF Characters, Spelled
<1>. QED
  BY <1>2, Zenon DEF FirstCharacters, Decimals

\* The three bytes apart.
LEMMA FirstByte ==
  ASSUME NEW low \in 0..1, NEW code \in 1..3, NEW d \in 0..9,
         NEW v, v = 64 * low + 16 * code + d
  PROVE  (v \div 16) % 4 = code /\ v % 16 = d /\ (v \div 64) % 2 = low
<1>1. v \div 16 = 4 * low + code /\ v % 16 = d
  OBVIOUS
<1>2. v \div 64 = low
  OBVIOUS
<1>. QED
  BY <1>1, <1>2

LEMMA SecondByte ==
  ASSUME NEW d \in 0..9, NEW high \in 0..4, NEW v, v = 8 * d + high
  PROVE  (v \div 8) % 16 = d /\ v % 8 = high
  OBVIOUS

LEMMA ThirdByte ==
  ASSUME NEW channel \in 0..31, NEW k \in 1..4,
         NEW v, v = 32 * (k - 1) + channel
  PROVE  v % 32 = channel /\ 1 + ((v \div 32) % 4) = k
  OBVIOUS

\* What the host packs into three bytes the radio unpacks, for every channel
\* and for every frequency the selectors have.
THEOREM PackingRoundTrip ==
  ASSUME NEW channel \in 0..31, NEW frequency \in Frequencies
  PROVE  decompressRadioData(compressRadioData(channel, frequency))
           = [channel |-> channel, frequency |-> frequency]
<1>1. PICK first \in {LetterA, Digit(2), Digit(3)}, d2 \in 0..9, d3 \in 0..9,
           d4 \in 0..9, k \in 1..4 : Spelled(frequency, first, d2, d3, d4, k)
  BY FrequencyCharacters
<1> DEFINE code == IF first = LetterA THEN 1 ELSE first - ASCII_OFFSET
           b == compressRadioData(channel, frequency)
<1>2. code \in 1..3 /\ first = IF code = 1 THEN LetterA ELSE Digit(code)
  BY DEF LetterA, Digit, ASCII_OFFSET
<1>3. (CHOOSE j \in 1..4 : Steps[j] = <<frequency[5], frequency[6]>>) = k
  <2>1. Steps[k] = <<frequency[5], frequency[6]>>
    BY <1>1 DEF Spelled, Steps
  <2>. QED
    BY <2>1, StepsDistinct
<1>4. b = <<64 * (d4 % 2) + 16 * code + d2, 8 * d3 + (d4 \div 2),
            32 * (k - 1) + channel>>
  <2> DEFINE d == [i \in 2..4 |-> frequency[i] - ASCII_OFFSET]
             step == CHOOSE j \in 1..4 :
                       Steps[j] = <<frequency[5], frequency[6]>>
  <2>1. frequency[1] = first /\ d[2] = d2 /\ d[3] = d3 /\ d[4] = d4
    BY <1>1 DEF Spelled, Digit, ASCII_OFFSET
  <2>2. b = <<(64 * (d[4] % 2)) + 16 * code + d[2], 8 * d[3] + (d[4] \div 2),
              32 * (step - 1) + channel>>
    BY <2>1, Zenon DEF compressRadioData
  <2> HIDE DEF d, step
  <2>. QED
    BY <1>3, <2>1, <2>2 DEF step
<1> HIDE DEF code
<1>5. /\ (b[1] \div 16) % 4 = code /\ b[1] % 16 = d2
      /\ (b[1] \div 64) % 2 = d4 % 2
  <2>1. d4 % 2 \in 0..1 /\ b[1] = 64 * (d4 % 2) + 16 * code + d2
    BY <1>4
  <2>. QED
    BY <1>2, <2>1, FirstByte
<1>6. (b[2] \div 8) % 16 = d3 /\ b[2] % 8 = d4 \div 2
  <2>1. d4 \div 2 \in 0..4 /\ b[2] = 8 * d3 + (d4 \div 2)
    BY <1>4
  <2>. QED
    BY <2>1, SecondByte
<1>7. b[3] % 32 = channel /\ 1 + ((b[3] \div 32) % 4) = k
  <2>1. b[3] = 32 * (k - 1) + channel
    BY <1>4
  <2>. QED
    BY <2>1, ThirdByte
<1> HIDE DEF b
<1>8. FourthDigit(b) = d4
  BY <1>5, <1>6 DEF FourthDigit
<1>9. decompressRadioData(b) =
        [channel |-> channel,
         frequency |-> <<IF code = 1 THEN LetterA ELSE Digit(code), Digit(d2),
                         Digit(d3), Digit(d4), Steps[k][1], Steps[k][2]>>]
  BY <1>5, <1>6, <1>7, <1>8, Zenon DEF decompressRadioData
<1>10. frequency = <<IF code = 1 THEN LetterA ELSE Digit(code), Digit(d2),
                     Digit(d3), Digit(d4), Steps[k][1], Steps[k][2]>>
  BY <1>1, <1>2, Zenon DEF Spelled
<1>. QED
  BY <1>9, <1>10, Zenon DEF b

\* The preset's block is being written.
Busy(channel) == writing.by # "none" /\ writing.slot = PresetSlot(channel)

StoreOf(rq, channel) == rq.kind = "store" /\ rq.channel = channel

\* What the host knows is in EEPROM, and nothing is under way that changes it:
\* neither a block, nor a request that it asked or gave up.
KnownAt(channel) ==
  /\ eeprom[PresetSlot(channel)] = sure[channel]
  /\ ~Busy(channel)
  /\ waiting # NoRequest => ~StoreOf(waiting, channel)
  /\ stage \in {"asked", "accepted"} => ~StoreOf(request, channel)

SureInv == \A c \in Channels : sure[c] # Unknown => KnownAt(c)

\* The host's request is done once it is in EEPROM, unless LOAD was pressed.
PipeInv ==
  /\ done => stage = "accepted" /\ waiting = NoRequest
  /\ stage = "accepted" /\ ~done => waiting = request

StoredAsAsked ==
  done /\ request.kind = "store" /\ ~loaded =>
    /\ ~Busy(request.channel)
    /\ eeprom[PresetSlot(request.channel)] = request.frequency

BlockAsAsked ==
  writing.by = "host" =>
    /\ waiting # NoRequest /\ waiting.kind = "store"
    /\ writing.slot = PresetSlot(waiting.channel)
    /\ writing.data = waiting.frequency
    /\ boot = "done"

DoneInv ==
  PipeInv /\ StoredAsAsked /\ BlockAsAsked /\ (done => boot = "done")

\* Only presets are written, and a start that got through left a mode.
PresetSlots == {PresetSlot(c) : c \in Channels}

LayoutInv ==
  /\ NetsKept
  /\ ~strayed /\ writing.by # "none" => writing.slot \in PresetSlots
  /\ ~strayed /\ (settled \/ boot = "done") => eeprom[ModeSlot][1] <= LastOpMode
  /\ ModeValid

MemoryInv == MemoryTypeOK /\ SureInv /\ DoneInv /\ LayoutInv

LEMMA SlotFacts ==
  /\ \A c \in 0..31 : PresetSlot(c) \in Slots
  /\ \A c, d \in 0..31 : PresetSlot(c) = PresetSlot(d) => c = d
  /\ ModeSlot \in Slots /\ \A c \in Channels : PresetSlot(c) # ModeSlot
  /\ Channels \subseteq 0..31 /\ 0..(MAX_FMT - 1) \subseteq Slots
  BY MemoryAssumption DEF PresetSlot, Slots, ModeSlot, Channels

LEMMA FrequencyCells ==
  Frequencies \subseteq Cells /\ Unknown \notin Frequencies
<1>1. ASSUME NEW f \in Frequencies PROVE f \in Cells /\ f # Unknown
  <2>1. PICK first \in {LetterA, Digit(2), Digit(3)}, d2 \in 0..9, d3 \in 0..9,
             d4 \in 0..9, k \in 1..4 :
          Spelled(f, first, d2, d3, d4, k)
    BY FrequencyCharacters
  <2>2. /\ \A n \in 0..9 : Digit(n) \in 0..255
        /\ Steps[k][1] \in 0..255 /\ Steps[k][2] \in 0..255
    BY DEF Digit, ASCII_OFFSET, Steps
  <2>3. first \in 0..255
    BY DEF LetterA, Digit, ASCII_OFFSET
  <2>4. PICK p2 \in 0..255, p3 \in 0..255, p4 \in 0..255 :
          p2 = Digit(d2) /\ p3 = Digit(d3) /\ p4 = Digit(d4)
    BY <2>2, Zenon
  <2>5. PICK p5 \in 0..255, p6 \in 0..255 : p5 = Steps[k][1] /\ p6 = Steps[k][2]
    BY <2>2, Zenon
  <2>6. f = <<first, p2, p3, p4, p5, p6>>
    BY <2>1, <2>4, <2>5, Zenon DEF Spelled
  <2>7. <<first, p2, p3, p4, p5, p6>> \in [1..6 -> 0..255]
    BY <2>3
  <2>8. <<first, p2, p3, p4, p5, p6>> # <<>>
    OBVIOUS
  <2>. QED
    BY <2>6, <2>7, <2>8, Zenon DEF Cells, Unknown
<1>. QED
  BY <1>1

\* What transmitToDevice gets is what the host means.
LEMMA ReceivedAsMeant ==
  ASSUME waiting \in Requests
  PROVE  Received =
           [channel |-> waiting.channel, frequency |-> waiting.frequency]
<1>1. waiting.channel \in 0..31 /\ waiting.frequency \in Frequencies
  BY DataAssumption
<1>. QED
  BY <1>1, PackingRoundTrip DEF Received

LEMMA RequestTypes ==
  ASSUME NEW rq \in Requests
  PROVE  /\ rq.kind \in {"store", "display", "other"} /\ rq.channel \in 0..31
         /\ rq.frequency \in Frequencies /\ rq.frequency \in Cells
  BY DataAssumption, FrequencyCells

LEMMA DialledCells == \A f \in Dialled : f \in Cells
  BY MemoryAssumption, FrequencyCells

LEMMA StartCells ==
  /\ Shipped \in [Slots -> Cells]
  /\ Blank \in [channel: 0..31, frequency: Cells]
  /\ NoBlock \in [slot: Slots, data: Cells, by: {"none", "host", "key"}]
  /\ NoBlock.by = "none" /\ Mixed \in Cells /\ Mixed[1] = Erased
<1>1. (CHOOSE f \in Dialled : TRUE) \in Cells
  BY MemoryAssumption, DialledCells
<1>2. ZeroFrequency \in Cells /\ [i \in 1..6 |-> Erased] \in Cells
  BY DEF ZeroFrequency, Cells, Erased
<1>3. 0 \in Slots
  BY MemoryAssumption DEF Slots
<1>4. Shipped \in [Slots -> Cells]
  BY <1>1, <1>2 DEF Shipped
<1>5. Blank \in [channel: 0..31, frequency: Cells]
  BY <1>2 DEF Blank
<1>6. /\ NoBlock \in [slot: Slots, data: Cells, by: {"none", "host", "key"}]
      /\ NoBlock.by = "none"
  BY <1>2, <1>3 DEF NoBlock
<1>. QED
  BY <1>2, <1>4, <1>5, <1>6 DEF Mixed

\* One slot is written.
LEMMA PutSlot ==
  ASSUME NEW memory \in [Slots -> Cells], NEW s \in Slots, NEW f \in Cells
  PROVE  LET new == [memory EXCEPT ![s] = f]
         IN /\ new \in [Slots -> Cells] /\ new[s] = f
            /\ \A t \in Slots : t # s => new[t] = memory[t]
  OBVIOUS

LEMMA NetIndex ==
  ASSUME NEW c \in 0..31, ~(c > MAX_CHANNELS), c > MAX_CHANNELS - MAX_FMT
  PROVE  MAX_CHANNELS - c \in 0..(MAX_FMT - 1)
  BY MemoryAssumption

LEMMA FirstCell ==
  ASSUME NEW f \in Cells
  PROVE  f[1] \in 0..255
  BY DEF Cells

LEMMA PutMode ==
  ASSUME NEW f \in Cells
  PROVE  [f EXCEPT ![1] = VEROP] \in Cells
  BY DEF Cells, VEROP

LEMMA MemoryInit == Init => MemoryInv
<1>. SUFFICES ASSUME Init PROVE MemoryInv
  OBVIOUS
<1>. USE SlotFacts DEF Init, PipeInit
<1>1. MemoryTypeOK
  <2>1. uhfFMT \in [0..(MAX_FMT - 1) -> Cells]
    BY StartCells
  <2>2. /\ loaded \in BOOLEAN /\ strayed \in BOOLEAN
        /\ settled \in BOOLEAN /\ done \in BOOLEAN
    OBVIOUS
  <2>. QED
    <3>1. /\ stage \in {"none", "asked", "accepted", "finished"}
          /\ request \in Requests
          /\ waiting \in Requests \cup {NoRequest} /\ boot \in {"write", "done"}
          /\ uhfOpMode \in 0..255
      BY DEF Erased
    <3>2. sure \in [Channels -> Frequencies \cup {Unknown}]
      OBVIOUS
    <3>3. /\ eeprom \in [Slots -> Cells]
          /\ writing \in [slot: Slots, data: Cells, by: {"none", "host", "key"}]
          /\ radio \in [channel: 0..31, frequency: Cells]
      BY StartCells
    <3>. QED
      BY <2>1, <2>2, <3>1, <3>2, <3>3, Zenon
      DEF MemoryTypeOK, PipeTypes, BlockTypes, RadioTypes, HistoryTypes
<1>2. SureInv /\ DoneInv /\ LayoutInv
  BY StartCells
  DEF SureInv, DoneInv, LayoutInv, PipeInv, StoredAsAsked, BlockAsAsked,
     NetsKept, ModeValid
<1>. QED
  BY <1>1, <1>2 DEF MemoryInv

LEMMA PipeTypeStep ==
  ASSUME PipeTypes, [Next]_vars
  PROVE  PipeTypes'
<1>1. PipeNext \/ UNCHANGED pipeVars
  BY DEF Next, vars, PipeNext, AskRequest, PassRequest, FinishRequest,
         BeginStore, EndStore, DisplayData, OtherRequest, Dial, SelectMode,
         BeginLoad, EndLoad, Status, WriteMode, PowerLoss
<1>. QED
  BY <1>1 DEF PipeTypes, pipeVars, PipeNext, Ask, Accept, CarryOut, Finish,
              Abandon, PowerUp

LEMMA CellsStep ==
  ASSUME eeprom \in [Slots -> Cells], BlockTypes, [Next]_vars
  PROVE  eeprom' \in [Slots -> Cells]
<1>1. writing.slot \in Slots /\ writing.data \in Cells
  BY DEF BlockTypes
<1>2. CASE UNCHANGED eeprom
  BY <1>2
<1>3. CASE Written
  BY <1>1, <1>3, PutSlot DEF Written
<1>4. CASE WriteMode
  <2>1. eeprom[ModeSlot] \in Cells
    BY SlotFacts
  <2>2. [eeprom[ModeSlot] EXCEPT ![1] = VEROP] \in Cells
    BY <2>1, PutMode
  <2>. QED
    BY <1>4, <2>2 DEF WriteMode
<1>5. CASE PowerLoss
  <2>1. CASE writing.by = "none"
    BY <1>5, <2>1 DEF PowerLoss
  <2>2. CASE writing.by # "none"
    <3>1. eeprom[writing.slot] \in Cells
      BY <1>1
    <3>2. PICK t \in Torn(eeprom[writing.slot], writing.data) :
            eeprom' = [eeprom EXCEPT ![writing.slot] = t]
      BY <1>5, <2>2 DEF PowerLoss
    <3>3. t \in Cells
      BY <1>1, <3>1, StartCells DEF Torn
    <3>. QED
      BY <1>1, <3>2, <3>3, PutSlot
  <2>. QED
    BY <2>1, <2>2
<1>. QED
  BY <1>2, <1>3, <1>4, <1>5
  DEF Next, vars, memoryVars, AskRequest, PassRequest, FinishRequest,
      BeginStore, EndStore, DisplayData, OtherRequest, Dial, SelectMode,
      BeginLoad, EndLoad, Status

LEMMA BlockTypeStep ==
  ASSUME BlockTypes, PipeTypes, RadioTypes, [Next]_vars
  PROVE  BlockTypes'
<1>1. CASE UNCHANGED writing
  BY <1>1 DEF BlockTypes
<1>2. CASE writing' = NoBlock
  BY <1>2, StartCells DEF BlockTypes
<1>3. CASE BeginStore
  <2>1. waiting \in Requests
    BY <1>3 DEF BeginStore, Carrying, PipeTypes
  <2>2. Received.channel \in 0..31 /\ Received.frequency \in Cells
    BY <2>1, ReceivedAsMeant, RequestTypes
  <2>. QED
    BY <1>3, <2>2, SlotFacts
    DEF BeginStore, writePresetFreq2eeprom, BlockTypes
<1>4. CASE BeginLoad
  <2>1. radio.channel \in 0..31 /\ radio.frequency \in Cells
    BY DEF RadioTypes
  <2>. QED
    BY <1>4, <2>1, SlotFacts DEF BeginLoad, writePresetFreq2eeprom, BlockTypes
<1>. QED
  BY <1>1, <1>2, <1>3, <1>4
  DEF Next, vars, memoryVars, AskRequest, PassRequest, FinishRequest,
      EndStore, DisplayData, OtherRequest, Dial, SelectMode, EndLoad, Status,
      WriteMode, PowerLoss, StartUp

LEMMA RadioTypeStep ==
  ASSUME RadioTypes, PipeTypes, eeprom \in [Slots -> Cells], BlockTypes,
         [Next]_vars
  PROVE  RadioTypes'
<1>1. radio.channel \in 0..31
  BY DEF RadioTypes
<1>2. CASE UNCHANGED <<radio, uhfFMT, uhfOpMode>> /\ boot' \in {boot, "done"}
  BY <1>2 DEF RadioTypes
<1>3. ASSUME radio' \in [channel: 0..31, frequency: Cells],
             UNCHANGED <<uhfFMT, uhfOpMode, boot>>
      PROVE  RadioTypes'
  BY <1>3 DEF RadioTypes
<1>4. CASE DisplayData
  <2>1. waiting \in Requests
    BY <1>4 DEF DisplayData, Carrying, PipeTypes
  <2>2. Received \in [channel: 0..31, frequency: Cells]
    BY <2>1, ReceivedAsMeant, RequestTypes
  <2>. QED
    BY <1>3, <1>4, <2>2 DEF DisplayData
<1>5. CASE Dial
  <2>1. PICK c \in Channels \cup {0}, f \in Dialled :
          radio' = [channel |-> c, frequency |-> f]
    BY <1>5 DEF Dial
  <2>2. radio' \in [channel: 0..31, frequency: Cells]
    BY <2>1, SlotFacts, DialledCells
  <2>. QED
    BY <1>3, <1>5, <2>2 DEF Dial
<1>6. CASE SelectMode
  <2>1. LoadMode \in 0..255
    BY DEF LoadMode, VEROP, RadioTypes
  <2>. QED
    BY <1>6, <2>1 DEF SelectMode, RadioTypes
<1>7. CASE Status
  <2>1. eeprom[PresetSlot(radio.channel)] \in Cells
    BY <1>1, SlotFacts
  <2>2. CASE radio.frequency[1] # LetterA
    <3>1. radio' = [radio EXCEPT !.frequency =
                                   eeprom[PresetSlot(radio.channel)]]
      BY <1>7, <2>2 DEF Status
    <3>2. radio' \in [channel: 0..31, frequency: Cells]
      BY <2>1, <3>1 DEF RadioTypes
    <3>. QED
      BY <1>3, <1>7, <3>2 DEF Status
  <2>3. CASE radio.frequency[1] = LetterA /\ radio.channel > MAX_CHANNELS
    <3>1. PICK f \in Dialled : radio' = [radio EXCEPT !.frequency = f]
      BY <1>7, <2>3 DEF Status
    <3>. QED
      BY <1>3, <1>7, <3>1, DialledCells DEF Status, RadioTypes
  <2>4. CASE radio.frequency[1] = LetterA /\ ~(radio.channel > MAX_CHANNELS)
    <3>1. CASE radio.channel > MAX_CHANNELS - MAX_FMT
      <4>1. MAX_CHANNELS - radio.channel \in 0..(MAX_FMT - 1)
        BY <1>1, <2>4, <3>1, NetIndex
      <4>2. uhfFMT[MAX_CHANNELS - radio.channel] \in Cells
        BY <4>1 DEF RadioTypes
      <4>3. radio' = [radio EXCEPT !.frequency
                        = uhfFMT[MAX_CHANNELS - radio.channel]]
        BY <1>7, <2>4, <3>1 DEF Status
      <4>. QED
        BY <1>3, <1>7, <4>2, <4>3 DEF Status, RadioTypes
    <3>2. CASE ~(radio.channel > MAX_CHANNELS - MAX_FMT)
      BY <1>2, <1>7, <2>4, <3>2 DEF Status
    <3>. QED
      BY <3>1, <3>2
  <2>. QED
    BY <2>2, <2>3, <2>4
<1>8. CASE PowerLoss
  <2>1. eeprom' \in [Slots -> Cells]
    BY CellsStep
  <2>2. \A n \in 0..(MAX_FMT - 1) : eeprom'[n] \in Cells
    BY <2>1, SlotFacts
  <2>3. eeprom'[ModeSlot] \in Cells
    BY <2>1, SlotFacts
  <2>4. eeprom'[ModeSlot][1] \in 0..255
    BY <2>3, FirstCell
  <2>5. /\ uhfFMT' = [n \in 0..(MAX_FMT - 1) |-> eeprom'[n]]
        /\ uhfOpMode' = eeprom'[ModeSlot][1]
        /\ boot' \in {"write", "done"} /\ radio' = Blank
    BY <1>8 DEF PowerLoss, StartUp
  <2>6. uhfFMT' \in [0..(MAX_FMT - 1) -> Cells]
    BY <2>2, <2>5
  <2>. QED
    BY <2>4, <2>5, <2>6, StartCells DEF RadioTypes
<1>. QED
  BY <1>2, <1>4, <1>5, <1>6, <1>7, <1>8
  DEF Next, vars, memoryVars, AskRequest, PassRequest, FinishRequest,
      BeginStore, EndStore, OtherRequest, BeginLoad, EndLoad, WriteMode

LEMMA HistoryTypeStep ==
  ASSUME HistoryTypes, PipeTypes, [Next]_vars
  PROVE  HistoryTypes'
<1>1. \/ UNCHANGED sure
      \/ \E c : Forget(c)
      \/ sure' = [c \in Channels |-> IF c = request.channel
                                       THEN request.frequency ELSE sure[c]]
  BY DEF Next, vars, historyVars, AskRequest, PassRequest, FinishRequest,
         BeginStore, EndStore, DisplayData, OtherRequest, Dial, SelectMode,
         BeginLoad, EndLoad, Status, WriteMode, PowerLoss
<1>2. request.frequency \in Frequencies
  BY RequestTypes DEF PipeTypes
<1>3. sure' \in [Channels -> Frequencies \cup {Unknown}]
  BY <1>1, <1>2 DEF HistoryTypes, Forget
<1>4. /\ loaded' \in {loaded, FALSE}
         \/ loaded' = (loaded \/ radio.channel = request.channel)
      /\ strayed' = strayed
         \/ \E data : strayed' = (strayed \/ data.channel \notin Channels)
      /\ settled' = settled \/ settled' = (settled \/ boot = "done")
  BY DEF Next, vars, historyVars, AskRequest, PassRequest, FinishRequest,
         BeginStore, EndStore, DisplayData, OtherRequest, Dial, SelectMode,
         BeginLoad, EndLoad, Status, WriteMode, PowerLoss,
         writePresetFreq2eeprom
<1>. QED
  BY <1>3, <1>4 DEF HistoryTypes

LEMMA MemoryTypeStep ==
  ASSUME MemoryTypeOK, [Next]_vars
  PROVE  MemoryTypeOK'
  BY PipeTypeStep, CellsStep, BlockTypeStep, RadioTypeStep, HistoryTypeStep
  DEF MemoryTypeOK

LEMMA SureStep ==
  ASSUME MemoryTypeOK, SureInv, DoneInv, [Next]_vars
  PROVE  SureInv'
<1>. SUFFICES ASSUME NEW c \in Channels, sure'[c] # Unknown
              PROVE  KnownAt(c)'
  BY DEF SureInv, KnownAt, Busy
<1>. DEFINE p == PresetSlot(c)
<1>1. c \in 0..31 /\ p \in Slots /\ p # ModeSlot
  BY SlotFacts
<1>2. sure[c] # Unknown => KnownAt(c)
  BY DEF SureInv
<1>3. /\ eeprom \in [Slots -> Cells] /\ writing.slot \in Slots
      /\ waiting \in Requests \cup {NoRequest} /\ request \in Requests
      /\ radio.channel \in 0..31
  BY DEF MemoryTypeOK, PipeTypes, BlockTypes, RadioTypes
<1>4. NoBlock.by = "none"
  BY StartCells
\* Nothing but the request moves.
<1>5. ASSUME sure[c] = sure'[c], eeprom'[p] = eeprom[p],
             UNCHANGED writing \/ writing' = NoBlock,
             \/ waiting' = waiting
             \/ waiting' = NoRequest
             \/ waiting' = request /\ stage \in {"asked", "accepted"},
             stage' \in {"asked", "accepted"} =>
               stage \in {"asked", "accepted"} /\ UNCHANGED request
      PROVE  KnownAt(c)'
  BY <1>2, <1>4, <1>5 DEF KnownAt, Busy, StoreOf
<1>6. ASSUME NEW rq \in Requests, AskRequest(rq) PROVE KnownAt(c)'
  <2>1. sure[c] = sure'[c] /\ ~StoreOf(rq, c)
    BY <1>6 DEF AskRequest, Forget, StoreOf
  <2>. QED
    BY <1>2, <1>6, <2>1 DEF AskRequest, Ask, KnownAt, Busy, StoreOf, memoryVars
<1>7. CASE PassRequest
  BY <1>5, <1>7 DEF PassRequest, Accept, Abandon, memoryVars, historyVars
<1>8. CASE FinishRequest
  <2>1. CASE request.kind = "store" /\ ~loaded /\ c = request.channel
    <3>1. done /\ sure'[c] = request.frequency
      BY <1>8, <2>1 DEF FinishRequest, Finish
    <3>2. waiting = NoRequest /\ ~Busy(c) /\ eeprom[p] = request.frequency
      BY <2>1, <3>1 DEF DoneInv, PipeInv, StoredAsAsked
    <3>. QED
      BY <1>8, <3>1, <3>2 DEF FinishRequest, Finish, KnownAt, Busy, memoryVars
  <2>2. CASE ~(request.kind = "store" /\ ~loaded /\ c = request.channel)
    <3>1. sure[c] = sure'[c]
      BY <1>8, <2>2 DEF FinishRequest
    <3>. QED
      BY <1>5, <1>8, <3>1 DEF FinishRequest, Finish, memoryVars
  <2>. QED
    BY <2>1, <2>2
<1>9. CASE BeginStore
  <2>1. sure[c] = sure'[c] /\ UNCHANGED <<pipeVars, eeprom>>
    BY <1>9 DEF BeginStore
  <2>2. waiting \in Requests /\ waiting.kind = "store"
    BY <1>3, <1>9 DEF BeginStore, Carrying
  <2>3. writing'.slot = PresetSlot(waiting.channel)
    BY <1>9, <2>2, ReceivedAsMeant DEF BeginStore, writePresetFreq2eeprom
  <2>4. waiting.channel # c /\ waiting.channel \in 0..31
    BY <1>2, <2>1, <2>2, RequestTypes, PipeAssumption DEF KnownAt, StoreOf
  <2>5. writing'.slot # p
    BY <1>1, <2>3, <2>4, SlotFacts
  <2>. QED
    BY <1>2, <2>1, <2>5 DEF KnownAt, Busy, pipeVars
<1>10. CASE EndStore
  <2>1. writing.slot # p
    BY <1>2, <1>10 DEF EndStore, KnownAt, Busy, historyVars
  <2>2. eeprom'[p] = eeprom[p]
    BY <1>1, <1>3, <1>10, <2>1 DEF EndStore, Written
  <2>. QED
    BY <1>5, <1>10, <2>2 DEF EndStore, CarryOut, historyVars
<1>11. CASE DisplayData \/ OtherRequest
  BY <1>5, <1>11
  DEF DisplayData, OtherRequest, CarryOut, memoryVars, historyVars
<1>12. CASE Dial \/ SelectMode \/ Status
  BY <1>5, <1>12 DEF Dial, SelectMode, Status, pipeVars, historyVars
<1>13. CASE BeginLoad
  <2>1. sure[c] = sure'[c] /\ radio.channel # c
    BY <1>13 DEF BeginLoad, Forget
  <2>2. writing'.slot # p
    BY <1>1, <1>3, <1>13, <2>1, SlotFacts DEF BeginLoad, writePresetFreq2eeprom
  <2>. QED
    BY <1>2, <1>13, <2>1, <2>2 DEF BeginLoad, KnownAt, Busy, pipeVars
<1>14. CASE EndLoad
  <2>1. writing.slot # p
    BY <1>2, <1>14 DEF EndLoad, KnownAt, Busy, historyVars
  <2>2. eeprom'[p] = eeprom[p]
    BY <1>1, <1>3, <1>14, <2>1 DEF EndLoad, Written
  <2>. QED
    BY <1>5, <1>14, <2>2 DEF EndLoad, pipeVars, historyVars
<1>15. CASE WriteMode
  <2>1. eeprom'[p] = eeprom[p]
    BY <1>1, <1>3, <1>15 DEF WriteMode
  <2>. QED
    BY <1>5, <1>15, <2>1 DEF WriteMode, pipeVars, historyVars
<1>16. CASE PowerLoss
  <2>1. sure[c] = sure'[c] /\ writing' = NoBlock
    BY <1>16 DEF PowerLoss, StartUp
  <2>2. eeprom'[p] = eeprom[p]
    <3>1. CASE writing.by = "none"
      BY <1>16, <3>1 DEF PowerLoss
    <3>2. CASE writing.by # "none"
      <4>1. writing.slot # p
        BY <1>2, <2>1, <3>2 DEF KnownAt, Busy
      <4>. QED
        BY <1>1, <1>3, <1>16, <3>2, <4>1 DEF PowerLoss
    <3>. QED
      BY <3>1, <3>2
  <2>. QED
    BY <1>5, <1>16, <2>1, <2>2 DEF PowerLoss, PowerUp
<1>17. CASE UNCHANGED vars
  BY <1>5, <1>17 DEF vars, pipeVars, memoryVars, historyVars
<1>. QED
  BY <1>6, <1>7, <1>8, <1>9, <1>10, <1>11, <1>12, <1>13, <1>14, <1>15, <1>16,
     <1>17 DEF Next

LEMMA DoneStep ==
  ASSUME MemoryTypeOK, DoneInv, [Next]_vars
  PROVE  DoneInv'
<1>1. /\ eeprom \in [Slots -> Cells] /\ writing.slot \in Slots
      /\ waiting \in Requests \cup {NoRequest} /\ request \in Requests
      /\ radio.channel \in 0..31 /\ request.channel \in 0..31
      /\ writing.by \in {"none", "host", "key"} /\ writing.data \in Cells
  BY RequestTypes DEF MemoryTypeOK, PipeTypes, BlockTypes, RadioTypes
<1>2. NoBlock.by = "none" /\ PresetSlot(request.channel) \in Slots
  BY <1>1, StartCells, SlotFacts
\* Nothing but the host's part of the pipe moves, and nothing is done.
<1>3. ASSUME PipeInv', ~done', UNCHANGED writing \/ writing' = NoBlock,
             UNCHANGED <<waiting, boot>> \/ waiting = NoRequest
               \/ writing' = NoBlock
      PROVE  DoneInv'
  BY <1>2, <1>3 DEF DoneInv, StoredAsAsked, BlockAsAsked
\* Nothing moves that DoneInv is about.
<1>4. ASSUME UNCHANGED <<pipeVars, eeprom, writing, boot, loaded>>
      PROVE  DoneInv'
  BY <1>4 DEF DoneInv, PipeInv, StoredAsAsked, BlockAsAsked, Busy, pipeVars
<1>5. ASSUME NEW rq \in Requests, AskRequest(rq) PROVE DoneInv'
  BY <1>3, <1>5 DEF AskRequest, Ask, memoryVars, DoneInv, PipeInv
<1>6. CASE PassRequest
  BY <1>3, <1>6 DEF PassRequest, Accept, Abandon, memoryVars, DoneInv, PipeInv
<1>7. CASE FinishRequest
  BY <1>3, <1>7 DEF FinishRequest, Finish, memoryVars, DoneInv, PipeInv
<1>8. CASE BeginStore
  <2>1. UNCHANGED <<pipeVars, eeprom, boot, loaded>> /\ boot = "done"
    BY <1>8 DEF BeginStore, Polling
  <2>2. waiting \in Requests /\ waiting.kind = "store" /\ waiting # NoRequest
    BY <1>1, <1>8 DEF BeginStore, Carrying
  <2>3. /\ writing'.slot = PresetSlot(waiting.channel)
        /\ writing'.data = waiting.frequency
    BY <1>8, <2>2, ReceivedAsMeant DEF BeginStore, writePresetFreq2eeprom
  <2>. QED
    BY <2>1, <2>2, <2>3 DEF DoneInv, PipeInv, StoredAsAsked, BlockAsAsked,
       pipeVars
<1>9. CASE EndStore
  <2>1. CarryOut /\ writing' = NoBlock /\ UNCHANGED <<boot, loaded>>
    BY <1>9 DEF EndStore, historyVars
  <2>2. PipeInv' /\ BlockAsAsked'
    BY <1>2, <2>1 DEF CarryOut, DoneInv, PipeInv, BlockAsAsked
  <2>3. StoredAsAsked'
    <3>1. CASE done' /\ request.kind = "store"
      <4>1. waiting = request
        BY <2>1, <3>1 DEF CarryOut, DoneInv, PipeInv
      <4>2. /\ writing.slot = PresetSlot(request.channel)
            /\ writing.data = request.frequency
        BY <1>9, <4>1 DEF EndStore, DoneInv, BlockAsAsked
      <4>3. eeprom'[PresetSlot(request.channel)] = request.frequency
        BY <1>1, <1>9, <4>2 DEF EndStore, Written
      <4>. QED
        BY <1>2, <2>1, <4>3 DEF CarryOut, StoredAsAsked, Busy
    <3>2. CASE ~(done' /\ request.kind = "store")
      BY <2>1, <3>2 DEF CarryOut, StoredAsAsked
    <3>. QED
      BY <3>1, <3>2
  <2>4. boot = "done"
    BY <1>9 DEF EndStore, DoneInv, BlockAsAsked
  <2>. QED
    BY <2>1, <2>2, <2>3, <2>4 DEF DoneInv
<1>10. CASE DisplayData \/ OtherRequest
  <2>1. /\ CarryOut /\ Polling /\ UNCHANGED <<boot, writing, eeprom>>
        /\ waiting # NoRequest /\ waiting.kind # "store"
    BY <1>10 DEF DisplayData, OtherRequest, Carrying, memoryVars
  <2>2. PipeInv' /\ BlockAsAsked'
    BY <2>1 DEF CarryOut, DoneInv, PipeInv, BlockAsAsked, Polling
  <2>3. StoredAsAsked'
    BY <2>1 DEF CarryOut, DoneInv, PipeInv, StoredAsAsked
  <2>. QED
    BY <2>1, <2>2, <2>3 DEF DoneInv, Polling
<1>11. CASE Dial \/ SelectMode \/ Status
  BY <1>4, <1>11 DEF Dial, SelectMode, Status, historyVars
<1>12. CASE BeginLoad
  <2>1. UNCHANGED <<pipeVars, eeprom, boot>> /\ writing'.by = "key"
    BY <1>12 DEF BeginLoad, writePresetFreq2eeprom
  <2>2. ~loaded' => ~loaded /\ radio.channel # request.channel
    BY <1>12 DEF BeginLoad
  <2>3. ~loaded' => writing'.slot # PresetSlot(request.channel)
    BY <1>1, <1>12, <2>2, SlotFacts DEF BeginLoad, writePresetFreq2eeprom
  <2>. QED
    BY <2>1, <2>2, <2>3 DEF DoneInv, PipeInv, StoredAsAsked, BlockAsAsked,
       Busy, pipeVars
<1>13. CASE EndLoad
  <2>1. UNCHANGED <<pipeVars, boot, loaded>> /\ writing' = NoBlock
    BY <1>13 DEF EndLoad, historyVars
  <2>2. \A s \in Slots : s # writing.slot => eeprom'[s] = eeprom[s]
    BY <1>1, <1>13, PutSlot DEF EndLoad, Written
  <2>3. PipeInv' /\ BlockAsAsked'
    BY <1>2, <2>1 DEF DoneInv, PipeInv, BlockAsAsked, pipeVars
  <2>4. StoredAsAsked'
    BY <1>2, <1>13, <2>1, <2>2 DEF DoneInv, StoredAsAsked, Busy, pipeVars,
       EndLoad
  <2>. QED
    BY <2>1, <2>3, <2>4 DEF DoneInv, pipeVars
<1>14. CASE WriteMode
  <2>1. ~done
    BY <1>14 DEF WriteMode, DoneInv
  <2>. QED
    BY <1>14, <2>1 DEF WriteMode, DoneInv, PipeInv, StoredAsAsked,
       BlockAsAsked, pipeVars
<1>15. CASE PowerLoss
  BY <1>3, <1>15 DEF PowerLoss, PowerUp, StartUp, PipeInv
<1>16. CASE UNCHANGED vars
  BY <1>4, <1>16 DEF vars, memoryVars, historyVars
<1>. QED
  BY <1>5, <1>6, <1>7, <1>8, <1>9, <1>10, <1>11, <1>12, <1>13, <1>14, <1>15,
     <1>16 DEF Next

LEMMA LayoutStep ==
  ASSUME MemoryTypeOK, LayoutInv, [Next]_vars
  PROVE  LayoutInv'
<1>1. /\ eeprom \in [Slots -> Cells] /\ writing.slot \in Slots
      /\ radio.channel \in 0..31 /\ writing.data \in Cells
      /\ uhfOpMode \in 0..255
  BY DEF MemoryTypeOK, BlockTypes, RadioTypes
<1>2. /\ NoBlock.by = "none" /\ ModeSlot \notin PresetSlots
      /\ ModeSlot \in Slots
  BY StartCells, SlotFacts DEF PresetSlots
\* Nothing moves that LayoutInv is about.
<1>3. ASSUME UNCHANGED <<eeprom, writing, boot, strayed, settled>>,
             UNCHANGED uhfOpMode \/ uhfOpMode' <= LastOpMode
      PROVE  LayoutInv'
  BY <1>3 DEF LayoutInv, NetsKept, ModeValid
\* A preset is written.
<1>4. ASSUME ~strayed =>
               \A s \in Slots \ PresetSlots : eeprom'[s] = eeprom[s],
             UNCHANGED strayed
      PROVE  /\ NetsKept'
             /\ ~strayed => eeprom'[ModeSlot] = eeprom[ModeSlot]
  BY <1>2, <1>4 DEF LayoutInv, NetsKept, PresetSlots
<1>5. ASSUME NEW rq \in Requests, AskRequest(rq) PROVE LayoutInv'
  BY <1>3, <1>5 DEF AskRequest, memoryVars
<1>6. CASE PassRequest \/ FinishRequest
  BY <1>3, <1>6 DEF PassRequest, FinishRequest, memoryVars, historyVars
<1>7. CASE BeginStore
  <2>1. /\ UNCHANGED <<eeprom, boot, settled, uhfOpMode>>
        /\ writePresetFreq2eeprom(Received, "host")
    BY <1>7 DEF BeginStore
  <2>2. ~strayed' => ~strayed /\ writing'.slot \in PresetSlots
    BY <2>1 DEF writePresetFreq2eeprom, PresetSlots
  <2>. QED
    BY <2>1, <2>2 DEF LayoutInv, NetsKept, ModeValid
<1>8. CASE BeginLoad
  <2>1. /\ UNCHANGED <<eeprom, boot, settled, uhfOpMode>>
        /\ writePresetFreq2eeprom(radio, "key")
    BY <1>8 DEF BeginLoad
  <2>2. ~strayed' => ~strayed /\ writing'.slot \in PresetSlots
    BY <2>1 DEF writePresetFreq2eeprom, PresetSlots
  <2>. QED
    BY <2>1, <2>2 DEF LayoutInv, NetsKept, ModeValid
<1>9. CASE EndStore \/ EndLoad
  <2>1. /\ Written /\ writing' = NoBlock /\ writing.by # "none"
        /\ UNCHANGED <<boot, strayed, settled, uhfOpMode>>
    BY <1>9 DEF EndStore, EndLoad, historyVars
  <2>2. \A s \in Slots : s # writing.slot => eeprom'[s] = eeprom[s]
    BY <1>1, <2>1, PutSlot DEF Written
  <2>3. ~strayed => \A s \in Slots \ PresetSlots : eeprom'[s] = eeprom[s]
    BY <2>1, <2>2 DEF LayoutInv
  <2>. QED
    BY <1>2, <1>4, <2>1, <2>3 DEF LayoutInv, ModeValid
<1>10. CASE DisplayData \/ OtherRequest
  BY <1>3, <1>10 DEF DisplayData, OtherRequest, memoryVars, historyVars
<1>11. CASE Dial \/ Status
  BY <1>3, <1>11 DEF Dial, Status, historyVars
<1>12. CASE SelectMode
  <2>1. uhfOpMode' <= LastOpMode \/ uhfOpMode' = uhfOpMode
    BY <1>12 DEF SelectMode, LoadMode, LastOpMode, VEROP
  <2>2. ModeValid => ModeValid'
    BY <1>12, <2>1 DEF SelectMode, ModeValid, historyVars
  <2>. QED
    BY <1>12, <2>2
    DEF SelectMode, LayoutInv, NetsKept, historyVars
<1>13. CASE WriteMode
  <2>1. /\ eeprom' = [eeprom EXCEPT ![ModeSlot][1] = VEROP]
        /\ UNCHANGED <<writing, strayed, settled, uhfOpMode>>
    BY <1>13 DEF WriteMode, historyVars
  <2>2. eeprom[ModeSlot] \in Cells /\ Shipped[ModeSlot] \in Cells
    BY <1>1, <1>2, StartCells
  <2>3. /\ eeprom'[ModeSlot] = [eeprom[ModeSlot] EXCEPT ![1] = VEROP]
        /\ \A s \in Slots : s # ModeSlot => eeprom'[s] = eeprom[s]
    BY <1>1, <1>2, <2>1
  <2>4. eeprom'[ModeSlot][1] <= LastOpMode
    BY <2>2, <2>3 DEF Cells, LastOpMode, VEROP
  <2>5. ~strayed => eeprom'[ModeSlot] = [Shipped[ModeSlot] EXCEPT ![1] = VEROP]
    <3>1. ~strayed => \/ eeprom[ModeSlot] = Shipped[ModeSlot]
                      \/ eeprom[ModeSlot]
                           = [Shipped[ModeSlot] EXCEPT ![1] = VEROP]
      BY <1>2 DEF LayoutInv, NetsKept, PresetSlots
    <3>. QED
      BY <2>2, <2>3, <3>1 DEF Cells
  <2>6. NetsKept'
    BY <2>1, <2>3, <2>5 DEF LayoutInv, NetsKept
  <2>. QED
    BY <2>1, <2>4, <2>6 DEF LayoutInv, ModeValid
<1>14. CASE PowerLoss
  <2>1. /\ writing' = NoBlock /\ UNCHANGED strayed
        /\ settled' = (settled \/ boot = "done")
        /\ uhfOpMode' = eeprom'[ModeSlot][1]
        /\ boot' = IF eeprom'[ModeSlot][1] > LastOpMode THEN "write"
                                                          ELSE "done"
    BY <1>14 DEF PowerLoss, StartUp
  <2>2. ~strayed => \A s \in Slots \ PresetSlots : eeprom'[s] = eeprom[s]
    <3>1. CASE writing.by = "none"
      BY <1>14, <3>1 DEF PowerLoss
    <3>2. CASE writing.by # "none" /\ ~strayed
      BY <1>1, <1>14, <3>2 DEF PowerLoss, LayoutInv
    <3>. QED
      BY <3>1, <3>2
  <2>3. /\ NetsKept'
        /\ ~strayed => eeprom'[ModeSlot] = eeprom[ModeSlot]
    BY <1>4, <2>1, <2>2
  <2>4. ~strayed /\ settled' => eeprom'[ModeSlot][1] <= LastOpMode
    BY <2>1, <2>3 DEF LayoutInv
  <2>5. ~strayed /\ boot' = "done" => eeprom'[ModeSlot][1] <= LastOpMode
    <3>1. ~strayed => eeprom'[ModeSlot][1] \in 0..255
      BY <1>1, <1>2, <2>3, FirstCell
    <3>. QED
      BY <2>1, <3>1 DEF LastOpMode
  <2>. QED
    BY <1>2, <2>1, <2>3, <2>4, <2>5 DEF LayoutInv, ModeValid
<1>15. CASE UNCHANGED vars
  BY <1>3, <1>15 DEF vars, memoryVars, historyVars
<1>. QED
  BY <1>5, <1>6, <1>7, <1>8, <1>9, <1>10, <1>11, <1>12, <1>13, <1>14, <1>15
     DEF Next

LEMMA MemoryAlways == Spec => []MemoryInv
<1>1. MemoryInv /\ [Next]_vars => MemoryInv'
  BY MemoryTypeStep, SureStep, DoneStep, LayoutStep DEF MemoryInv
<1>. QED
  BY <1>1, MemoryInit, PTL DEF Spec

\* Every block that is written lies in EEPROM and every byte is one, for every
\* channel the host can name.
THEOREM MemoryTypes == Spec => []MemoryTypeOK
<1>1. MemoryInv => MemoryTypeOK
  BY DEF MemoryInv
<1>. QED
  BY <1>1, MemoryAlways, PTL

\* A host that was told of the end of its request finds the preset in EEPROM.
THEOREM PresetsKnown == Spec => []PresetKnown
<1>1. MemoryInv => PresetKnown
  BY DEF MemoryInv, SureInv, KnownAt, PresetKnown
<1>. QED
  BY <1>1, MemoryAlways, PTL

\* Without a channel 0 or beyond the last, the nets stay as shipped.
THEOREM NetsAlwaysKept == Spec => []NetsKept
<1>1. MemoryInv => NetsKept
  BY DEF MemoryInv, LayoutInv
<1>. QED
  BY <1>1, MemoryAlways, PTL

\* After the first start that got through, a start finds a mode there is.
THEOREM ModeAlwaysValid == Spec => []ModeValid
<1>1. MemoryInv => ModeValid
  BY DEF MemoryInv, LayoutInv
<1>. QED
  BY <1>1, MemoryAlways, PTL
=============================================================================
