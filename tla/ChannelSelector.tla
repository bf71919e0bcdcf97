-------------------------- MODULE ChannelSelector --------------------------
(***************************************************************************)
(* The channel selector: five contacts in one row of the matrix carry a    *)
(* Gray code of the twenty channels.  readChannel debounces each contact   *)
(* on its own when the scan comes to that row, get_channel reports the     *)
(* code once when it has changed, and processChannel tells the simulator   *)
(* by a stroke up or down.  A round of the scan is one pass for the        *)
(* selector's row, where the code may change, and the other passes, where  *)
(* keys are handled; forcedReadFreq ends a round early and leaves the      *)
(* multiplexer at a frequency row for the next reading.  The host may set  *)
(* the channel that is shown at the start of any pass.                     *)
(***************************************************************************)
EXTENDS Integers, FiniteSetsExt

CONSTANTS Stops,     \* positions the knob has in this instance
          Strays,    \* sets of contacts that other rows may show as closed
          HostChannels,  \* channels the host's data carries
          MaxWrong   \* readings of another row, one after the other

Contacts == 1..5   \* MASK_CHANNEL: bits of KEY_PIN
Channels == 1..20

\* Two calls of forcedReadFreq can follow each other: setManual's, and that of
\* setUhfOn, from the power switch or in the first run.  Each key has to be
\* released and pressed again for the next time.  An o typed at the serial
\* terminal is a third; more of them in one round are not modelled.
ASSUME SelectorAssumption ==
  /\ Stops \subseteq Channels /\ Strays \subseteq SUBSET Contacts
  /\ HostChannels \subseteq 0..31 /\ MaxWrong \in 0..3

VARIABLES
  position,            \* of the knob
  turned,              \* since the last reading
  mux,                 \* "here": the selector's row, or "elsewhere"
  pc,                  \* "select": the next pass reads the row; or "handle"
  ct0, ct1,            \* bits of the counters, as sets of contacts
  chan_state,          \* contacts that are debounced as open
  prev_val,            \* contacts that were closed in the last code
  FUSEL,
  channel,             \* radio.channel, 0 is blank
  channelMemory,
  pending,             \* host data that processChannel has not come to
  wrong,               \* readings of another row since the last of this one
  hostLast,            \* history: the host set another channel than the
                       \* radio's, and no code was heard since
  recent,              \* history: positions at the three last readings
  strayed,             \* a reading of another row may be in a counter
  careful              \* the knob was turned in preset mode only, and only
                       \* when the radio showed its position, and the host
                       \* never set another channel than the radio's

debouncer == <<ct0, ct1, chan_state>>
radio == <<FUSEL, channel, channelMemory>>
host == <<pending, hostLast>>
vars == <<position, turned, mux, pc, debouncer, prev_val, radio, host, recent,
          wrong, strayed, careful>>

\* Contacts that are closed at each position.
MASK_CH ==
  <<{1}, {1, 2}, {2}, {2, 3}, {1, 2, 3}, {1, 3}, {3}, {3, 4}, {1, 3, 4},
    {1, 2, 3, 4}, {2, 3, 4}, {2, 4}, {1, 2, 4}, {1, 4}, {4}, {4, 5},
    {1, 4, 5}, {1, 2, 4, 5}, {2, 4, 5}, {2, 3, 4, 5}>>

\* forcedReadUhfState has read the row once; the counters start at a value
\* that lets one reading through.
Init ==
  /\ position \in Stops /\ turned = FALSE
  /\ mux = "elsewhere" /\ pc = "handle"
  /\ ct0 = Contacts /\ ct1 = Contacts
  /\ chan_state = Contacts \ MASK_CH[position] /\ prev_val = {}
  /\ FUSEL \in {"MNL", "PRESET", "GUARD"} /\ channel = 0 /\ channelMemory = 0
  /\ recent = [i \in 1..3 |-> position]
  /\ pending = FALSE /\ hostLast = FALSE
  /\ wrong = 0 /\ strayed = FALSE /\ careful = TRUE

-----------------------------------------------------------------------------
\* What readChannel may read.
Reading == IF mux = "here" THEN {MASK_CH[position]} ELSE Strays

\* Variant: the counters are not reset.
NextCt0Unreset(changed) == Contacts \ ct0

\* reset or count
NextCt0(changed) == Contacts \ (ct0 \cap changed)
NextCt1(changed) == SymDiff(NextCt0(changed), ct1 \cap changed)

\* The contacts that are counted for the fourth time toggle.
readChannel(closed) ==
  LET changed == SymDiff(chan_state, Contacts \ closed)
      toggled == changed \cap NextCt0(changed) \cap NextCt1(changed)
  IN /\ ct0' = NextCt0(changed)
     /\ ct1' = NextCt1(changed)
     /\ chan_state' = SymDiff(chan_state, toggled)

\* Variant: the first channel's contact is not looked at.
Mask20Only == {2, 3, 4, 5} \ chan_state'

\* ~chan_state & MASK_CHANNEL
Closed == Contacts \ chan_state'

\* get_channel returns a code once; processChannel ignores one that is not a
\* channel's.
Heard == {c \in Channels : Closed # prev_val /\ Closed = MASK_CH[c]}

\* radio.channel after the cases of processChannel, before it is blanked
Selected == IF Heard = {} THEN channel ELSE CHOOSE c \in Heard : TRUE

\* Variant: the channel is blanked when the mode is entered only.
ShownInAnyMode == Selected

\* No channel is shown in manual and guard mode.
Shown == IF FUSEL = "PRESET" THEN Selected ELSE 0

\* processChannel, but for its last assignment to radio.channel
processChannel ==
  /\ prev_val' = Closed
  /\ channelMemory' = IF Selected # 0 THEN Selected ELSE channelMemory
  /\ pending' = FALSE /\ hostLast' = (hostLast /\ Heard = {})

\* No contact is counted, and the code is the knob's.
Settled == /\ chan_state' = Contacts \ MASK_CH[position]
           /\ ct0' = Contacts /\ ct1' = Contacts

\* What sendKeyStroke compares with.
Previous(c) == IF c = 1 THEN 1 ELSE c - 1

\* Variant: the channel itself.
StrokeOwn(c) == IF channel = c THEN 1 ELSE -1

\* KEY_CH_INC or KEY_CH_DEC
sendKeyStroke(c) == IF channel = Previous(c) THEN 1 ELSE -1

\* The pass that reads the selector's row
SelectorPass ==
  /\ pc = "select" /\ pc' = "handle"
  /\ \E closed \in Reading : readChannel(closed)
  /\ processChannel /\ channel' = Shown
  /\ mux' = "elsewhere" /\ turned' = FALSE
  /\ recent' = [i \in 1..3 |-> IF i = 1 THEN position ELSE recent[i - 1]]
  /\ wrong' = IF mux = "here" THEN 0 ELSE wrong + 1
  /\ strayed' = (mux # "here" \/ (strayed /\ ~Settled))
  /\ UNCHANGED <<position, FUSEL, careful>>

-----------------------------------------------------------------------------
\* Any other pass.  A key of the row after the selector's is handled in the
\* pass before, where processChannel has just been: once more changes nothing.
OtherPass ==
  /\ pc = "handle"
  /\ UNCHANGED <<position, turned, debouncer, recent, wrong, strayed>>
  /\ processChannel

NextRound ==
  /\ OtherPass /\ channel' = Shown
  /\ pc' = "select" /\ mux' = "here"
  /\ UNCHANGED <<FUSEL, careful>>

\* No key is handled.
QuietPass ==
  /\ OtherPass /\ channel' = Shown
  /\ UNCHANGED <<pc, mux, FUSEL, careful>>

SelectElsewhere ==
  wrong < MaxWrong /\ pc' = "select" /\ mux' = "elsewhere"

SelectFunction(function) ==
  /\ FUSEL' = function
  /\ careful' = (careful /\ (FUSEL = "PRESET" => channel = position))

setManual ==
  /\ OtherPass /\ SelectFunction("MNL") /\ channel' = 0 /\ SelectElsewhere

setPreset ==
  /\ OtherPass /\ SelectFunction("PRESET") /\ channel' = channelMemory'
  /\ UNCHANGED <<pc, mux>>

setGuard ==
  /\ OtherPass /\ SelectFunction("GUARD") /\ channel' = 0
  /\ UNCHANGED <<pc, mux>>

setUhfOn ==
  /\ OtherPass /\ channel' = Shown /\ SelectElsewhere
  /\ UNCHANGED <<FUSEL, careful>>

\* A digit typed at the serial terminal selects another row in the pass that
\* would read the selector's; an o reads the frequency rows, and that pass goes
\* on as if it were the selector's.
debug ==
  /\ SelectElsewhere
  /\ UNCHANGED <<position, turned, debouncer, prev_val, radio, host, recent,
                 wrong, strayed, careful>>

-----------------------------------------------------------------------------
\* usbPoll at the start of a pass: transmitToDevice replaces what is shown, in
\* any mode; processChannel, in the same pass, backs the channel up.
HostData ==
  /\ ~pending /\ pending' = TRUE
  /\ \E c \in HostChannels :
       /\ channel' = c
       /\ hostLast' = (hostLast \/ c # channelMemory)
       /\ careful' = (careful /\ c = channelMemory)
  /\ UNCHANGED <<position, turned, mux, pc, debouncer, prev_val, FUSEL,
                 channelMemory, recent, wrong, strayed>>

\* The knob is turned by at most one position between two readings; a bounce
\* of the contact is a turn back.
Turn ==
  /\ ~turned /\ turned' = TRUE
  /\ position' \in {position - 1, position + 1} \cap Stops
  /\ careful' = (careful /\ FUSEL = "PRESET" /\ channel = position)
  /\ UNCHANGED <<mux, pc, debouncer, prev_val, radio, host, recent, wrong,
                 strayed>>

Elsewhere == setManual \/ setUhfOn \/ debug

Next == \/ Turn \/ HostData
        \/ SelectorPass \/ QuietPass \/ NextRound
        \/ Elsewhere \/ setPreset \/ setGuard

Spec == Init /\ [][Next]_vars

\* The main loop runs for ever, and the scan comes round.
FairSpec == Spec /\ WF_vars(SelectorPass) /\ WF_vars(NextRound)

-----------------------------------------------------------------------------
\* Types, and that a channel is shown in preset mode only, and is the one
\* that is remembered, but for host data processChannel has not come to.
TypeOK ==
  /\ position \in Stops /\ turned \in BOOLEAN
  /\ mux \in {"here", "elsewhere"} /\ pc \in {"select", "handle"}
  /\ ct0 \subseteq Contacts /\ ct1 \subseteq Contacts
  /\ chan_state \subseteq Contacts /\ prev_val \subseteq Contacts
  /\ FUSEL \in {"MNL", "PRESET", "GUARD"}
  /\ channel \in 0..31 /\ channelMemory \in 0..31
  /\ (channel # 0 /\ ~pending => FUSEL = "PRESET" /\ channel = channelMemory)
  /\ pending \in BOOLEAN /\ hostLast \in BOOLEAN
  /\ recent \in [1..3 -> Channels] /\ wrong \in 0..MaxWrong
  /\ strayed \in BOOLEAN /\ careful \in BOOLEAN

\* Five contacts that debounce on their own never add up to a code that the
\* knob did not show: whatever is reported was its position at one of the last
\* four readings.  The Gray code makes it so, unless another row was read.
ReportPassed ==
  [][~strayed' /\ Closed # prev_val
       => \E p \in {position, recent[1], recent[2], recent[3]} :
            Closed = MASK_CH[p]]_vars

\* Who turns the knob in preset mode, and waits for the radio to show each
\* position, has the simulator follow: every report sends the stroke that
\* leads from the last channel to the new one, through bounces, a change of
\* mode, readings of another row and host data for the channel the radio has.
\* Host data for another channel has sendKeyStroke compare with that one
\* (usb.c:143), and the stroke may be wrong from then on.
StrokesFollow ==
  [][careful /\ channelMemory # 0
       => \A c \in Heard : c = channelMemory + sendKeyStroke(c)]_vars

\* Once the knob rests and the scan keeps its order, preset mode shows it,
\* unless the host has set another channel after the last code was heard:
\* get_channel reports a code once, and nothing corrects the host's channel
\* while the knob rests.
SelectorFollowed ==
  (<>[][~Turn /\ ~Elsewhere]_vars) /\ <>[](FUSEL = "PRESET")
    => <>[](channel = position \/ hostLast)
=============================================================================
