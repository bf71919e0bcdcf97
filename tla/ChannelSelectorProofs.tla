----------------------- MODULE ChannelSelectorProofs -----------------------
(***************************************************************************)
(* Proofs about ChannelSelector, for any stops of the knob and whatever    *)
(* the rows show that are read by mistake: its types, that who waits for   *)
(* each position to be shown has the simulator follow, and that no code is *)
(* reported that the knob did not show.                                    *)
(***************************************************************************)
EXTENDS ChannelSelector, TLAPS

-----------------------------------------------------------------------------
(* The code of the selector.                                               *)


\* The positions at which each contact is closed.
LEMMA MaskAt ==
  ASSUME NEW p \in Channels
  PROVE  /\ MASK_CH[p] \subseteq Contacts
         /\ 1 \in MASK_CH[p] <=>
              p \in 1..2 \cup 5..6 \cup 9..10 \cup 13..14 \cup 17..18
         /\ 2 \in MASK_CH[p] <=> p \in 2..5 \cup 10..13 \cup 18..20
         /\ 3 \in MASK_CH[p] <=> p \in 4..11 \cup {20}
         /\ 4 \in MASK_CH[p] <=> p \in 8..20
         /\ 5 \in MASK_CH[p] <=> p \in 16..20
  BY DEF MASK_CH, Channels, Contacts

LEMMA MaskInjective ==
  ASSUME NEW p \in Channels, NEW q \in Channels, MASK_CH[p] = MASK_CH[q]
  PROVE  p = q
  BY MaskAt DEF Channels

\* Neighbours differ in one contact.
LEMMA GrayCode ==
  ASSUME NEW p \in Channels, NEW q \in Channels, q = p + 1
  PROVE  \E y \in Contacts : \A x \in Contacts :
           (x \in MASK_CH[p] <=> x \in MASK_CH[q]) <=> x # y
<1>1. CASE p \in {2, 4, 6, 8, 10, 12, 14, 16, 18}
  BY <1>1, MaskAt DEF Channels, Contacts
<1>2. CASE p \in {1, 5, 9, 13, 17}
  BY <1>2, MaskAt DEF Channels, Contacts
<1>3. CASE p \in {3, 11, 19}
  BY <1>3, MaskAt DEF Channels, Contacts
<1>4. CASE p = 7
  BY <1>4, MaskAt DEF Channels, Contacts
<1>5. CASE p = 15
  BY <1>5, MaskAt DEF Channels, Contacts
<1>. QED
  BY <1>1, <1>2, <1>3, <1>4, <1>5 DEF Channels

-----------------------------------------------------------------------------
(* Types, and the reading that is to come.                                 *)

\* A row other than the selector's is read while that is allowed for.
Allowed == pc = "select" /\ mux = "elsewhere" => wrong < MaxWrong

TypeInv == TypeOK /\ Allowed

LEMMA Knob ==
  Stops \subseteq Channels /\ HostChannels \subseteq 0..31 /\ MaxWrong \in 0..3
  BY SelectorAssumption

LEMMA HeardOrSame ==
  ASSUME TypeOK
  PROVE  /\ Heard \subseteq Channels
         /\ Heard # {} => Selected \in Heard
         /\ Heard = {} => Selected = channel
         /\ Selected \in 0..31
<1>1. Heard \subseteq Channels
  BY DEF Heard
<1>2. Heard # {} => Selected \in Heard
  BY DEF Selected
<1>3. Heard = {} => Selected = channel
  BY DEF Selected
<1>4. Selected \in 0..31
  <2>1. CASE Heard = {}
    BY <1>3, <2>1 DEF TypeOK
  <2>2. CASE Heard # {}
    <3>1. Selected \in Channels
      BY <1>1, <1>2, <2>2
    <3>2. Channels \subseteq 0..31
      BY DEF Channels
    <3>. QED
      BY <3>1, <3>2
  <2>. QED
    BY <2>1, <2>2
<1>. QED
  BY <1>1, <1>2, <1>3, <1>4

LEMMA InitTypes == Init => TypeInv
<1> SUFFICES ASSUME Init PROVE TypeInv
  OBVIOUS
<1>1. position \in Stops /\ position \in Channels
  BY Knob DEF Init
<1>2. chan_state \subseteq Contacts /\ ct0 \subseteq Contacts /\ ct1 \subseteq Contacts
  BY DEF Init
<1>3. recent \in [1..3 -> Channels]
  BY <1>1 DEF Init
<1>4. /\ turned \in BOOLEAN /\ strayed \in BOOLEAN /\ careful \in BOOLEAN
      /\ pending \in BOOLEAN /\ hostLast \in BOOLEAN
  BY Zenon DEF Init
<1>5. /\ mux \in {"here", "elsewhere"} /\ pc \in {"select", "handle"}
      /\ prev_val \subseteq Contacts /\ FUSEL \in {"MNL", "PRESET", "GUARD"}
      /\ channel \in 0..31 /\ channelMemory \in 0..31
      /\ channel # 0 => FUSEL = "PRESET" /\ channel = channelMemory
      /\ wrong \in 0..MaxWrong
  BY Knob DEF Init
<1>6. Allowed
  BY DEF Init, Allowed
<1>. QED
  BY <1>1, <1>2, <1>3, <1>4, <1>5, <1>6 DEF TypeInv, TypeOK

LEMMA ReadTypes ==
  ASSUME TypeOK, NEW closed, readChannel(closed)
  PROVE  /\ ct0' \subseteq Contacts /\ ct1' \subseteq Contacts
         /\ chan_state' \subseteq Contacts /\ Closed \subseteq Contacts
  BY DEF TypeOK, readChannel, NextCt0, NextCt1, SymDiff, Closed

\* What processChannel leaves of the host's data
LEMMA ProcessHost ==
  ASSUME TypeOK, processChannel
  PROVE  pending' \in BOOLEAN /\ hostLast' \in BOOLEAN /\ ~pending'
<1>1. pending' = FALSE /\ hostLast' = (hostLast /\ Heard = {})
  BY DEF processChannel
<1>. QED
  BY <1>1, Zenon

\* What processChannel and the assignment to radio.channel leave
LEMMA ProcessTypes ==
  ASSUME TypeOK, processChannel, FUSEL' = FUSEL, channel' = Shown
  PROVE  /\ channel' \in 0..31 /\ channelMemory' \in 0..31
         /\ channel' # 0 => FUSEL' = "PRESET" /\ channel' = channelMemory'
  BY HeardOrSame DEF TypeOK, processChannel, Shown

LEMMA SelectorPassTypes ==
  ASSUME TypeInv, SelectorPass
  PROVE  TypeInv'
<1>1. PICK closed \in Reading : readChannel(closed)
  BY DEF SelectorPass
<1>2. /\ ct0' \subseteq Contacts /\ ct1' \subseteq Contacts
      /\ chan_state' \subseteq Contacts /\ prev_val' \subseteq Contacts
  BY <1>1, ReadTypes DEF TypeInv, SelectorPass, processChannel
<1>3. /\ channel' \in 0..31 /\ channelMemory' \in 0..31
      /\ channel' # 0 => FUSEL' = "PRESET" /\ channel' = channelMemory'
  BY ProcessTypes DEF TypeInv, SelectorPass
<1>4. wrong' \in 0..MaxWrong
  BY Knob DEF TypeInv, TypeOK, Allowed, SelectorPass
<1>5. recent' \in [1..3 -> Channels]
  BY Knob DEF TypeInv, TypeOK, SelectorPass
<1>6. strayed' \in BOOLEAN
  BY DEF SelectorPass
<1>7. pending' \in BOOLEAN /\ hostLast' \in BOOLEAN
  BY ProcessHost DEF TypeInv, SelectorPass
<1>. QED
  BY <1>2, <1>3, <1>4, <1>5, <1>6, <1>7 DEF TypeInv, TypeOK, Allowed, SelectorPass

\* The passes that do not read the selector's row
AnotherPass ==
  \/ QuietPass \/ NextRound \/ setUhfOn
  \/ setManual \/ setPreset \/ setGuard

LEMMA OtherPassTypes ==
  ASSUME TypeInv, AnotherPass
  PROVE  TypeInv'
<1>1. /\ UNCHANGED <<position, turned, ct0, ct1, chan_state, recent, wrong, strayed>>
      /\ processChannel /\ prev_val' \subseteq Contacts
  BY DEF AnotherPass, QuietPass, NextRound, setManual, setPreset, setGuard,
         setUhfOn, OtherPass, debouncer, processChannel, Closed
<1>2. /\ channelMemory' \in 0..31
      /\ channel' \in 0..31
      /\ channel' # 0 => FUSEL' = "PRESET" /\ channel' = channelMemory'
  <2>1. channelMemory' \in 0..31
    BY <1>1, HeardOrSame DEF TypeInv, TypeOK, processChannel
  <2>2. CASE QuietPass \/ NextRound \/ setUhfOn
    BY <1>1, <2>2, ProcessTypes DEF TypeInv, QuietPass, NextRound, setUhfOn
  <2>3. CASE setManual \/ setPreset \/ setGuard
    BY <2>1, <2>3 DEF setManual, setPreset, setGuard, SelectFunction
  <2>. QED
    BY <2>2, <2>3 DEF AnotherPass
<1>3. /\ FUSEL' \in {"MNL", "PRESET", "GUARD"} /\ careful' \in BOOLEAN
      /\ mux' \in {"here", "elsewhere"} /\ pc' \in {"select", "handle"}
  BY DEF TypeInv, TypeOK, AnotherPass, QuietPass, NextRound, setManual,
         setPreset, setGuard, setUhfOn, SelectFunction, SelectElsewhere
<1>4. Allowed'
  BY <1>1 DEF TypeInv, Allowed, AnotherPass, QuietPass, NextRound, setManual,
              setPreset, setGuard, setUhfOn, OtherPass, SelectElsewhere
<1>5. pending' \in BOOLEAN /\ hostLast' \in BOOLEAN
  BY <1>1, ProcessHost DEF TypeInv
<1>. QED
  BY <1>1, <1>2, <1>3, <1>4, <1>5 DEF TypeInv, TypeOK

LEMMA HostDataTypes ==
  ASSUME TypeInv, HostData
  PROVE  TypeInv'
<1>1. PICK c \in HostChannels :
        /\ channel' = c
        /\ hostLast' = (hostLast \/ c # channelMemory)
        /\ careful' = (careful /\ c = channelMemory)
  BY DEF HostData
<1>2. channel' \in 0..31
  BY <1>1, Knob
<1>3. hostLast' \in BOOLEAN /\ careful' \in BOOLEAN /\ pending' = TRUE
  BY <1>1, Zenon DEF HostData
<1>4. UNCHANGED <<position, turned, mux, pc, ct0, ct1, chan_state, prev_val,
                  FUSEL, channelMemory, recent, wrong, strayed>>
  BY DEF HostData, debouncer
<1>. QED
  BY <1>2, <1>3, <1>4 DEF TypeInv, TypeOK, Allowed

LEMMA NextTypes == TypeInv /\ [Next]_vars => TypeInv'
<1> SUFFICES ASSUME TypeInv, [Next]_vars PROVE TypeInv'
  OBVIOUS
<1>1. CASE Turn
  <2>1. position' \in Stops
    BY <1>1 DEF Turn
  <2>2. careful' \in BOOLEAN
    BY <1>1 DEF Turn
  <2>. QED
    BY <1>1, <2>1, <2>2 DEF Turn, debouncer, radio, host, TypeInv, TypeOK, Allowed
<1>2. CASE debug
  BY <1>2 DEF debug, SelectElsewhere, debouncer, radio, host, TypeInv, TypeOK, Allowed
<1>3. CASE UNCHANGED vars
  BY <1>3 DEF vars, debouncer, radio, host, TypeInv, TypeOK, Allowed
<1>. QED
  BY <1>1, <1>2, <1>3, SelectorPassTypes, OtherPassTypes, HostDataTypes
     DEF Next, Elsewhere, AnotherPass

\* Types, whatever stops the knob has and whatever other rows show.
THEOREM SelectorTypes == Spec => []TypeOK
<1>1. Init => TypeInv
  BY InitTypes
<1>2. TypeInv /\ [Next]_vars => TypeInv'
  BY NextTypes
<1>3. TypeInv => TypeOK
  BY DEF TypeInv
<1>. QED
  BY <1>1, <1>2, <1>3, PTL DEF Spec

-----------------------------------------------------------------------------
(* Each contact is debounced on its own.                                   *)

\* Readings in a row that differ from the debounced contact.
Count(x) == (IF x \in ct1 THEN 0 ELSE 2) + (IF x \in ct0 THEN 0 ELSE 1)

\* The debounced code: the contacts that are taken as closed.
Code == Contacts \ chan_state

LEMMA CountStep ==
  ASSUME TypeOK, NEW closed \in SUBSET Contacts, readChannel(closed),
         NEW x \in Contacts
  PROVE  /\ Count(x) \in 0..3 /\ Count(x)' \in 0..3
         /\ (x \in Code <=> x \in closed) =>
              (x \in Code' <=> x \in Code) /\ Count(x)' = 0
         /\ ~(x \in Code <=> x \in closed) =>
              IF Count(x) = 3 THEN (x \in Code' <=> x \notin Code) /\ Count(x)' = 0
              ELSE (x \in Code' <=> x \in Code) /\ Count(x)' = Count(x) + 1
<1> DEFINE changed == SymDiff(chan_state, Contacts \ closed)
           toggled == changed \cap NextCt0(changed) \cap NextCt1(changed)
<1>1. /\ ct0' = NextCt0(changed) /\ ct1' = NextCt1(changed)
      /\ chan_state' = SymDiff(chan_state, toggled)
  BY DEF readChannel
<1>2. x \in changed <=> ~(x \in Code <=> x \in closed)
  BY DEF TypeOK, SymDiff, Code
<1>3. x \in ct0' <=> ~(x \in ct0 /\ x \in changed)
  BY <1>1 DEF NextCt0
<1>4. x \in ct1' <=> ((x \in ct0') <=> ~(x \in ct1 /\ x \in changed))
  BY <1>1 DEF NextCt1, SymDiff
<1>5. x \in toggled <=> x \in changed /\ x \in ct0' /\ x \in ct1'
  BY <1>1
<1>6. x \in Code' <=> (x \in Code <=> x \notin toggled)
  BY <1>1 DEF Code, SymDiff
<1> HIDE DEF changed, toggled
<1>. QED
  BY <1>2, <1>3, <1>4, <1>5, <1>6 DEF Count

LEMMA ReadingIsContacts ==
  ASSUME TypeOK, NEW closed \in Reading
  PROVE  closed \in SUBSET Contacts /\ (mux = "here" => closed = MASK_CH[position])
  BY Knob, MaskAt, SelectorAssumption DEF TypeOK, Reading

\* A contact that is as the knob has it stays so: readings of another row are
\* too few to change it.
LEMMA SteadyContact ==
  ASSUME TypeInv, SelectorPass, NEW closed \in Reading, readChannel(closed),
         NEW x \in Contacts, Count(x) <= wrong,
         x \in Code <=> x \in MASK_CH[position]
  PROVE  (x \in Code' <=> x \in Code) /\ Count(x)' <= wrong'
<1>1. closed \in SUBSET Contacts /\ (mux = "here" => closed = MASK_CH[position])
  BY ReadingIsContacts DEF TypeInv
<1>2. wrong \in Nat /\ wrong' = IF mux = "here" THEN 0 ELSE wrong + 1
  BY Knob DEF SelectorPass, TypeInv, TypeOK
<1>3. CASE mux = "here"
  BY <1>1, <1>2, <1>3, CountStep DEF TypeInv
<1>4. CASE mux # "here"
  <2>1. wrong <= 2
    BY <1>4, Knob DEF TypeInv, TypeOK, Allowed, SelectorPass
  <2>. QED
    BY <1>1, <1>2, <1>4, <2>1, CountStep DEF TypeInv
<1>. QED
  BY <1>3, <1>4

LEMMA CodeHeard ==
  ASSUME NEW p \in Channels, Closed = MASK_CH[p]
  PROVE  Heard = IF prev_val = MASK_CH[p] THEN {} ELSE {p}
  BY MaskInjective DEF Heard

LEMMA MaskNotEmpty ==
  ASSUME NEW p \in Channels
  PROVE  MASK_CH[p] # {}
  BY MaskAt DEF Channels

-----------------------------------------------------------------------------
(* The simulator follows the knob.                                         *)

\* The debounced code is the knob's, and is reported.
AtKnob ==
  /\ Code = MASK_CH[position]
  /\ \A x \in Contacts : Count(x) <= wrong
  /\ \/ channelMemory = 0 /\ prev_val = {}
     \/ channelMemory = position /\ prev_val = MASK_CH[position]

\* The debounced code is that of the position before, which is shown.
OnTheWay ==
  /\ FUSEL = "PRESET" /\ channel = channelMemory
  /\ channel \in Channels /\ position \in {channel - 1, channel + 1}
  /\ Code = MASK_CH[channel] /\ prev_val = MASK_CH[channel]
  /\ \A x \in Contacts :
       (x \in MASK_CH[channel] <=> x \in MASK_CH[position]) => Count(x) <= wrong

FollowInv ==
  TypeInv /\ (careful => channel \in {0, channelMemory} /\ (AtKnob \/ OnTheWay))

\* One contact is between the neighbours.
LEMMA Between ==
  ASSUME TypeInv, OnTheWay
  PROVE  /\ position \in Channels /\ channel # position
         /\ \E y \in Contacts : \A x \in Contacts :
              (x \in MASK_CH[channel] <=> x \in MASK_CH[position]) <=> x # y
<1>1. position \in Channels /\ channel \in Channels
  BY Knob DEF TypeInv, TypeOK, OnTheWay
<1>2. position = channel + 1 \/ channel = position + 1
  BY <1>1 DEF OnTheWay, Channels
<1>3. CASE position = channel + 1
  BY <1>1, <1>3, GrayCode DEF Channels
<1>4. CASE channel = position + 1
  <2>1. PICK y \in Contacts : \A x \in Contacts :
          (x \in MASK_CH[position] <=> x \in MASK_CH[channel]) <=> x # y
    BY <1>1, <1>4, GrayCode
  <2>. QED
    BY <1>1, <1>4, <2>1 DEF Channels
<1>. QED
  BY <1>2, <1>3, <1>4

\* The row is read with the code at the knob: it stays.
LEMMA ReadAtKnob ==
  ASSUME TypeInv, SelectorPass, AtKnob
  PROVE  Closed = MASK_CH[position] /\ \A x \in Contacts : Count(x)' <= wrong'
<1>1. PICK closed \in Reading : readChannel(closed)
  BY DEF SelectorPass
<1>2. \A x \in Contacts : (x \in Code' <=> x \in Code) /\ Count(x)' <= wrong'
  BY <1>1, SteadyContact DEF AtKnob
<1>3. Code' = Code
  BY <1>2 DEF Code
<1>. QED
  BY <1>2, <1>3 DEF AtKnob, Code, Closed

\* The row is read on the way to the next position: it stays, or gets there.
LEMMA ReadOnTheWay ==
  ASSUME TypeInv, SelectorPass, OnTheWay
  PROVE  \/ /\ Closed = MASK_CH[channel]
            /\ \A x \in Contacts :
                 (x \in MASK_CH[channel] <=> x \in MASK_CH[position])
                   => Count(x)' <= wrong'
         \/ Closed = MASK_CH[position] /\ \A x \in Contacts : Count(x)' <= wrong'
<1>1. PICK closed \in Reading : readChannel(closed)
  BY DEF SelectorPass
<1>2. /\ position \in Channels /\ channel \in Channels
      /\ MASK_CH[position] \subseteq Contacts /\ MASK_CH[channel] \subseteq Contacts
  BY Between, MaskAt DEF OnTheWay
<1>3. PICK y \in Contacts : \A x \in Contacts :
        (x \in MASK_CH[channel] <=> x \in MASK_CH[position]) <=> x # y
  BY Between
<1>4. ASSUME NEW x \in Contacts, x # y
      PROVE  (x \in Code' <=> x \in Code) /\ Count(x)' <= wrong'
  BY <1>1, <1>3, <1>4, SteadyContact DEF OnTheWay
<1>5. closed \in SUBSET Contacts /\ TypeOK
  BY <1>1, ReadingIsContacts DEF TypeInv
<1>6. Code = MASK_CH[channel] /\ Code' = Closed /\ Closed \subseteq Contacts
  BY DEF OnTheWay, Code, Closed
<1>7. CASE y \in Code' <=> y \in Code
  <2>1. \A x \in Contacts : x \in Closed <=> x \in MASK_CH[channel]
    BY <1>4, <1>6, <1>7
  <2>2. Closed = MASK_CH[channel]
    BY <1>2, <1>6, <2>1
  <2>. QED
    BY <1>3, <1>4, <2>2
<1>8. CASE ~(y \in Code' <=> y \in Code)
  <2>1. Count(y)' = 0
    BY <1>1, <1>5, <1>8, CountStep
  <2>2. wrong' \in Nat
    BY Knob DEF SelectorPass, TypeInv, TypeOK
  <2>3. \A x \in Contacts : x \in Closed <=> x \in MASK_CH[position]
    BY <1>3, <1>4, <1>6, <1>8
  <2>4. Closed = MASK_CH[position]
    BY <1>2, <1>6, <2>3
  <2>5. \A x \in Contacts : Count(x)' <= wrong'
    BY <1>4, <2>1, <2>2
  <2>. QED
    BY <2>4, <2>5
<1>. QED
  BY <1>7, <1>8

\* The knob's code is reported, now or before.
LEMMA ReportAtKnob ==
  ASSUME TypeInv, channel \in {0, channelMemory}, AtKnob \/ OnTheWay,
         processChannel, Closed = MASK_CH[position]
  PROVE  channelMemory' = position /\ prev_val' = MASK_CH[position]
<1>1. position \in Channels /\ position # 0
  BY Knob DEF TypeInv, TypeOK, Channels
<1>2. Heard = IF prev_val = MASK_CH[position] THEN {} ELSE {position}
  BY <1>1, CodeHeard
<1>3. Selected = position \/ (Selected = channel /\ channelMemory = position)
  <2>1. CASE prev_val = MASK_CH[position]
    <3>1. channelMemory = position
      BY <1>1, <2>1, MaskNotEmpty, MaskInjective, Between DEF AtKnob, OnTheWay
    <3>. QED
      BY <1>2, <2>1, <3>1, HeardOrSame DEF TypeInv
  <2>2. CASE prev_val # MASK_CH[position]
    BY <1>2, <2>2, HeardOrSame DEF TypeInv
  <2>. QED
    BY <2>1, <2>2
<1>. QED
  BY <1>1, <1>3 DEF processChannel

\* The code of the position before is not reported again.
LEMMA NothingOnTheWay ==
  ASSUME TypeInv, OnTheWay, processChannel, Closed = MASK_CH[channel]
  PROVE  /\ Heard = {} /\ Selected = channel /\ Shown = channel
         /\ channelMemory' = channelMemory /\ prev_val' = MASK_CH[channel]
<1>1. Heard = {}
  BY CodeHeard DEF OnTheWay
<1>2. Selected = channel
  BY <1>1, HeardOrSame DEF TypeInv
<1>. QED
  BY <1>1, <1>2 DEF OnTheWay, Shown, processChannel

LEMMA SelectorPassFollow ==
  ASSUME FollowInv, SelectorPass
  PROVE  FollowInv'
<1>1. TypeInv /\ TypeInv' /\ channel' \in {0, channelMemory'}
  BY SelectorPassTypes, ProcessHost DEF FollowInv, SelectorPass, TypeInv, TypeOK
<1>2. SUFFICES ASSUME careful PROVE AtKnob' \/ OnTheWay'
  BY <1>1 DEF FollowInv, SelectorPass
<1>3. /\ position' = position /\ FUSEL' = FUSEL
      /\ processChannel /\ channel' = Shown /\ Code' = Closed
  BY DEF SelectorPass, Code, Closed
<1>4. ASSUME Closed = MASK_CH[position], \A x \in Contacts : Count(x)' <= wrong'
      PROVE  AtKnob'
  <2>1. channelMemory' = position /\ prev_val' = MASK_CH[position]
    BY <1>1, <1>2, <1>3, <1>4, ReportAtKnob DEF FollowInv
  <2>. QED
    BY <1>3, <1>4, <2>1 DEF AtKnob
<1>5. CASE AtKnob
  BY <1>1, <1>4, <1>5, ReadAtKnob
<1>6. CASE OnTheWay
  <2>1. ASSUME Closed = MASK_CH[channel],
               \A x \in Contacts :
                 (x \in MASK_CH[channel] <=> x \in MASK_CH[position])
                   => Count(x)' <= wrong'
        PROVE  OnTheWay'
    <3>1. /\ channel' = channel /\ channelMemory' = channelMemory
          /\ prev_val' = MASK_CH[channel]
      BY <1>1, <1>3, <1>6, <2>1, NothingOnTheWay
    <3>. QED
      BY <1>3, <1>6, <2>1, <3>1 DEF OnTheWay
  <2>. QED
    BY <1>1, <1>4, <1>6, <2>1, ReadOnTheWay
<1>. QED
  BY <1>2, <1>5, <1>6 DEF FollowInv

LEMMA OtherPassFollow ==
  ASSUME FollowInv, AnotherPass
  PROVE  FollowInv'
<1>1. TypeInv /\ TypeInv'
  BY OtherPassTypes DEF FollowInv
<1>8. channel' \in {0, channelMemory'}
  <2>1. processChannel
    BY DEF AnotherPass, QuietPass, NextRound, setManual, setPreset, setGuard,
           setUhfOn, OtherPass
  <2>. QED
    BY <1>1, <2>1, ProcessHost DEF TypeInv, TypeOK
<1>2. SUFFICES ASSUME careful' PROVE AtKnob' \/ OnTheWay'
  BY <1>1, <1>8 DEF FollowInv
<1>3. careful /\ (OnTheWay => QuietPass \/ NextRound \/ setUhfOn)
  <2>1. CASE QuietPass \/ NextRound \/ setUhfOn
    BY <1>2, <2>1 DEF QuietPass, NextRound, setUhfOn
  <2>2. CASE setManual \/ setPreset \/ setGuard
    <3>1. careful /\ (FUSEL = "PRESET" => channel = position)
      BY <1>2, <2>2 DEF setManual, setPreset, setGuard, SelectFunction
    <3>. QED
      BY <1>1, <3>1, Between DEF OnTheWay
  <2>. QED
    BY <2>1, <2>2 DEF AnotherPass
<1>4. /\ position' = position /\ wrong' = wrong
      /\ ct0' = ct0 /\ ct1' = ct1 /\ chan_state' = chan_state
      /\ processChannel /\ Closed = Code
  BY DEF AnotherPass, QuietPass, NextRound, setManual, setPreset, setGuard,
         setUhfOn, OtherPass, debouncer, Closed, Code
<1>5. \A x : Count(x)' = Count(x)
  BY <1>4 DEF Count
<1>6. CASE AtKnob
  <2>1. channelMemory' = position /\ prev_val' = MASK_CH[position]
    BY <1>1, <1>3, <1>4, <1>6, ReportAtKnob DEF AtKnob, FollowInv
  <2>. QED
    BY <1>4, <1>5, <1>6, <2>1 DEF AtKnob, Code
<1>7. CASE OnTheWay
  <2>1. /\ Shown = channel
        /\ channelMemory' = channelMemory /\ prev_val' = MASK_CH[channel]
    BY <1>1, <1>4, <1>7, NothingOnTheWay DEF OnTheWay
  <2>2. channel' = channel /\ FUSEL' = FUSEL
    BY <1>3, <1>7, <2>1 DEF QuietPass, NextRound, setUhfOn
  <2>. QED
    BY <1>4, <1>5, <1>7, <2>1, <2>2 DEF OnTheWay, Code
<1>. QED
  BY <1>3, <1>6, <1>7 DEF FollowInv

\* Who has the radio show each position leaves the last one on the way.
LEMMA TurnFollow ==
  ASSUME FollowInv, Turn
  PROVE  FollowInv'
<1>1. TypeInv /\ TypeInv'
  BY NextTypes DEF FollowInv, Next
<1>2. SUFFICES ASSUME careful' PROVE OnTheWay' /\ channel' \in {0, channelMemory'}
  BY <1>1 DEF FollowInv
<1>3. careful /\ FUSEL = "PRESET" /\ channel = position
  BY <1>2 DEF Turn
<1>4. position \in Channels /\ channel # 0 /\ channel = channelMemory
  BY <1>1, <1>3, Knob DEF FollowInv, TypeInv, TypeOK, Channels
<1>5. AtKnob
  BY <1>1, <1>3, Between DEF FollowInv
<1>6. prev_val = MASK_CH[position] /\ Code = MASK_CH[position]
  BY <1>4, <1>5, <1>3 DEF AtKnob
<1>7. /\ UNCHANGED <<wrong, ct0, ct1, chan_state, prev_val, FUSEL, channel,
                     channelMemory>>
      /\ position' \in {position - 1, position + 1}
  BY DEF Turn, debouncer, radio
<1>8. \A x \in Contacts : Count(x)' <= wrong'
  BY <1>5, <1>7 DEF AtKnob, Count
<1>9. Code' = Code
  BY <1>7 DEF Code
<1>. QED
  BY <1>3, <1>4, <1>6, <1>7, <1>8, <1>9 DEF OnTheWay

LEMMA QuietFollow ==
  ASSUME FollowInv, debug \/ HostData \/ UNCHANGED vars
  PROVE  FollowInv'
<1>1. TypeInv'
  BY NextTypes DEF FollowInv, Next, Elsewhere
<1>2. SUFFICES ASSUME careful'
               PROVE  channel' \in {0, channelMemory'} /\ (AtKnob' \/ OnTheWay')
  BY <1>1 DEF FollowInv
<1>3. UNCHANGED <<position, wrong, ct0, ct1, chan_state, prev_val, FUSEL,
                  channelMemory>>
  BY DEF debug, HostData, vars, debouncer, radio
<1>4. careful /\ (channel' = channel \/ channel' = channelMemory)
  BY <1>2 DEF debug, HostData, vars, radio
<1>5. AtKnob => AtKnob'
  BY <1>3 DEF AtKnob, Code, Count
<1>6. OnTheWay => OnTheWay'
  BY <1>3, <1>4 DEF OnTheWay, Code, Count
<1>. QED
  BY <1>3, <1>4, <1>5, <1>6 DEF FollowInv

LEMMA NextFollow == FollowInv /\ [Next]_vars => FollowInv'
  BY SelectorPassFollow, OtherPassFollow, TurnFollow, QuietFollow
     DEF Next, Elsewhere, AnotherPass

\* forcedReadUhfState has read the row, and nothing is reported yet.
LEMMA InitFollow == Init => FollowInv
<1> SUFFICES ASSUME Init PROVE FollowInv
  OBVIOUS
<1>1. TypeInv
  BY InitTypes
<1>2. position \in Channels
  BY Knob DEF Init
<1>3. Code = MASK_CH[position]
  BY <1>2, MaskAt DEF Init, Code
<1>4. \A x \in Contacts : Count(x) <= wrong
  BY DEF Init, Count
<1>. QED
  BY <1>1, <1>3, <1>4 DEF Init, FollowInv, AtKnob

\* What StrokesFollow says of one step: a code that is heard is that of the
\* position the knob was turned to, next to the one shown.
LEMMA StrokeFollows ==
  ASSUME FollowInv, [Next]_vars, careful, channelMemory # 0, NEW c \in Heard
  PROVE  c = channelMemory + sendKeyStroke(c)
<1>1. TypeInv /\ (AtKnob \/ OnTheWay)
  BY DEF FollowInv
<1>2. position \in Channels
  BY <1>1, Knob DEF TypeInv, TypeOK
<1>3. Heard # {}
  OBVIOUS
<1>4. SelectorPass
  <2>1. SUFFICES ASSUME ~SelectorPass PROVE FALSE
    OBVIOUS
  <2>2. chan_state' = chan_state
    BY <2>1 DEF Next, Elsewhere, Turn, HostData, QuietPass, NextRound,
                setManual, setUhfOn, debug, setPreset, setGuard, OtherPass,
                debouncer, vars
  <2>3. Closed = Code
    BY <2>2 DEF Closed, Code
  <2>. QED
    BY <1>1, <1>2, <1>3, <2>3, CodeHeard DEF AtKnob, OnTheWay
<1>5. CASE AtKnob
  BY <1>1, <1>2, <1>3, <1>4, <1>5, ReadAtKnob, CodeHeard DEF AtKnob
<1>6. CASE OnTheWay
  <2>1. Closed = MASK_CH[position]
    BY <1>1, <1>3, <1>4, <1>6, ReadOnTheWay, CodeHeard DEF OnTheWay
  <2>2. c = position
    BY <1>2, <2>1, CodeHeard
  <2>3. channel \in 1..20 /\ c \in 1..20 /\ channel = channelMemory
    BY <1>2, <1>6, <2>2 DEF OnTheWay, Channels
  <2>4. c \in {channel - 1, channel + 1}
    BY <1>6, <2>2 DEF OnTheWay
  <2>. QED
    BY <2>3, <2>4 DEF sendKeyStroke, Previous
<1>. QED
  BY <1>1, <1>5, <1>6

\* Who turns the knob in preset mode, and waits for the radio to show each
\* position, has the simulator follow (processChannel, sendKeyStroke), whatever
\* rows are read by mistake and however often the host sends the channel the
\* radio has (transmitToDevice).
THEOREM StrokesAlwaysFollow == Spec => StrokesFollow
<1>1. Init => FollowInv
  BY InitFollow
<1>2. FollowInv /\ [Next]_vars => FollowInv'
  BY NextFollow
<1>3. FollowInv /\ [Next]_vars =>
        [careful /\ channelMemory # 0
           => \A c \in Heard : c = channelMemory + sendKeyStroke(c)]_vars
  BY StrokeFollows
<1>. QED
  BY <1>1, <1>2, <1>3, PTL DEF Spec, StrokesFollow
-----------------------------------------------------------------------------
(* No code is reported that the knob did not show.                         *)

Beside(p, q) == p \in {q - 1, q, q + 1}

Differs(x, p, q) == ~(x \in MASK_CH[p] <=> x \in MASK_CH[q])

\* Where the last three readings may be while the debounced code is that of q:
\* the third last is next to q, or the knob is back at q, or it went by two or
\* three to the side where q's code changes in two contacts in turn.
Late(q, a, b, c) ==
  \/ Beside(c, q)
  \/ a = q /\ c \in {q - 2, q + 2}
  \/ /\ q \in {2 * i : i \in 1..10}
     /\ (c = q + 2 /\ b > q) \/ (c = q + 3 /\ b = q + 2 /\ a = q + 1)
  \/ /\ q \in {2 * i - 1 : i \in 1..10}
     /\ (c = q - 2 /\ b < q) \/ (c = q - 3 /\ b = q - 2 /\ a = q - 1)

\* Readings in a row, the last one first, in which the contact differs from q's.
Streak(x, q, a, b, c) ==
  IF ~Differs(x, a, q) THEN 0
  ELSE IF ~Differs(x, b, q) THEN 1
  ELSE IF ~Differs(x, c, q) THEN 2 ELSE 3

\* The contact after one more reading, of p
After(x, q, p, a, b, c) ==
  x \in MASK_CH[q] <=> ~(Differs(x, p, q) /\ Streak(x, q, a, b, c) = 3)

\* The code of q goes to that of r.
Goes(q, p, a, b, c, r) ==
  /\ Late(r, p, a, b)
  /\ \A x \in Contacts : x \in MASK_CH[r] <=> After(x, q, p, a, b, c)

\* The Gray code: whichever contacts have counted to four at the same reading,
\* the code is that of a position that was read, or has not changed.
LEMMA CodeGoes ==
  ASSUME NEW q \in Channels, NEW p \in Channels,
         NEW a \in Channels, NEW b \in Channels, NEW c \in Channels,
         Beside(p, a), Beside(a, b), Beside(b, c), Late(q, a, b, c)
  PROVE  \E r \in {q, p, a, b, c} : Goes(q, p, a, b, c, r)
<1>1. \/ Goes(q, p, a, b, c, q) \/ Goes(q, p, a, b, c, p)
      \/ Goes(q, p, a, b, c, a) \/ Goes(q, p, a, b, c, b) \/ Goes(q, p, a, b, c, c)
  BY MaskAt
     DEF Goes, Late, Beside, After, Streak, Differs, Channels, Contacts
<1>. QED
  BY <1>1

\* The knob goes by one position between two readings.
Smooth ==
  /\ Beside(position, recent[1]) /\ (~turned => position = recent[1])
  /\ Beside(recent[1], recent[2]) /\ Beside(recent[2], recent[3])

\* The debounced code is that of q, and the counters are what the last three
\* readings make them.
CodeOf(q) ==
  /\ Code = MASK_CH[q] /\ Late(q, recent[1], recent[2], recent[3])
  /\ \A x \in Contacts : Count(x) = Streak(x, q, recent[1], recent[2], recent[3])

\* What processChannel has not looked at is the first code.
Reported == prev_val = Code \/ Code = MASK_CH[recent[1]]

PassedInv ==
  /\ TypeInv /\ Smooth
  /\ (~strayed => Reported /\ \E q \in Channels : CodeOf(q))

LEMMA InitPassed == Init => PassedInv
<1> SUFFICES ASSUME Init PROVE PassedInv
  OBVIOUS
<1>1. TypeInv
  BY InitTypes
<1>2. position \in Channels
  BY Knob DEF Init
<1>3. recent[1] = position /\ recent[2] = position /\ recent[3] = position
  BY DEF Init
<1>4. Code = MASK_CH[position]
  BY <1>2, MaskAt DEF Init, Code
<1>5. Smooth
  BY <1>2, <1>3 DEF Smooth, Beside, Channels
<1>6. CodeOf(position)
  <2>1. \A x \in Contacts :
          Count(x) = Streak(x, position, recent[1], recent[2], recent[3])
    BY <1>3 DEF Init, Count, Streak, Differs
  <2>. QED
    BY <1>2, <1>3, <1>4, <2>1 DEF CodeOf, Late, Beside, Channels
<1>. QED
  BY <1>1, <1>2, <1>3, <1>4, <1>5, <1>6 DEF PassedInv, Reported

\* A reading of the selector's own row, with counters that are what the last
\* three readings make them
LEMMA ReadPassed ==
  ASSUME PassedInv, SelectorPass, mux = "here", ~strayed,
         NEW q \in Channels, CodeOf(q)
  PROVE  \E r \in {q, position, recent[1], recent[2], recent[3]} :
           r \in Channels /\ CodeOf(r)'
<1> DEFINE a == recent[1] b == recent[2] c == recent[3] p == position
<1>1. /\ p \in Channels /\ a \in Channels /\ b \in Channels /\ c \in Channels
      /\ TypeOK
  BY Knob DEF PassedInv, TypeInv, TypeOK
<1>2. Beside(p, a) /\ Beside(a, b) /\ Beside(b, c) /\ Late(q, a, b, c)
  BY DEF PassedInv, Smooth, CodeOf
<1>3. recent'[1] = p /\ recent'[2] = a /\ recent'[3] = b
  BY DEF SelectorPass
<1>4. readChannel(MASK_CH[p]) /\ MASK_CH[p] \in SUBSET Contacts
  BY <1>1, MaskAt DEF SelectorPass, Reading
<1>5. Code = MASK_CH[q]
      /\ \A x \in Contacts : Count(x) = Streak(x, q, a, b, c)
  BY DEF CodeOf
<1> HIDE DEF a, b, c, p
<1>6. PICK r \in {q, p, a, b, c} : Goes(q, p, a, b, c, r)
  BY <1>1, <1>2, CodeGoes
<1>7. r \in Channels
  BY <1>1
<1>8. \A x \in Contacts : x \in Code' <=> x \in MASK_CH[r]
  BY <1>1, <1>4, <1>5, <1>6, CountStep DEF Goes, After, Differs
<1>9. Code' = MASK_CH[r]
  BY <1>7, <1>8, MaskAt DEF Code
<1>10. \A x \in Contacts : Count(x)' = Streak(x, r, p, a, b)
  <2> SUFFICES ASSUME NEW x \in Contacts PROVE Count(x)' = Streak(x, r, p, a, b)
    OBVIOUS
  <2>1. Count(x) = Streak(x, q, a, b, c)
        /\ (x \in Code <=> x \in MASK_CH[q]) /\ (x \in Code' <=> x \in MASK_CH[r])
    BY <1>5, <1>8
  <2>2. /\ (x \in Code <=> x \in MASK_CH[p]) =>
             (x \in Code' <=> x \in Code) /\ Count(x)' = 0
        /\ ~(x \in Code <=> x \in MASK_CH[p]) =>
             IF Count(x) = 3 THEN (x \in Code' <=> x \notin Code) /\ Count(x)' = 0
             ELSE (x \in Code' <=> x \in Code) /\ Count(x)' = Count(x) + 1
    BY <1>1, <1>4, CountStep
  <2>. QED
    BY <2>1, <2>2 DEF Streak, Differs
<1>11. CodeOf(r)'
  BY <1>3, <1>6, <1>9, <1>10 DEF CodeOf, Goes
<1>. QED
  BY <1>6, <1>7, <1>11 DEF a, b, c, p

\* When no contact is counted and the code is the knob's, what other rows
\* showed is forgotten.
LEMMA SettledPassed ==
  ASSUME PassedInv, SelectorPass, Settled
  PROVE  CodeOf(position)'
<1>1. /\ position \in Channels /\ position' = position
      /\ recent[1] \in Channels /\ recent[2] \in Channels
  BY Knob DEF PassedInv, TypeInv, TypeOK, SelectorPass
<1>2. recent'[1] = position /\ recent'[2] = recent[1] /\ recent'[3] = recent[2]
  BY DEF SelectorPass
<1>3. Code' = MASK_CH[position]
  BY <1>1, MaskAt DEF Settled, Code
<1>4. Late(position, position, recent[1], recent[2])
  BY <1>1 DEF PassedInv, Smooth, Late, Beside, Channels
<1>5. \A x \in Contacts : Count(x)' = 0
  BY DEF Settled, Count
<1>6. \A x \in Contacts : Streak(x, position, position, recent[1], recent[2]) = 0
  BY DEF Streak, Differs
<1>. QED
  BY <1>1, <1>2, <1>3, <1>4, <1>5, <1>6 DEF CodeOf

LEMMA SelectorPassPassed ==
  ASSUME PassedInv, SelectorPass
  PROVE  PassedInv'
<1>1. TypeInv'
  BY SelectorPassTypes DEF PassedInv
<1>2. recent'[1] = position /\ recent'[2] = recent[1] /\ recent'[3] = recent[2]
  BY DEF SelectorPass
<1>3. Smooth'
  BY <1>2, Knob
     DEF PassedInv, TypeInv, TypeOK, Smooth, SelectorPass, Beside, Channels
<1>4. Reported'
  BY DEF SelectorPass, processChannel, Closed, Code, Reported
<1>5. ASSUME ~strayed' PROVE \E q \in Channels : CodeOf(q)'
  <2>1. mux = "here" /\ (~strayed \/ Settled)
    BY <1>5 DEF SelectorPass
  <2>2. CASE Settled
    <3>1. position' = position /\ position \in Channels
      BY Knob DEF PassedInv, TypeInv, TypeOK, SelectorPass
    <3>2. CodeOf(position)'
      BY <2>2, SettledPassed
    <3>. QED
      BY <3>1, <3>2 DEF CodeOf
  <2>3. CASE ~strayed
    BY <2>1, <2>3, ReadPassed DEF PassedInv
  <2>. QED
    BY <2>1, <2>2, <2>3
<1>. QED
  BY <1>1, <1>3, <1>4, <1>5 DEF PassedInv

LEMMA NextPassed == PassedInv /\ [Next]_vars => PassedInv'
<1> SUFFICES ASSUME PassedInv, [Next]_vars PROVE PassedInv'
  OBVIOUS
<1>1. TypeInv'
  BY NextTypes DEF PassedInv
<1>2. CASE SelectorPass
  BY <1>2, SelectorPassPassed
<1>3. CASE ~SelectorPass
  <2>1. /\ UNCHANGED <<ct0, ct1, chan_state, recent, strayed>>
        /\ prev_val' = prev_val \/ prev_val' = Closed
    BY <1>3 DEF Next, Elsewhere, Turn, HostData, QuietPass, NextRound,
                setManual, setUhfOn, debug, setPreset, setGuard, OtherPass,
                processChannel, debouncer, vars
  <2>2. Code' = Code /\ Closed = Code /\ \A x : Count(x)' = Count(x)
    BY <2>1 DEF Code, Closed, Count
  <2>3. \A q : CodeOf(q)' <=> CodeOf(q)
    BY <2>1, <2>2 DEF CodeOf
  <2>4. Reported => Reported'
    BY <2>1, <2>2 DEF Reported
  <2>5. Smooth'
    <3>1. CASE Turn
      BY <2>1, <3>1, <1>1, Knob
         DEF Turn, PassedInv, TypeInv, TypeOK, Smooth, Beside, Channels
    <3>2. CASE ~Turn
      <4>1. position' = position /\ turned' = turned
        BY <1>3, <3>2 DEF Next, Elsewhere, HostData, QuietPass, NextRound,
                          setManual, setUhfOn, debug, setPreset, setGuard,
                          OtherPass, vars
      <4>. QED
        BY <2>1, <4>1 DEF PassedInv, Smooth
    <3>. QED
      BY <3>1, <3>2
  <2>. QED
    BY <1>1, <2>1, <2>3, <2>4, <2>5 DEF PassedInv
<1>. QED
  BY <1>2, <1>3

\* What ReportPassed says of one step
LEMMA StepReports ==
  ASSUME PassedInv, [Next]_vars, ~strayed', Closed # prev_val
  PROVE  \E p \in {position, recent[1], recent[2], recent[3]} :
           Closed = MASK_CH[p]
<1>1. CASE SelectorPass
  <2>1. mux = "here" /\ (~strayed \/ Settled) /\ Closed = Code'
    BY <1>1 DEF SelectorPass, Closed, Code
  <2>2. CASE Settled
    <3>1. CodeOf(position)' /\ position' = position
      BY <1>1, <2>2, SettledPassed DEF SelectorPass
    <3>. QED
      BY <2>1, <3>1 DEF CodeOf
  <2>3. CASE ~strayed
    <3>1. Reported /\ \E q \in Channels : CodeOf(q)
      BY <2>3 DEF PassedInv
    <3>2. PICK q \in Channels : CodeOf(q)
      BY <3>1
    <3>3. PICK r \in {q, position, recent[1], recent[2], recent[3]} : CodeOf(r)'
      BY <1>1, <2>1, <2>3, <3>2, ReadPassed
    <3>4. Closed = MASK_CH[r] /\ Code = MASK_CH[q]
      BY <2>1, <3>2, <3>3 DEF CodeOf
    <3>5. CASE r = q
      BY <3>1, <3>4, <3>5 DEF Reported
    <3>. QED
      BY <3>3, <3>4, <3>5
  <2>. QED
    BY <2>1, <2>2, <2>3
<1>2. CASE ~SelectorPass
  <2>1. chan_state' = chan_state /\ strayed' = strayed
    BY <1>2 DEF Next, Elsewhere, Turn, HostData, QuietPass, NextRound,
                setManual, setUhfOn, debug, setPreset, setGuard, OtherPass,
                debouncer, vars
  <2>2. Closed = Code /\ Reported
    BY <2>1 DEF Closed, Code, PassedInv
  <2>. QED
    BY <2>2 DEF Reported
<1>. QED
  BY <1>1, <1>2

\* Contacts that debounce on their own (readChannel) never add up to a code of
\* a position that was not read, whatever the stops and the speed of the knob
\* up to one position between two readings.
THEOREM CodesWereShown == Spec => ReportPassed
<1>1. Init => PassedInv
  BY InitPassed
<1>2. PassedInv /\ [Next]_vars => PassedInv'
  BY NextPassed
<1>3. PassedInv /\ [Next]_vars =>
        [~strayed' /\ Closed # prev_val
           => \E p \in {position, recent[1], recent[2], recent[3]} :
                Closed = MASK_CH[p]]_vars
  BY StepReports
<1>. QED
  BY <1>1, <1>2, <1>3, PTL DEF Spec, ReportPassed
=============================================================================
